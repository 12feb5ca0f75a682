--------------------------- MODULE AccountsProofs ---------------------------
(***************************************************************************)
(* Theorems about Accounts and Panel: their types, that the shop always    *)
(* has an active administrator, and that no tab is shown out of the panel  *)
(* for no reason, for every number of accounts, sessions, tabs and         *)
(* requests under way.                                                     *)
(***************************************************************************)
EXTENDS MCStaff, TLAPS

Account == [role : StaffRoles \cup {"none"}, off : BOOLEAN, password : 0 .. MaxPassword,
            weak : BOOLEAN, failed : 0 .. MaxWrong, locked : BOOLEAN, validFrom : 0 .. MaxSecond]

SessionRow == [state : {"live", "just", "long", "over"}, of : Staff, from : Session \cup {NoSession}]

(* A request that has been read is one of the three kinds, by its op.      *)
LEMMA CallKinds ==
  ASSUME AccountsTypeOK, NEW c \in Call
  PROVE  /\ call[c].op \in {"login", "rehash"} => call[c] \in LoginCall
         /\ call[c].op = "refresh" => call[c] \in RefreshCall
         /\ call[c].op \in {"create", "update", "disable", "enable", "reset"} => call[c] \in ManageCall
<1>1. call[c] \in {Idle} \cup LoginCall \cup RefreshCall \cup ManageCall
  BY DEF AccountsTypeOK
<1>2. /\ Idle.op = "idle"
      /\ \A q \in LoginCall : q.op \in {"login", "rehash"}
      /\ \A q \in RefreshCall : q.op = "refresh"
      /\ \A q \in ManageCall : q.op \in Asked
  BY DEF Idle, LoginCall, RefreshCall, ManageCall
<1>3. Asked \subseteq {"create", "update", "disable", "enable", "reset"}
  BY AccountsAssumption DEF AccountsAssumption
<1> QED BY <1>1, <1>2, <1>3

(* The parts of the type invariant, with the sets they use named.          *)
LEMMA Types ==
  ASSUME AccountsTypeOK
  PROVE  /\ acct \in [Staff -> Account]
         /\ row \in [Session -> {NoRow, Gone} \cup SessionRow]
         /\ token \in [Staff -> NoToken .. MaxSecond]
         /\ call \in [Call -> {Idle} \cup LoginCall \cup RefreshCall \cup ManageCall]
         /\ second \in 0 .. MaxSecond
         /\ MaxFailures \in Nat /\ MaxWrong \in Nat /\ MaxPassword \in Nat /\ MaxSecond \in Nat
  BY AccountsAssumption DEF AccountsTypeOK, Account, SessionRow, AccountsAssumption

LEMMA TypesBack ==
  ASSUME acct' \in [Staff -> Account],
         row' \in [Session -> {NoRow, Gone} \cup SessionRow],
         token' \in [Staff -> NoToken .. MaxSecond],
         call' \in [Call -> {Idle} \cup LoginCall \cup RefreshCall \cup ManageCall],
         second' \in 0 .. MaxSecond
  PROVE  AccountsTypeOK'
  BY DEF AccountsTypeOK, Account, SessionRow

LEMMA InitTypes == AccountsInit => AccountsTypeOK /\ AlwaysAnAdmin
<1> SUFFICES ASSUME AccountsInit PROVE AccountsTypeOK /\ AlwaysAnAdmin
  OBVIOUS
<1>1. AccountsTypeOK
  <2>1. /\ Hired \in [Staff -> StaffRoles \cup {"none"}]
        /\ MaxPassword \in Nat /\ MaxWrong \in Nat /\ MaxSecond \in Nat
    BY AccountsAssumption DEF AccountsAssumption
  <2>2. ASSUME NEW s \in Staff PROVE acct[s] \in Account
    <3>1. acct[s] = [role |-> Hired[s], off |-> FALSE, password |-> 1, weak |-> s \in Stale,
                     failed |-> 0, locked |-> FALSE, validFrom |-> 0]
      BY DEF AccountsInit, NewAccount
    <3>2. 1 \in 0 .. MaxPassword /\ 0 \in 0 .. MaxWrong /\ 0 \in 0 .. MaxSecond
      BY <2>1, AccountsAssumption DEF AccountsAssumption
    <3>3. (s \in Stale) \in BOOLEAN
      OBVIOUS
    <3> QED BY <2>1, <3>1, <3>2, <3>3 DEF Account
  <2>3. acct = [s \in Staff |-> acct[s]]
    BY DEF AccountsInit
  <2>4. acct \in [Staff -> Account]
    BY <2>2, <2>3
  <2>5. /\ row \in [Session -> {NoRow, Gone} \cup SessionRow]
        /\ token \in [Staff -> NoToken .. MaxSecond]
        /\ call \in [Call -> {Idle} \cup LoginCall \cup RefreshCall \cup ManageCall]
        /\ second \in 0 .. MaxSecond
    BY <2>1 DEF AccountsInit, NoToken
  <2> QED BY <2>4, <2>5 DEF AccountsTypeOK, Account, SessionRow
<1>2. acct[Owner].role = "ADMIN" /\ ~acct[Owner].off
  BY AccountsAssumption DEF AccountsInit, NewAccount, AccountsAssumption
<1> QED BY <1>1, <1>2, AccountsAssumption DEF AlwaysAnAdmin, AccountsAssumption

(* Who runs the shop is left alone: every role and every switch stays.     *)
RolesStay == \A s \in Staff : acct'[s].role = acct[s].role /\ (acct[s].off \/ ~acct'[s].off)

LEMMA RolesStayIsEnough == ASSUME AlwaysAnAdmin, RolesStay PROVE AlwaysAnAdmin'
  BY DEF AlwaysAnAdmin, RolesStay

-----------------------------------------------------------------------------
(* The steps of a sign-in and of a session.                                *)

LEMMA SignInSteps ==
  ASSUME AccountsTypeOK, NEW c \in Call,
         \/ \E s \in Staff, p \in 0 .. MaxPassword : LoginRead(c, s, p)
         \/ RecordFailure(c) \/ UpgradeHash(c)
         \/ \E y \in Session : LoginIssue(c, y)
  PROVE  AccountsTypeOK' /\ RolesStay
<1> USE Types, CallKinds DEF NoToken
<1>1. CASE \E s \in Staff, p \in 0 .. MaxPassword : LoginRead(c, s, p)
  <2>1. PICK s \in Staff, p \in 0 .. MaxPassword : LoginRead(c, s, p)
    BY <1>1
  <2>2. call' \in [Call -> {Idle} \cup LoginCall \cup RefreshCall \cup ManageCall]
    BY <2>1 DEF LoginRead, LoginCall, Account
  <2> QED BY <2>1, <2>2, TypesBack DEF LoginRead, RolesStay
<1>2. CASE RecordFailure(c)
  <2>1. call[c].who \in Staff
    BY <1>2 DEF RecordFailure, LoginCall
  <2>2. acct' \in [Staff -> Account] /\ RolesStay
    BY <1>2, <2>1 DEF RecordFailure, Account, RolesStay
  <2> QED BY <1>2, <2>2, TypesBack DEF RecordFailure
<1>3. CASE UpgradeHash(c)
  <2>1. call[c].who \in Staff /\ call[c].typed \in 0 .. MaxPassword /\ call[c] \in LoginCall
    BY <1>3 DEF UpgradeHash, LoginCall
  <2>2. acct' \in [Staff -> Account] /\ RolesStay
    BY <1>3, <2>1 DEF UpgradeHash, Account, RolesStay
  <2>3. call' \in [Call -> {Idle} \cup LoginCall \cup RefreshCall \cup ManageCall]
    BY <1>3, <2>1 DEF UpgradeHash, LoginCall
  <2> QED BY <1>3, <2>2, <2>3, TypesBack DEF UpgradeHash
<1>4. CASE \E y \in Session : LoginIssue(c, y)
  <2>1. PICK y \in Session : LoginIssue(c, y)
    BY <1>4
  <2>2. call[c].who \in Staff /\ call[c] \in LoginCall
    BY <2>1 DEF LoginIssue, LoginCall
  <2>3. acct' \in [Staff -> Account] /\ RolesStay
    BY <2>1, <2>2 DEF LoginIssue, Account, RolesStay
  <2>4. call' \in [Call -> {Idle} \cup LoginCall \cup RefreshCall \cup ManageCall]
    BY <2>1, <2>2 DEF LoginIssue, LoginCall
  <2>5. row' \in [Session -> {NoRow, Gone} \cup SessionRow]
    BY <2>1, <2>2 DEF LoginIssue, SessionRow
  <2> QED BY <2>1, <2>2, <2>3, <2>4, <2>5, TypesBack DEF LoginIssue, Issue
<1> QED BY <1>1, <1>2, <1>3, <1>4

LEMMA SessionSteps ==
  ASSUME AccountsTypeOK, NEW c \in Call,
         \/ \E y \in Session : RefreshRead(c, y) \/ RefreshIssue(c, y)
         \/ RefreshRefuse(c) \/ Abandon(c)
  PROVE  AccountsTypeOK' /\ RolesStay
<1> USE Types, CallKinds DEF NoToken
<1>1. CASE \E y \in Session : RefreshRead(c, y)
  <2>1. PICK y \in Session : RefreshRead(c, y)
    BY <1>1
  <2>2. row[y] \in SessionRow
    BY <2>1 DEF RefreshRead, Rows
  <2>3. call' \in [Call -> {Idle} \cup LoginCall \cup RefreshCall \cup ManageCall]
    BY <2>1, <2>2 DEF RefreshRead, RefreshCall, SessionRow, Account
  <2> QED BY <2>1, <2>3, TypesBack DEF RefreshRead, RolesStay
<1>2. CASE \E y \in Session : RefreshIssue(c, y)
  <2>1. PICK y \in Session : RefreshIssue(c, y)
    BY <1>2
  <2>2. call[c].who \in Staff /\ call[c].x \in Session
    BY <2>1 DEF RefreshIssue, RefreshCall
  <2>3. call[c].x \in Rows => row[call[c].x] \in SessionRow
    BY <2>2 DEF Rows
  <2>4. row' \in [Session -> {NoRow, Gone} \cup SessionRow]
    BY <2>1, <2>2, <2>3 DEF RefreshIssue, SessionRow
  <2> QED BY <2>1, <2>2, <2>4, TypesBack DEF RefreshIssue, Issue, RolesStay
<1>3. CASE RefreshRefuse(c)
  BY <1>3, TypesBack DEF RefreshRefuse, RolesStay
<1>4. CASE Abandon(c)
  BY <1>4, TypesBack DEF Abandon, Refused, RolesStay
<1> QED BY <1>1, <1>2, <1>3, <1>4

LEMMA TimeSteps ==
  ASSUME AccountsTypeOK,
         \/ \E s \in Staff : LockoutEnds(s) \/ TokenExpires(s)
         \/ \E x \in Session : Logout(x) \/ LeewayEnds(x) \/ SessionExpires(x)
         \/ Tick
  PROVE  AccountsTypeOK' /\ RolesStay
<1> USE Types DEF NoToken
<1>1. CASE \E s \in Staff : LockoutEnds(s)
  <2>1. PICK s \in Staff : LockoutEnds(s)
    BY <1>1
  <2>2. acct' \in [Staff -> Account] /\ RolesStay
    BY <2>1 DEF LockoutEnds, RolesStay, Account
  <2> QED BY <2>1, <2>2, TypesBack DEF LockoutEnds
<1>2. CASE \E s \in Staff : TokenExpires(s)
  BY <1>2, TypesBack DEF TokenExpires, RolesStay
<1>3. CASE \E x \in Session : Logout(x) \/ LeewayEnds(x) \/ SessionExpires(x)
  <2>1. PICK x \in Session : Logout(x) \/ LeewayEnds(x) \/ SessionExpires(x)
    BY <1>3
  <2>2. row[x] \in SessionRow
    BY <2>1 DEF Logout, LeewayEnds, SessionExpires, NoRow, Gone
  <2>3. row' \in [Session -> {NoRow, Gone} \cup SessionRow]
    BY <2>1, <2>2 DEF Logout, LeewayEnds, SessionExpires, SessionRow
  <2> QED BY <2>1, <2>3, TypesBack DEF Logout, LeewayEnds, SessionExpires, RolesStay
<1>4. CASE Tick
  BY <1>4, TypesBack DEF Tick, RolesStay
<1> QED BY <1>1, <1>2, <1>3, <1>4

-----------------------------------------------------------------------------
(* The steps that manage the staff.                                        *)

LEMMA AskTypes ==
  ASSUME AccountsTypeOK, NEW c \in Call, NEW a \in Staff, Ask(c, a)
  PROVE  AccountsTypeOK' /\ RolesStay
<1>1. PICK op \in Asked, s \in Staff :
        /\ Offers(a, op, s)
        /\ \E r \in Named(op, s) :
             call' = [call EXCEPT ![c] = [op |-> op, actor |-> a, who |-> s, role |-> r]]
  BY DEF Ask
<1>2. Named(op, s) \subseteq StaffRoles
  BY <1>1, Types DEF Named, Offers, Exists, Account
<1>3. PICK r \in StaffRoles :
        call' = [call EXCEPT ![c] = [op |-> op, actor |-> a, who |-> s, role |-> r]]
  BY <1>1, <1>2
<1>4. call' \in [Call -> {Idle} \cup LoginCall \cup RefreshCall \cup ManageCall]
  BY <1>3, Types DEF ManageCall
<1> QED BY <1>4, Types, TypesBack DEF Ask, RolesStay

Managing(c) == Create(c) \/ Update(c) \/ Disable(c) \/ Enable(c) \/ ResetPassword(c)

LEMMA ManagingTypes ==
  ASSUME AccountsTypeOK, NEW c \in Call, Managing(c)
  PROVE  AccountsTypeOK'
<1>1. call[c] \in ManageCall
  BY CallKinds DEF Managing, Create, Update, Disable, Enable, ResetPassword
<1>2. call[c].who \in Staff /\ call[c].role \in StaffRoles
  BY <1>1 DEF ManageCall
<1>3. WithoutSessions(call[c].who) \in [Session -> {NoRow, Gone} \cup SessionRow]
  BY Types DEF WithoutSessions
<1>4. row' \in [Session -> {NoRow, Gone} \cup SessionRow]
  BY <1>3, Types DEF Managing, Create, Update, Disable, Enable, ResetPassword, Refused
<1>5. /\ call' \in [Call -> {Idle} \cup LoginCall \cup RefreshCall \cup ManageCall]
      /\ token' = token /\ second' = second
  BY Types DEF Managing, Create, Update, Disable, Enable, ResetPassword, Refused, Answer
<1>6. acct' \in [Staff -> Account]
  <2> DEFINE s == call[c].who
             p == acct[s].password
  <2>0. /\ acct[s] \in Account /\ acct \in [Staff -> Account]
        /\ second \in 0 .. MaxSecond /\ 0 \in 0 .. MaxWrong /\ 1 \in 0 .. MaxPassword
        /\ p \in 0 .. MaxPassword /\ MaxPassword \in Nat
    BY <1>2, Types, AccountsAssumption DEF Account, AccountsAssumption
  <2>1. ASSUME NEW a \in Account, acct' = [acct EXCEPT ![s] = a] PROVE acct' \in [Staff -> Account]
    BY <2>0, <2>1
  <2>2. CASE acct' = acct
    BY <2>0, <2>2
  <2>3. CASE Create(c) /\ acct' # acct
    <3>1. acct' = [acct EXCEPT ![s] = NewAccount(call[c].role, 1, FALSE)]
      BY <2>3 DEF Create, Refused
    <3>2. NewAccount(call[c].role, 1, FALSE) \in Account
      BY <2>0, <1>2 DEF NewAccount, Account
    <3> QED BY <3>1, <3>2, <2>1
  <2>4. CASE (Update(c) \/ Disable(c)) /\ acct' # acct
    <3> DEFINE u == SignedOut([acct[s] EXCEPT !.role = call[c].role])
               d == SignedOut([acct[s] EXCEPT !.off = TRUE])
    <3>1. u \in Account /\ d \in Account
      BY <2>0, <1>2 DEF SignedOut, Account
    <3>2. acct' = [acct EXCEPT ![s] = u] \/ acct' = [acct EXCEPT ![s] = d]
      BY <2>4, <2>0, <1>2 DEF Update, Disable, Refused
    <3> HIDE DEF u, d
    <3> QED BY <3>1, <3>2, <2>1
  <2>5. CASE Enable(c) /\ acct' # acct
    <3> DEFINE e == [acct[s] EXCEPT !.off = FALSE, !.failed = 0, !.locked = FALSE]
    <3>1. e \in Account
      BY <2>0 DEF Account
    <3>2. acct' = [acct EXCEPT ![s] = e]
      BY <2>5, <2>0, <1>2 DEF Enable
    <3> HIDE DEF e
    <3> QED BY <3>1, <3>2, <2>1
  <2>6. CASE ResetPassword(c) /\ acct' # acct
    <3> DEFINE n == SignedOut(NewPassword(acct[s]))
    <3>1. p + 1 \in 0 .. MaxPassword
      BY <2>6, <2>0 DEF ResetPassword
    <3>2. n \in Account
      BY <3>1, <2>0 DEF SignedOut, NewPassword, Account
    <3>3. acct' = [acct EXCEPT ![s] = n]
      BY <2>6, <2>0, <1>2 DEF ResetPassword, Refused
    <3> HIDE DEF n
    <3> QED BY <3>2, <3>3, <2>1
  <2> QED BY <2>2, <2>3, <2>4, <2>5, <2>6 DEF Managing
<1> QED BY <1>4, <1>5, <1>6, Types, TypesBack

(* The rule of the service, under its lock: whoever is demoted or switched *)
(* off leaves another active administrator behind.                         *)
LEMMA ManagingKeepsAnAdmin ==
  ASSUME AccountsTypeOK, AlwaysAnAdmin, NEW c \in Call, Managing(c)
  PROVE  AlwaysAnAdmin'
<1>1. call[c] \in ManageCall
  BY CallKinds DEF Managing, Create, Update, Disable, Enable, ResetPassword
<1> DEFINE s == call[c].who
<1>2. s \in Staff /\ call[c].role \in StaffRoles /\ "none" \notin StaffRoles
  BY <1>1, AccountsAssumption DEF ManageCall, AccountsAssumption
<1>3. PICK w \in Staff : acct[w].role = "ADMIN" /\ ~acct[w].off
  BY DEF AlwaysAnAdmin
<1>4. CASE acct' = acct
  BY <1>4 DEF AlwaysAnAdmin
<1>5. CASE Create(c) /\ acct' # acct
  <2>1. ~Exists(s) /\ acct' = [acct EXCEPT ![s] = NewAccount(call[c].role, 1, FALSE)]
    BY <1>5 DEF Create, Refused
  <2>2. w # s
    BY <2>1, <1>3 DEF Exists
  <2> QED BY <2>1, <2>2, <1>2, <1>3, Types DEF AlwaysAnAdmin
<1>6. CASE (Update(c) \/ Disable(c)) /\ acct' # acct
  <2>1. /\ MayLose(s)
        /\ \A o \in Staff \ {s} : acct'[o] = acct[o]
    BY <1>6, <1>2, Types DEF Update, Disable, Refused
  <2>2. CASE w # s
    BY <2>1, <2>2, <1>3 DEF AlwaysAnAdmin
  <2>3. CASE w = s
    <3>1. OtherActiveAdmin(s)
      BY <2>1, <2>3, <1>3 DEF MayLose
    <3> QED BY <3>1, <2>1 DEF OtherActiveAdmin, AlwaysAnAdmin
  <2> QED BY <2>2, <2>3
<1>7. CASE Enable(c) \/ ResetPassword(c)
  <2>0. acct[s] \in Account /\ acct \in [Staff -> Account]
    BY <1>2, Types
  <2>1. CASE Enable(c)
    <3>1. RolesStay
      BY <2>1, <2>0, <1>2 DEF Enable, RolesStay, Account
    <3> QED BY <3>1, RolesStayIsEnough
  <2>2. CASE ResetPassword(c)
    <3> DEFINE n == SignedOut(NewPassword(acct[s]))
    <3>1. n.role = acct[s].role /\ n.off = acct[s].off
      BY <2>0 DEF SignedOut, NewPassword, Account
    <3>2. acct' = acct \/ acct' = [acct EXCEPT ![s] = n]
      BY <2>2, <2>0, <1>2 DEF ResetPassword, Refused
    <3> HIDE DEF n
    <3>3. RolesStay
      BY <3>1, <3>2, <2>0, <1>2 DEF RolesStay
    <3> QED BY <3>3, RolesStayIsEnough
  <2> QED BY <1>7, <2>1, <2>2
<1> QED BY <1>4, <1>5, <1>6, <1>7 DEF Managing

-----------------------------------------------------------------------------
LEMMA NextKeeps ==
  ASSUME AccountsTypeOK, AlwaysAnAdmin, [AccountsNext]_accountVars
  PROVE  AccountsTypeOK' /\ AlwaysAnAdmin'
<1>1. CASE UNCHANGED accountVars
  BY <1>1 DEF accountVars, AccountsTypeOK, AlwaysAnAdmin, Idle, NoRow, Gone, NoToken,
              LoginCall, RefreshCall, ManageCall
<1>2. CASE \E c \in Call : Serve(c)
  <2>1. PICK c \in Call : Serve(c)
    BY <1>2
  <2>2. CASE Managing(c)
    BY <2>2, ManagingTypes, ManagingKeepsAnAdmin
  <2>3. CASE ~Managing(c)
    <3>1. AccountsTypeOK' /\ RolesStay
      BY <2>1, <2>3, SignInSteps, SessionSteps DEF Serve, Managing
    <3> QED BY <3>1, RolesStayIsEnough
  <2> QED BY <2>2, <2>3
<1>3. CASE \E c \in Call, a \in Staff : Ask(c, a)
  <2>1. AccountsTypeOK' /\ RolesStay
    BY <1>3, AskTypes
  <2> QED BY <2>1, RolesStayIsEnough
<1>4. CASE \/ \E s \in Staff : LockoutEnds(s) \/ TokenExpires(s)
           \/ \E x \in Session : Logout(x) \/ LeewayEnds(x) \/ SessionExpires(x)
           \/ Tick
  <2>1. AccountsTypeOK' /\ RolesStay
    BY <1>4, TimeSteps
  <2> QED BY <2>1, RolesStayIsEnough
<1> QED BY <1>1, <1>2, <1>3, <1>4 DEF AccountsNext

(* Every reachable state of the accounts has the types of the tables.      *)
THEOREM AccountsAreTyped == AccountsSpec => []AccountsTypeOK
<1>1. AccountsTypeOK /\ AlwaysAnAdmin /\ [AccountsNext]_accountVars
      => (AccountsTypeOK /\ AlwaysAnAdmin)'
  BY NextKeeps
<1> QED BY <1>1, InitTypes, PTL DEF AccountsSpec

(* Whatever administrators do to one another, one of them can still sign   *)
(* in and grant access back (admin-users.service.ts, refuseLastAdmin).     *)
THEOREM TheShopAlwaysHasAnAdmin == AccountsSpec => []AlwaysAnAdmin
<1>1. AccountsTypeOK /\ AlwaysAnAdmin /\ [AccountsNext]_accountVars
      => (AccountsTypeOK /\ AlwaysAnAdmin)'
  BY NextKeeps
<1> QED BY <1>1, InitTypes, PTL DEF AccountsSpec

-----------------------------------------------------------------------------
(* The panel: whatever a browser does, the server takes steps of Accounts. *)

LEMMA TabStepsAreAccounts ==
  ASSUME NEW t \in Tab,
         \/ Load(t) \/ Timer(t) \/ Me(t) \/ MeLost(t) \/ SignOut(t)
         \/ RefreshArrives(t) \/ Served(t)
         \/ PairArrives(t) \/ RefusalArrives(t) \/ Lost(t)
         \/ \E s \in Here, p \in 1 .. MaxPassword : Submit(t, s, p)
  PROVE  [AccountsNext]_accountVars
<1>0. t \in Call /\ Here \subseteq Staff /\ MaxPassword \in Nat
  BY PanelAssumption, AccountsAssumption DEF PanelAssumption, AccountsAssumption
<1>1. CASE \/ Load(t) \/ Timer(t) \/ Me(t) \/ MeLost(t) \/ SignOut(t)
           \/ PairArrives(t) \/ RefusalArrives(t) \/ Lost(t)
  BY <1>1 DEF Load, Timer, Me, MeLost, SignOut, PairArrives, RefusalArrives, Lost, NotRefreshed
<1>2. CASE RefreshArrives(t)
  <2>1. UNCHANGED accountVars \/ (wire[t].x \in Session /\ RefreshRead(t, wire[t].x))
    BY <1>2 DEF RefreshArrives, Rows
  <2> QED BY <1>0, <2>1 DEF AccountsNext, Serve
<1>3. CASE Served(t)
  BY <1>0, <1>3 DEF Served, AccountsNext, Serve
<1>4. CASE \E s \in Here, p \in 1 .. MaxPassword : Submit(t, s, p)
  <2>1. PICK s \in Here, p \in 1 .. MaxPassword : Submit(t, s, p)
    BY <1>4
  <2>2. s \in Staff /\ p \in 0 .. MaxPassword
    BY <1>0
  <2>3. LoginRead(t, s, p)
    BY <2>1 DEF Submit
  <2> QED BY <1>0, <2>2, <2>3 DEF AccountsNext, Serve
<1> QED BY <1>1, <1>2, <1>3, <1>4

LEMMA PanelStepsAreAccounts == ASSUME PanelNext PROVE [AccountsNext]_accountVars
<1>0. Desk \in Call /\ Owner \in Staff
  BY PanelAssumption, AccountsAssumption DEF PanelAssumption, AccountsAssumption
<1>1. CASE Managed
  BY <1>0, <1>1 DEF Managed, AccountsNext, Serve
<1>2. CASE PanelTime
  BY <1>2 DEF PanelTime, AccountsNext
<1>3. CASE CookieExpires
  BY <1>3 DEF CookieExpires
<1> QED BY <1>1, <1>2, <1>3, TabStepsAreAccounts DEF PanelNext

(* What is between a tab and the server, and how far its request is.  A    *)
(* tab has one request of a session under way at a time: on the wire or    *)
(* being served.  It is of a login only while the tab shows the form, so a *)
(* /me never waits for one.                                                *)
Message == {Quiet, Refusal}
             \cup [kind : {"refresh"}, x : Session \cup {NoSession}]
             \cup [kind : {"pair"}, session : Session, of : Staff, iat : NoToken .. MaxSecond]

OneRequest(t) ==
  /\ wire[t] # Quiet => call[t] = Idle
  /\ call[t].op \in {"login", "rehash"} => tab[t].at = "login"
  /\ tab[t].at = "login" => tab[t].me = "none"
  /\ tab[t].me = "refreshing" => ~Resting(t)

Jar == jar \in [session : Session \cup {NoSession}, of : Staff, iat : NoToken .. MaxSecond]
Known == known \in [authed : BOOLEAN, role : StaffRoles \cup {"none"}]
TabStates == tab \in [Tab -> [at : {"login", "panel"}, me : {"none", "ask", "refreshing", "again"}]]
Wires == wire \in [Tab -> Message]

PanelInv == Jar /\ Known /\ TabStates /\ Wires /\ \A t \in Tab : OneRequest(t)

LEMMA MessageKinds ==
  /\ \A m \in Message : /\ m.kind = "refresh" => m.x \in Session \cup {NoSession}
                        /\ m.kind = "pair" => /\ m.session \in Session /\ m.of \in Staff
                                              /\ m.iat \in NoToken .. MaxSecond
                        /\ m.kind # "none" => m # Quiet
  /\ \A x \in Session \cup {NoSession} : /\ [kind |-> "refresh", x |-> x] \in Message
                                         /\ [kind |-> "refresh", x |-> x] # Quiet
  /\ \A y \in Session, s \in Staff :
       second \in 0 .. MaxSecond => Pair(y, s) \in Message /\ Pair(y, s) # Quiet
  /\ Refusal \in Message /\ Refusal # Quiet /\ Quiet \in Message /\ Quiet.kind = "none"
<1>1. \A x : [kind |-> "refresh", x |-> x].kind = "refresh" /\ Refusal.kind = "refused" /\ Quiet.kind = "none"
  BY DEF Refusal, Quiet
<1>2. \A y, s : Pair(y, s).kind = "pair"
  BY DEF Pair
<1>3. \A x \in Session \cup {NoSession} : [kind |-> "refresh", x |-> x] # Quiet
  BY <1>1
<1>4. ASSUME NEW y \in Session, NEW s \in Staff, second \in 0 .. MaxSecond
      PROVE  Pair(y, s) \in Message /\ Pair(y, s) # Quiet
  <2>1. second \in NoToken .. MaxSecond
    BY <1>4, AccountsAssumption DEF AccountsAssumption, NoToken
  <2>2. Pair(y, s) # Quiet
    BY <1>1, <1>2
  <2> QED BY <2>1, <2>2 DEF Message, Pair
<1>5. Refusal # Quiet
  BY <1>1
<1>6. \A m \in Message : /\ m.kind = "refresh" => m.x \in Session \cup {NoSession}
                         /\ m.kind = "pair" => /\ m.session \in Session /\ m.of \in Staff
                                               /\ m.iat \in NoToken .. MaxSecond
                         /\ m.kind # "none" => m # Quiet
  BY <1>1 DEF Message
<1> QED BY <1>1, <1>3, <1>4, <1>5, <1>6 DEF Message

(* The tab t moves, and no other.                                          *)
OnlyTab(t) ==
  \A u \in Tab \ {t} : tab'[u] = tab[u] /\ wire'[u] = wire[u] /\ call'[u] = call[u]

LEMMA OthersKeep ==
  ASSUME PanelInv, NEW t \in Tab, OnlyTab(t), OneRequest(t)'
  PROVE  (\A u \in Tab : OneRequest(u))'
<1>1. ASSUME NEW u \in Tab, u # t PROVE OneRequest(u)'
  BY <1>1 DEF PanelInv, OneRequest, OnlyTab, Resting, Idle, Quiet
<1> QED BY <1>1

(* A step that leaves calls, wires and tabs alone.                         *)
LEMMA NoTabMoves ==
  ASSUME PanelInv, UNCHANGED <<tab, wire>>, \A t \in Tab : call'[t] = call[t], Jar', Known'
  PROVE  PanelInv'
<1>1. (\A t \in Tab : OneRequest(t))'
  BY DEF PanelInv, OneRequest, Resting, Idle, Quiet
<1>2. TabStates' /\ Wires'
  BY DEF PanelInv, TabStates, Wires, Message, Quiet, Refusal, NoToken
<1> QED BY <1>1, <1>2 DEF PanelInv

LEMMA PageSteps ==
  ASSUME AccountsTypeOK, PanelInv, NEW t \in Tab,
         Load(t) \/ Timer(t) \/ Me(t) \/ MeLost(t) \/ SignOut(t)
  PROVE  PanelInv'
<1>0. /\ tab[t].at \in {"login", "panel"} /\ OneRequest(t)
      /\ tab \in [Tab -> [at : {"login", "panel"}, me : {"none", "ask", "refreshing", "again"}]]
      /\ wire \in [Tab -> Message] /\ wire[t] \in Message
      /\ jar.session \in Session \cup {NoSession} /\ jar.of \in Staff
      /\ acct[jar.of].role \in StaffRoles \cup {"none"}
  <2>1. jar.session \in Session \cup {NoSession} /\ jar.of \in Staff
    BY DEF PanelInv, Jar
  <2>2. acct[jar.of] \in Account
    BY <2>1, Types
  <2> QED BY <2>1, <2>2 DEF PanelInv, TabStates, Wires, Account
<1>1. Jar'
  <2>1. jar' = jar
    BY DEF Load, Timer, Me, MeLost, SignOut
  <2> QED BY <2>1 DEF PanelInv, Jar, NoToken
<1>2. call' = call
  BY DEF Load, Timer, Me, MeLost, SignOut, accountVars
<1>3. Known'
  <2> DEFINE role == acct[jar.of].role
  <2>1. \/ known' = known \/ known' = Unknown
        \/ known' = [known EXCEPT !.role = role]
    BY DEF Load, Timer, Me, MeLost, SignOut, ShowLogin
  <2>2. known \in [authed : BOOLEAN, role : StaffRoles \cup {"none"}]
    BY DEF PanelInv, Known
  <2>3. role \in StaffRoles \cup {"none"}
    BY <1>0
  <2> HIDE DEF role
  <2>4. known' \in [authed : BOOLEAN, role : StaffRoles \cup {"none"}]
    <3>0. Unknown \in [authed : BOOLEAN, role : StaffRoles \cup {"none"}]
      BY DEF Unknown
    <3>1. CASE known' = known \/ known' = Unknown
      BY <3>0, <3>1, <2>2
    <3>2. CASE known' = [known EXCEPT !.role = role]
      <4>1. PICK a \in BOOLEAN, r \in StaffRoles \cup {"none"} : known = [authed |-> a, role |-> r]
        BY <2>2
      <4>2. known' = [authed |-> a, role |-> role]
        BY <3>2, <4>1
      <4> QED BY <2>3, <4>2
    <3> QED BY <2>1, <3>1, <3>2
  <2> QED BY <2>4 DEF Known
<1>4. \/ wire' = wire
      \/ Resting(t) /\ wire' = [wire EXCEPT ![t] = [kind |-> "refresh", x |-> jar.session]]
  BY DEF Load, Timer, Me, MeLost, SignOut, Send
<1>5. Wires'
  <2>1. wire' \in [Tab -> Message]
    BY <1>0, <1>4, MessageKinds
  <2> QED BY <2>1 DEF Wires, Message, Quiet, Refusal, NoToken
<1>6. PICK new \in [at : {"login", "panel"}, me : {"none", "ask", "refreshing", "again"}] :
        tab' = [tab EXCEPT ![t] = new]
  <2>1. CASE Timer(t)
    BY <1>0, <2>1 DEF Timer
  <2>2. CASE Load(t)
    BY <2>2 DEF Load, InPanel
  <2>3. CASE SignOut(t)
    BY <2>3 DEF SignOut, ShowLogin, AtLogin
  <2>4. CASE Me(t) \/ MeLost(t)
    BY <1>0, <2>4 DEF Me, MeLost, ShowLogin, AtLogin
  <2> QED BY <2>1, <2>2, <2>3, <2>4
<1>7. TabStates' /\ tab'[t] = new
  BY <1>0, <1>6 DEF TabStates
<1>8. OnlyTab(t)
  BY <1>0, <1>2, <1>4, <1>6 DEF OnlyTab
<1>9. OneRequest(t)'
  <2>1. wire'[t] # Quiet => call'[t] = Idle
    BY <1>0, <1>2, <1>4 DEF OneRequest, Resting
  <2>2. /\ tab'[t].at = "login" => tab'[t].me = "none"
        /\ tab[t].at = "login" => tab'[t].at = "login" \/ call[t] = Idle
        /\ tab'[t].me = "refreshing" => tab[t].me = "refreshing" \/ Me(t)
    BY <1>0, <1>6 DEF Load, Timer, Me, MeLost, SignOut, ShowLogin, AtLogin, InPanel, Resting, OneRequest
  <2>3. call'[t].op \in {"login", "rehash"} => tab'[t].at = "login"
    BY <1>0, <1>2, <2>2 DEF OneRequest, Idle
  <2>4. tab'[t].me = "refreshing" => wire'[t] # Quiet \/ call'[t] # Idle
    <3>1. CASE tab[t].me = "refreshing"
      BY <3>1, <1>0, <1>2, <1>4, MessageKinds DEF OneRequest, Resting
    <3>2. CASE tab[t].me # "refreshing" /\ Me(t)
      BY <3>2, <1>0, <1>2, <1>4, MessageKinds DEF Me, Send, Resting, ShowLogin, AtLogin
    <3> QED BY <2>2, <3>1, <3>2
  <2> QED BY <2>1, <2>2, <2>3, <2>4 DEF OneRequest, Resting, Idle, Quiet
<1> QED BY <1>1, <1>3, <1>5, <1>7, <1>8, <1>9, OthersKeep DEF PanelInv

(* A request of the tab begins or is served; what the tab shows stays.     *)
LEMMA RequestSteps ==
  ASSUME AccountsTypeOK, PanelInv, NEW t \in Tab,
         \/ \E s \in Here, p \in 1 .. MaxPassword : Submit(t, s, p)
         \/ RefreshArrives(t) \/ Served(t)
  PROVE  PanelInv'
<1>0. /\ OneRequest(t) /\ t \in Call
      /\ wire \in [Tab -> Message] /\ call \in [Call -> {Idle} \cup LoginCall \cup RefreshCall \cup ManageCall]
      /\ second \in 0 .. MaxSecond
  BY Types, PanelAssumption DEF PanelInv, Wires, PanelAssumption
<1>1. UNCHANGED <<jar, known, tab>>
  BY DEF Submit, RefreshArrives, Served
<1>2. Jar' /\ Known' /\ TabStates'
  BY <1>1 DEF PanelInv, Jar, Known, TabStates, NoToken
<1>3. CASE \E s \in Here, p \in 1 .. MaxPassword : Submit(t, s, p)
  <2>1. PICK s \in Here, p \in 1 .. MaxPassword : Submit(t, s, p)
    BY <1>3
  <2>2. /\ wire' = wire /\ wire[t] = Quiet /\ tab[t].at = "login"
        /\ call'[t].op = "login" /\ \A u \in Tab \ {t} : call'[u] = call[u]
    BY <1>0, <2>1, PanelAssumption DEF Submit, LoginRead, PanelAssumption
  <2>3. Wires'
    BY <2>2 DEF PanelInv, Wires, Message, Quiet, Refusal, NoToken
  <2>4. OnlyTab(t) /\ OneRequest(t)'
    <3>1. Idle.op # "login"
      BY DEF Idle
    <3> QED BY <1>0, <1>1, <2>2, <3>1 DEF OnlyTab, OneRequest, Resting, Idle, Quiet
  <2> QED BY <1>2, <2>3, <2>4, OthersKeep DEF PanelInv
<1>4. CASE RefreshArrives(t)
  <2>1. PICK m \in {Quiet, Refusal} :
          /\ wire' = [wire EXCEPT ![t] = m]
          /\ \/ m = Quiet /\ call'[t].op = "refresh"
             \/ m = Refusal /\ call'[t] = call[t]
          /\ \A u \in Tab \ {t} : call'[u] = call[u]
    BY <1>0, <1>4, PanelAssumption DEF RefreshArrives, RefreshRead, Reply, accountVars, PanelAssumption
  <2>2. wire' \in [Tab -> Message] /\ wire'[t] = m /\ wire[t] # Quiet
    BY <1>0, <1>4, <2>1, MessageKinds DEF RefreshArrives
  <2>3. Wires'
    BY <2>2 DEF Wires, Message, Quiet, Refusal, NoToken
  <2>4. OnlyTab(t)
    BY <1>0, <1>1, <2>1 DEF OnlyTab
  <2>5. OneRequest(t)'
    <3>1. Idle.op # "refresh" /\ Refusal # Quiet
      BY MessageKinds DEF Idle
    <3> QED BY <1>0, <1>1, <2>1, <2>2, <3>1 DEF OneRequest, Resting, Idle, Quiet
  <2> QED BY <1>2, <2>3, <2>4, <2>5, OthersKeep DEF PanelInv
<1>5. CASE Served(t)
  <2>0. call[t].op \in {"refresh", "login"} => call[t].who \in Staff
    BY <1>0, CallKinds DEF LoginCall, RefreshCall
  <2>1. /\ call'[t] = Idle /\ \A u \in Tab \ {t} : call'[u] = call[u]
        /\ \/ \E m \in Message \ {Quiet} : wire' = [wire EXCEPT ![t] = m]
           \/ wire' = wire /\ call[t].op = "login"
    <3>1. CASE \E y \in Session : RefreshIssue(t, y) /\ Reply(t, Pair(y, call[t].who))
      BY <1>0, <2>0, <3>1, MessageKinds, PanelAssumption DEF RefreshIssue, Reply, PanelAssumption
    <3>2. CASE \E y \in Session : LoginIssue(t, y) /\ call'[t] = Idle /\ Reply(t, Pair(y, call[t].who))
      BY <1>0, <2>0, <3>2, MessageKinds, PanelAssumption DEF LoginIssue, Reply, PanelAssumption
    <3>3. CASE RefreshRefuse(t) /\ Reply(t, Refusal)
      BY <1>0, <3>3, MessageKinds, PanelAssumption DEF RefreshRefuse, Reply, PanelAssumption
    <3>4. CASE RecordFailure(t) /\ UNCHANGED wire
      BY <1>0, <3>4, PanelAssumption DEF RecordFailure, PanelAssumption
    <3> QED BY <1>5, <3>1, <3>2, <3>3, <3>4 DEF Served
  <2>2. wire' \in [Tab -> Message] /\ OnlyTab(t)
    BY <1>0, <1>1, <2>1 DEF OnlyTab
  <2>3. Wires'
    BY <2>2 DEF Wires, Message, Quiet, Refusal, NoToken
  <2>4. OneRequest(t)'
    <3>1. Idle.op \notin {"login", "rehash"}
      BY DEF Idle
    <3>2. wire'[t] # Quiet \/ tab[t].at = "login"
      BY <1>0, <2>1 DEF OneRequest
    <3> QED BY <1>0, <1>1, <2>1, <3>1, <3>2 DEF OneRequest, Resting, Idle, Quiet
  <2> QED BY <1>2, <2>2, <2>3, <2>4, OthersKeep DEF PanelInv
<1> QED BY <1>3, <1>4, <1>5

(* An answer reaches the browser, or is lost.                              *)
LEMMA AnswerSteps ==
  ASSUME AccountsTypeOK, PanelInv, NEW t \in Tab,
         PairArrives(t) \/ RefusalArrives(t) \/ Lost(t)
  PROVE  PanelInv'
<1>0. /\ OneRequest(t) /\ wire \in [Tab -> Message] /\ wire[t] \in Message
      /\ tab \in [Tab -> [at : {"login", "panel"}, me : {"none", "ask", "refreshing", "again"}]]
  BY DEF PanelInv, Wires, TabStates
<1>1. call' = call /\ wire' = [wire EXCEPT ![t] = Quiet] /\ wire[t] # Quiet
  BY <1>0, MessageKinds DEF PairArrives, RefusalArrives, Lost, NotRefreshed, accountVars, Refusal
<1>2. wire' \in [Tab -> Message] /\ wire'[t] = Quiet
  BY <1>0, <1>1, MessageKinds
<1>3. Wires'
  BY <1>2 DEF Wires, Message, Quiet, Refusal, NoToken
<1>4. Jar'
  <2>1. CASE PairArrives(t)
    BY <2>1, <1>0, MessageKinds DEF PairArrives, Jar, NoToken
  <2>2. CASE RefusalArrives(t)
    BY <2>2, AccountsAssumption DEF RefusalArrives, NoCookies, Jar, NoToken, AccountsAssumption
  <2>3. CASE Lost(t)
    BY <2>3 DEF Lost, PanelInv, Jar, NoToken
  <2> QED BY <2>1, <2>2, <2>3
<1>5. Known'
  <2> DEFINE role == acct[wire[t].of].role
  <2>1. \/ known' = known \/ known' = Unknown
        \/ PairArrives(t) /\ known' = [authed |-> TRUE, role |-> role]
    BY DEF PairArrives, RefusalArrives, Lost, NotRefreshed, ShowLogin
  <2>2. CASE known' = known
    BY <2>2 DEF PanelInv, Known
  <2>3. CASE known' = Unknown
    <3>1. Unknown \in [authed : BOOLEAN, role : StaffRoles \cup {"none"}]
      BY DEF Unknown
    <3> QED BY <2>3, <3>1 DEF Known
  <2>4. CASE PairArrives(t) /\ known' = [authed |-> TRUE, role |-> role]
    <3>1. wire[t].of \in Staff
      BY <2>4, <1>0, MessageKinds DEF PairArrives
    <3>2. role \in StaffRoles \cup {"none"}
      <4>1. acct[wire[t].of] \in Account
        BY <3>1, Types
      <4> QED BY <4>1 DEF Account
    <3> HIDE DEF role
    <3> QED BY <2>4, <3>2 DEF Known
  <2> QED BY <2>1, <2>2, <2>3, <2>4
<1>6. PICK new \in [at : {"login", "panel"}, me : {"none", "ask", "refreshing", "again"}] :
        /\ tab' = [tab EXCEPT ![t] = new]
        /\ new.me # "refreshing"
        /\ new.at = "login" => new.me = "none"
  <2>1. CASE PairArrives(t) /\ tab[t].at = "login"
    <3>1. /\ InPanel \in [at : {"login", "panel"}, me : {"none", "ask", "refreshing", "again"}]
          /\ InPanel.me = "ask" /\ InPanel.at = "panel"
      BY DEF InPanel
    <3>2. tab' = [tab EXCEPT ![t] = InPanel]
      BY <2>1 DEF PairArrives
    <3> QED BY <3>1, <3>2
  <2>2. CASE PairArrives(t) /\ tab[t].at = "panel"
    <3> DEFINE me == IF tab[t].me = "refreshing" THEN "again" ELSE tab[t].me
               new == [tab[t] EXCEPT !.me = me]
    <3>1. me \in {"none", "ask", "again"} /\ tab[t] \in [at : {"login", "panel"}, me : {"none", "ask", "refreshing", "again"}]
      BY <1>0
    <3>2. tab' = [tab EXCEPT ![t] = new]
      BY <1>0, <2>2 DEF PairArrives
    <3> HIDE DEF me
    <3>3. new \in [at : {"login", "panel"}, me : {"none", "ask", "refreshing", "again"}] /\ new.me = me /\ new.at = "panel"
      BY <2>2, <3>1
    <3> QED BY <3>1, <3>2, <3>3
  <2>3. CASE RefusalArrives(t) \/ Lost(t)
    <3>1. CASE tab[t].me = "refreshing"
      <4>1. /\ AtLogin \in [at : {"login", "panel"}, me : {"none", "ask", "refreshing", "again"}]
            /\ AtLogin.me = "none"
        BY DEF AtLogin
      <4>2. tab' = [tab EXCEPT ![t] = AtLogin]
        BY <2>3, <3>1 DEF RefusalArrives, Lost, NotRefreshed, ShowLogin
      <4> QED BY <4>1, <4>2
    <3>2. CASE tab[t].me # "refreshing"
      <4>1. tab' = tab /\ tab = [tab EXCEPT ![t] = tab[t]]
        BY <2>3, <3>2, <1>0 DEF RefusalArrives, Lost, NotRefreshed
      <4> QED BY <3>2, <4>1, <1>0 DEF OneRequest
    <3> QED BY <3>1, <3>2
  <2> QED BY <1>0, <2>1, <2>2, <2>3
<1>7. TabStates' /\ tab'[t] = new /\ OnlyTab(t)
  BY <1>0, <1>1, <1>6 DEF TabStates, OnlyTab
<1>8. OneRequest(t)'
  <2>1. call'[t] = Idle
    BY <1>0, <1>1 DEF OneRequest
  <2>2. Idle.op \notin {"login", "rehash"}
    BY DEF Idle
  <2> QED BY <1>2, <1>6, <1>7, <2>1, <2>2 DEF OneRequest, Resting, Quiet
<1> QED BY <1>3, <1>4, <1>5, <1>7, <1>8, OthersKeep DEF PanelInv

(* The owner at another desk, and time.                                    *)
LEMMA DeskAndTime ==
  ASSUME AccountsTypeOK, PanelInv, Managed \/ PanelTime \/ CookieExpires
  PROVE  PanelInv'
<1>1. UNCHANGED <<tab, wire, known>>
  BY DEF Managed, PanelTime, CookieExpires
<1>2. \A t \in Tab : call'[t] = call[t]
  <2>0. call \in [Call -> {Idle} \cup LoginCall \cup RefreshCall \cup ManageCall] /\ Desk \notin Tab
    BY Types, PanelAssumption DEF PanelAssumption
  <2>1. CASE Managed
    <3>1. call' = call \/ \E q : call' = [call EXCEPT ![Desk] = q]
      <4>1. CASE Ask(Desk, Owner)
        BY <4>1 DEF Ask
      <4>2. CASE Create(Desk) \/ Enable(Desk)
        BY <4>2 DEF Create, Enable, Answer, Refused
      <4>3. CASE Update(Desk) \/ Disable(Desk)
        BY <4>3 DEF Update, Disable, Answer, Refused
      <4>4. CASE ResetPassword(Desk) \/ Abandon(Desk)
        BY <4>4 DEF ResetPassword, Abandon, Answer, Refused
      <4> QED BY <2>1, <4>1, <4>2, <4>3, <4>4 DEF Managed
    <3>2. CASE call' = call
      BY <3>2
    <3>3. ASSUME NEW q, call' = [call EXCEPT ![Desk] = q] PROVE \A t \in Tab : call'[t] = call[t]
      BY <2>0, <3>3
    <3> QED BY <3>1, <3>2, <3>3
  <2>2. CASE PanelTime
    BY <2>2 DEF PanelTime, Tick, LeewayEnds, SessionExpires, LockoutEnds
  <2>3. CASE CookieExpires
    BY <2>3 DEF CookieExpires, accountVars
  <2> QED BY <2>1, <2>2, <2>3
<1>3. Known'
  BY <1>1 DEF PanelInv, Known
<1>4. Jar'
  <2>1. NoToken \in NoToken .. MaxSecond
    BY AccountsAssumption DEF AccountsAssumption, NoToken
  <2>2. jar' = jar \/ jar' = [jar EXCEPT !.iat = NoToken]
    BY DEF Managed, PanelTime, CookieExpires
  <2> QED BY <2>1, <2>2 DEF PanelInv, Jar, NoToken
<1> QED BY <1>1, <1>2, <1>3, <1>4, NoTabMoves

LEMMA PanelKeeps == ASSUME AccountsTypeOK, PanelInv, PanelNext PROVE PanelInv'
  BY PageSteps, RequestSteps, AnswerSteps, DeskAndTime DEF PanelNext

LEMMA PanelBegins == PanelInit => AccountsTypeOK /\ AlwaysAnAdmin /\ PanelInv
<1> SUFFICES ASSUME PanelInit PROVE AccountsTypeOK /\ AlwaysAnAdmin /\ PanelInv
  OBVIOUS
<1>1. AccountsTypeOK /\ AlwaysAnAdmin
  BY InitTypes DEF PanelInit
<1>2. Jar
  <2>1. NoToken \in NoToken .. MaxSecond /\ Owner \in Staff
    BY AccountsAssumption DEF AccountsAssumption, NoToken
  <2> QED BY <2>1 DEF PanelInit, NoCookies, Jar
<1>3. Known
  <2>1. Unknown \in [authed : BOOLEAN, role : StaffRoles \cup {"none"}]
    BY DEF Unknown
  <2> QED BY <2>1 DEF PanelInit, Known
<1>4. TabStates /\ Wires /\ \A t \in Tab : tab[t].me = "none"
  <2>1. AtLogin \in [at : {"login", "panel"}, me : {"none", "ask", "refreshing", "again"}]
    BY DEF AtLogin
  <2> QED BY <2>1, MessageKinds DEF PanelInit, TabStates, Wires, AtLogin
<1>5. \A t \in Tab : OneRequest(t)
  <2>1. \A c \in Call : call[c] = Idle
    BY DEF PanelInit, AccountsInit
  <2>2. Idle.op \notin {"login", "rehash"}
    BY DEF Idle
  <2> QED BY <1>4, <2>1, <2>2, PanelAssumption DEF PanelInit, OneRequest, PanelAssumption, AtLogin
<1> QED BY <1>1, <1>2, <1>3, <1>4, <1>5 DEF PanelInv

-----------------------------------------------------------------------------
(* The scenes.  In those of the accounts alone no browser moves.           *)

ScenesInv ==
  /\ AccountsTypeOK /\ AlwaysAnAdmin
  /\ Jar /\ Known /\ TabStates
  /\ IF scene = "tabs" THEN PanelInv ELSE \A t \in Tab : tab[t].me = "none"

LEMMA ScenesBegin == Init => ScenesInv
<1> SUFFICES ASSUME Init PROVE ScenesInv
  OBVIOUS
<1>1. AccountsTypeOK /\ AlwaysAnAdmin /\ PanelInv /\ \A t \in Tab : tab[t].me = "none"
  BY PanelBegins DEF Init, PanelInit, AtLogin
<1> QED BY <1>1 DEF ScenesInv, PanelInv

LEMMA ScenesKeep == ASSUME ScenesInv, [Next]_<<accountVars, panelVars, scene>> PROVE ScenesInv'
<1>1. [AccountsNext]_accountVars
  BY PanelStepsAreAccounts DEF Next, Rules, Resets, Tabs, AtTheApi
<1>2. AccountsTypeOK' /\ AlwaysAnAdmin'
  BY <1>1, NextKeeps DEF ScenesInv
<1>3. scene' = scene
  BY DEF Next
<1>4. CASE UNCHANGED panelVars /\ scene # "tabs"
  BY <1>2, <1>3, <1>4 DEF ScenesInv, panelVars, Jar, Known, TabStates, NoToken
<1>5. CASE scene = "tabs" /\ PanelNext
  BY <1>2, <1>3, <1>5, PanelKeeps DEF ScenesInv, PanelInv
<1>6. CASE UNCHANGED <<accountVars, panelVars>> /\ scene = "tabs"
  <2>1. PanelInv'
    BY <1>6, NoTabMoves DEF ScenesInv, PanelInv, accountVars, panelVars, Jar, Known, NoToken
  <2> QED BY <1>2, <1>3, <1>6, <2>1 DEF ScenesInv, PanelInv
<1> QED BY <1>4, <1>5, <1>6 DEF Next, Rules, Resets, Tabs, AtTheApi

(* Accounts, cookies and tabs hold what they can hold, and a tab whose /me *)
(* waits for its refresh has one under way (use-admin-gate.ts).            *)
THEOREM StaffIsWellFormed == Spec => []WellFormed
<1>1. ScenesInv => WellFormed
  BY DEF ScenesInv, WellFormed, PanelTypeOK, PanelInv, Jar, Known, TabStates, OneRequest
<1> QED BY <1>1, ScenesBegin, ScenesKeep, PTL DEF Spec

(* A browser adds nothing to what the accounts allow: what it does, with   *)
(* tabs that race, answers that are lost and an owner at another desk, is  *)
(* a behaviour of Accounts, so what is true of those is true of it.        *)
THEOREM ThePanelUsesTheAccounts == PanelSpec => AccountsSpec
<1>1. [PanelNext]_<<accountVars, panelVars>> => [AccountsNext]_accountVars
  BY PanelStepsAreAccounts
<1> QED BY <1>1, PTL DEF PanelSpec, AccountsSpec, PanelInit

-----------------------------------------------------------------------------
(* Why nobody is shown out.  Which sessions are on their way, and where:   *)
(* a tab has one on the wire or in a request that is being served.         *)

Has(t, x) ==
  \/ wire[t].kind = "refresh" /\ wire[t].x = x
  \/ wire[t].kind = "pair" /\ wire[t].session = x
  \/ call[t].op = "refresh" /\ call[t].x = x

(* Only rows there were are carried, a pair on its way is of a session     *)
(* nobody else has yet, and whoever signs in or is remembered has an       *)
(* account, which was last signed out in the past.                         *)
CarriedAreRows == \A x \in Session : jar.session = x \/ (\E t \in Tab : Has(t, x)) => row[x] # NoRow
PairsAreNew ==
  \A t \in Tab, x \in Session : wire[t].kind = "pair" /\ wire[t].session = x =>
    jar.session # x /\ \A u \in Tab \ {t} : ~Has(u, x)
AccountsExist ==
  /\ \A x \in Rows : Exists(row[x].of)
  /\ \A t \in Tab : call[t].op \in {"login", "refresh"} => Exists(call[t].who)
SignedOutBefore == \A s \in Staff : acct[s].validFrom <= second

CarriedInv ==
  /\ CarriedAreRows /\ PairsAreNew /\ AccountsExist /\ SignedOutBefore
  /\ excused \in [Tab -> BOOLEAN]

LEMMA AtHand ==
  ASSUME AccountsTypeOK, PanelInv, NEW t \in Tab
  PROVE  /\ t \in Call /\ OneRequest(t)
         /\ wire \in [Tab -> Message] /\ tab \in [Tab -> [at : {"login", "panel"}, me : {"none", "ask", "refreshing", "again"}]]
         /\ call \in [Call -> {Idle} \cup LoginCall \cup RefreshCall \cup ManageCall]
         /\ wire[t].kind \in {"none", "refused", "refresh", "pair"}
         /\ wire[t] # Quiet <=> wire[t].kind # "none"
         /\ call[t] = Idle => call[t].op = "idle"
         /\ wire[t].kind # "none" => call[t] = Idle
<1>1. wire[t] \in Message /\ OneRequest(t) /\ t \in Call
  BY PanelAssumption DEF PanelInv, Wires, PanelAssumption
<1>2. wire[t].kind \in {"none", "refused", "refresh", "pair"}
  BY <1>1 DEF Message, Quiet, Refusal
<1>3. wire[t].kind # "none" => wire[t] # Quiet
  BY DEF Quiet
<1>4. wire[t].kind = "none" => wire[t] = Quiet
  <2>1. \A m \in Message : m = Quiet \/ m.kind \in {"refused", "refresh", "pair"}
    BY DEF Message, Quiet, Refusal
  <2> QED BY <1>1, <2>1
<1> QED BY <1>1, <1>2, <1>3, <1>4, Types DEF PanelInv, Wires, TabStates, OneRequest, Idle

(* A step of the tab that begins no session: what it has after it, it had  *)
(* before or took from the jar.                                            *)
NothingNew(t) ==
  /\ OnlyTab(t) /\ row' = row /\ second' = second
  /\ \A s \in Staff : acct'[s].role = acct[s].role /\ acct'[s].validFrom = acct[s].validFrom
  /\ \A x \in Session : Has(t, x)' => Has(t, x) \/ x = jar.session
  /\ wire'[t].kind = "pair" => wire'[t] = wire[t]
  /\ jar'.session \in {jar.session, NoSession}
  /\ call'[t].op \in {"login", "refresh"} => call'[t] = call[t] \/ (call'[t].who \in Staff /\ Exists(call'[t].who))

LEMMA NothingNewKeeps ==
  ASSUME AccountsTypeOK, PanelInv, CarriedInv, NEW t \in Tab, NothingNew(t)
  PROVE  (CarriedAreRows /\ PairsAreNew /\ AccountsExist /\ SignedOutBefore)'
<1>1. \A u \in Tab \ {t}, x \in Session : Has(u, x)' <=> Has(u, x)
  BY DEF NothingNew, OnlyTab, Has
<1>2. Rows' = Rows /\ NoSession \notin Session
  BY AccountsAssumption DEF NothingNew, Rows, AccountsAssumption, NoRow, Gone
<1>3. CarriedAreRows'
  BY <1>1, <1>2 DEF NothingNew, CarriedInv, CarriedAreRows, NoRow
<1>4. PairsAreNew'
  <2> SUFFICES ASSUME NEW u \in Tab, NEW x \in Session, wire'[u].kind = "pair", wire'[u].session = x
               PROVE  jar'.session # x /\ \A v \in Tab \ {u} : ~Has(v, x)'
    BY DEF PairsAreNew
  <2>1. wire'[u] = wire[u]
    BY DEF NothingNew, OnlyTab
  <2>2. jar.session # x /\ \A v \in Tab \ {u} : ~Has(v, x)
    BY <2>1 DEF CarriedInv, PairsAreNew
  <2> QED BY <1>1, <1>2, <2>2 DEF NothingNew
<1>5. AccountsExist'
  <2>1. \A s \in Staff : Exists(s)' <=> Exists(s)
    BY DEF Exists, NothingNew
  <2>2. \A x \in Rows : row[x].of \in Staff
    BY Types DEF Rows, SessionRow
  <2>3. (\A x \in Rows : Exists(row[x].of))'
    BY <1>2, <2>1, <2>2 DEF CarriedInv, AccountsExist, NothingNew, Exists
  <2>4. ASSUME NEW u \in Tab, call'[u].op \in {"login", "refresh"} PROVE Exists(call[u].who)'
    <3>2. Exists(call'[u].who) /\ call'[u].who \in Staff
      <4>1. CASE call'[u] = call[u]
        BY <4>1, <2>4, AtHand, CallKinds DEF CarriedInv, AccountsExist, LoginCall, RefreshCall
      <4>2. CASE call'[u] # call[u]
        BY <4>2, <2>4 DEF NothingNew, OnlyTab
      <4> QED BY <4>1, <4>2
    <3> QED BY <2>1, <3>2 DEF Exists
  <2> QED BY <2>3, <2>4 DEF AccountsExist
<1>6. SignedOutBefore'
  BY DEF NothingNew, CarriedInv, SignedOutBefore
<1> QED BY <1>3, <1>4, <1>5, <1>6

LEMMA PageIsNothingNew ==
  ASSUME AccountsTypeOK, PanelInv, NEW t \in Tab,
         \/ Load(t) \/ Timer(t) \/ Me(t) \/ MeLost(t) \/ SignOut(t)
         \/ RefusalArrives(t) \/ Lost(t)
  PROVE  NothingNew(t)
<1> USE AtHand, MessageKinds
<1>1. UNCHANGED accountVars /\ \A u \in Tab \ {t} : tab'[u] = tab[u]
  BY DEF Load, Timer, Me, MeLost, SignOut, RefusalArrives, Lost, NotRefreshed, ShowLogin
<1>2. jar' = jar \/ jar' = NoCookies
  BY DEF Load, Timer, Me, MeLost, SignOut, RefusalArrives, Lost
<1>3. \/ wire' = wire
      \/ wire' = [wire EXCEPT ![t] = Quiet]
      \/ wire' = [wire EXCEPT ![t] = [kind |-> "refresh", x |-> jar.session]]
  BY DEF Load, Timer, Me, MeLost, SignOut, RefusalArrives, Lost, NotRefreshed, Send
<1>4. /\ \A u \in Tab \ {t} : wire'[u] = wire[u]
      /\ wire'[t] \in {wire[t], Quiet, [kind |-> "refresh", x |-> jar.session]}
  BY <1>3
<1>5. \A x \in Session : Has(t, x)' => Has(t, x) \/ x = jar.session
  BY <1>1, <1>4 DEF Has, accountVars
<1>6. wire'[t].kind = "pair" => wire'[t] = wire[t]
  BY <1>4
<1>7. jar'.session \in {jar.session, NoSession}
  BY <1>2 DEF NoCookies
<1>8. OnlyTab(t) /\ UNCHANGED <<acct, row, second, call>>
  BY <1>1, <1>4 DEF OnlyTab, accountVars
<1> QED BY <1>5, <1>6, <1>7, <1>8 DEF NothingNew

LEMMA RequestIsNothingNew ==
  ASSUME AccountsTypeOK, PanelInv, NEW t \in Tab,
         \/ \E s \in Here, p \in 1 .. MaxPassword : Submit(t, s, p)
         \/ RefreshArrives(t)
         \/ RefreshRefuse(t) /\ Reply(t, Refusal) /\ UNCHANGED <<jar, tab>>
         \/ RecordFailure(t) /\ UNCHANGED <<wire, jar, tab>>,
         AccountsExist
  PROVE  NothingNew(t)
<1> USE AtHand, MessageKinds
<1>1. CASE \E s \in Here, p \in 1 .. MaxPassword : Submit(t, s, p)
  <2>1. PICK s \in Here, p \in 1 .. MaxPassword : Submit(t, s, p)
    BY <1>1
  <2>2. s \in Staff /\ call'[t].op = "login" /\ call'[t].who = s /\ Exists(s)
    BY <2>1, PanelAssumption DEF Submit, LoginRead, Active, PanelAssumption
  <2> QED BY <2>1, <2>2 DEF Submit, LoginRead, NothingNew, OnlyTab, Has
<1>2. CASE RefreshArrives(t)
  <2>1. CASE wire[t].x \in Rows /\ RefreshRead(t, wire[t].x) /\ Reply(t, Quiet)
    <3>1. /\ call'[t].op = "refresh" /\ call'[t].x = wire[t].x /\ call'[t].who = row[wire[t].x].of
          /\ wire'[t].kind = "none"
      BY <2>1 DEF RefreshRead, Reply
    <3>2. call'[t].who \in Staff /\ Exists(call'[t].who)
      BY <3>1, <2>1, Types DEF AccountsExist, Rows, SessionRow
    <3>3. \A x \in Session : Has(t, x)' => Has(t, x)
      BY <3>1, <1>2 DEF Has, RefreshArrives
    <3> QED BY <1>2, <2>1, <3>1, <3>2, <3>3 DEF RefreshArrives, RefreshRead, Reply, NothingNew, OnlyTab
  <2>2. CASE Reply(t, Refusal) /\ UNCHANGED accountVars
    <3>1. wire'[t].kind = "refused"
      BY <2>2 DEF Reply, Refusal
    <3> QED BY <1>2, <2>2, <3>1 DEF RefreshArrives, Reply, NothingNew, OnlyTab, Has, accountVars
  <2> QED BY <1>2, <2>1, <2>2 DEF RefreshArrives
<1>3. CASE RefreshRefuse(t) /\ Reply(t, Refusal) /\ UNCHANGED <<jar, tab>>
  <2>1. wire'[t].kind = "refused" /\ call'[t].op = "idle"
    BY <1>3 DEF RefreshRefuse, Reply, Refusal, Idle
  <2> QED BY <1>3, <2>1 DEF RefreshRefuse, Reply, NothingNew, OnlyTab, Has
<1>4. CASE RecordFailure(t) /\ UNCHANGED <<wire, jar, tab>>
  <2>1. call'[t].op = "idle"
    BY <1>4 DEF RecordFailure, Idle
  <2>2. \A s \in Staff : acct'[s].role = acct[s].role /\ acct'[s].validFrom = acct[s].validFrom
    BY <1>4, Types DEF RecordFailure, Account
  <2> QED BY <1>4, <2>1, <2>2 DEF RecordFailure, NothingNew, OnlyTab, Has
<1> QED BY <1>1, <1>2, <1>3, <1>4

(* A pair that arrives hands its session from the tab's wire to the jar.   *)
LEMMA PairGoesToTheJar ==
  ASSUME AccountsTypeOK, PanelInv, CarriedInv, NEW t \in Tab, PairArrives(t)
  PROVE  /\ OnlyTab(t) /\ UNCHANGED accountVars
         /\ wire'[t].kind = "none" /\ call[t].op = "idle" /\ jar'.session = wire[t].session
         /\ wire[t].session \in Session
         /\ \A x \in Session : x = wire[t].session => \A u \in Tab : ~Has(u, x)'
         /\ \A u \in Tab \ {t}, x \in Session : Has(u, x)' <=> Has(u, x)
         /\ \A x \in Session : ~Has(t, x)'
<1> USE AtHand, MessageKinds
<1>1. OnlyTab(t) /\ UNCHANGED accountVars
  BY DEF PairArrives, OnlyTab, accountVars
<1>2. wire'[t].kind = "none" /\ jar'.session = wire[t].session /\ wire[t].session \in Session /\ call[t].op = "idle"
  BY DEF PairArrives, OneRequest
<1>3. \A x \in Session : ~Has(t, x)'
  BY <1>1, <1>2 DEF Has, accountVars
<1>4. \A u \in Tab \ {t}, x \in Session : Has(u, x)' <=> Has(u, x)
  BY <1>1 DEF OnlyTab, Has
<1>5. \A u \in Tab \ {t} : ~Has(u, wire[t].session)
  BY <1>2 DEF CarriedInv, PairsAreNew, PairArrives
<1>6. ASSUME NEW x \in Session, x = wire[t].session PROVE \A u \in Tab : ~Has(u, x)'
  BY <1>3, <1>4, <1>5, <1>6
<1> QED BY <1>1, <1>2, <1>3, <1>4, <1>6

(* A pair is issued: a row of its own, dated now, and its predecessor      *)
(* spent at most.                                                          *)
Issues(t, y) ==
  /\ RefreshIssue(t, y) \/ (LoginIssue(t, y) /\ call'[t] = Idle)
  /\ Reply(t, Pair(y, call[t].who)) /\ UNCHANGED <<jar, tab, known>>

LEMMA WhatIsIssued ==
  ASSUME AccountsTypeOK, PanelInv, NEW t \in Tab, NEW y \in Session, Issues(t, y)
  PROVE  /\ OnlyTab(t) /\ call[t].op \in {"login", "refresh"} /\ call[t].who \in Staff
         /\ call'[t].op = "idle" /\ second' = second /\ second \in 0 .. MaxSecond
         /\ wire'[t].kind = "pair" /\ wire'[t].session = y /\ wire'[t].of = call[t].who
         /\ wire'[t].iat = second
         /\ row[y] = NoRow /\ y \in Rows' /\ row'[y].state = "live" /\ row'[y].of = call[t].who
         /\ \A x \in Session \ {y} :
              \/ row'[x] = row[x]
              \/ /\ call[t].op = "refresh" /\ x = call[t].x /\ x \in Rows /\ x \in Rows'
                 /\ row'[x].state = "just" /\ row'[x].of = row[x].of
         /\ \A s \in Staff : /\ acct'[s].role = acct[s].role /\ acct'[s].off = acct[s].off
                             /\ acct'[s].validFrom = acct[s].validFrom
<1> DEFINE new == [state |-> "live", of |-> call[t].who, from |-> IF call[t].op = "login" THEN NoSession ELSE call[t].x]
<1>1. /\ call[t].op \in {"login", "refresh"} /\ call[t].who \in Staff
      /\ call[t].op = "refresh" => call[t].x \in Session
      /\ t \in Call /\ wire \in [Tab -> Message] /\ call \in [Call -> {Idle} \cup LoginCall \cup RefreshCall \cup ManageCall]
  BY AtHand, CallKinds DEF Issues, RefreshIssue, LoginIssue, LoginCall, RefreshCall
<1>2. /\ call'[t].op = "idle" /\ \A u \in Tab \ {t} : call'[u] = call[u] /\ wire'[u] = wire[u]
      /\ wire'[t] = Pair(y, call[t].who) /\ UNCHANGED <<jar, tab, second>> /\ row[y] = NoRow
  <2>1. Idle.op = "idle" /\ UNCHANGED <<jar, tab, second>> /\ row[y] = NoRow
    BY DEF Issues, RefreshIssue, LoginIssue, Issue, Idle
  <2>2. wire'[t] = Pair(y, call[t].who) /\ \A u \in Tab \ {t} : wire'[u] = wire[u]
    BY <1>1 DEF Issues, Reply
  <2>3. call'[t] = Idle /\ \A u \in Tab \ {t} : call'[u] = call[u]
    <3>1. call'[t] = Idle
      BY <1>1 DEF Issues, RefreshIssue
    <3>2. call' = [call EXCEPT ![t] = call'[t]]
      BY <1>1 DEF Issues, RefreshIssue, LoginIssue
    <3> QED BY <1>1, <3>1, <3>2, PanelAssumption DEF PanelAssumption
  <2> QED BY <2>1, <2>2, <2>3
<1>3. CASE RefreshIssue(t, y)
  <2> DEFINE x == call[t].x
  <2>1. call[t].op = "refresh" /\ row \in [Session -> {NoRow, Gone} \cup SessionRow]
    BY <1>3, Types DEF RefreshIssue
  <2>2. x \in Session /\ x \in Rows => row[x] \in SessionRow
    BY <1>1, <2>1 DEF Rows
  <2>3. row'[y] = new
    BY <1>1, <1>3, <2>1 DEF RefreshIssue
  <2>4. \A z \in Session \ {y, x} : row'[z] = row[z]
    BY <1>1, <1>3, <2>1 DEF RefreshIssue
  <2>5. x # y => \/ row'[x] = row[x]
                 \/ x \in Rows /\ row'[x] = [row[x] EXCEPT !.state = "just"]
    BY <1>1, <1>3, <2>1 DEF RefreshIssue
  <2>6. x # y => \/ row'[x] = row[x]
                 \/ x \in Rows /\ x \in Rows' /\ row'[x].state = "just" /\ row'[x].of = row[x].of
    BY <2>2, <2>5 DEF SessionRow, Rows, NoRow, Gone
  <2>7. y \in Rows' /\ row'[y].state = "live" /\ row'[y].of = call[t].who
    BY <2>3 DEF Rows, NoRow, Gone
  <2>8. acct' = acct
    BY <1>3 DEF RefreshIssue
  <2> QED BY <1>1, <1>2, <2>1, <2>4, <2>6, <2>7, <2>8, Types DEF OnlyTab, Pair
<1>4. CASE LoginIssue(t, y)
  <2>1. call[t].op = "login" /\ row \in [Session -> {NoRow, Gone} \cup SessionRow] /\ acct \in [Staff -> Account]
    BY <1>4, Types DEF LoginIssue
  <2>2. row'[y] = new /\ \A z \in Session \ {y} : row'[z] = row[z]
    BY <1>4, <2>1 DEF LoginIssue
  <2>3. y \in Rows' /\ row'[y].state = "live" /\ row'[y].of = call[t].who
    BY <2>2 DEF Rows, NoRow, Gone
  <2>4. \A s \in Staff : /\ acct'[s].role = acct[s].role /\ acct'[s].off = acct[s].off
                         /\ acct'[s].validFrom = acct[s].validFrom
    BY <1>1, <1>4, <2>1 DEF LoginIssue, Account
  <2> QED BY <1>1, <1>2, <2>1, <2>2, <2>3, <2>4, Types DEF OnlyTab, Pair
<1> QED BY <1>3, <1>4 DEF Issues

LEMMA IssueKeeps ==
  ASSUME AccountsTypeOK, PanelInv, CarriedInv, NEW t \in Tab, NEW y \in Session, Issues(t, y)
  PROVE  (CarriedAreRows /\ PairsAreNew /\ AccountsExist /\ SignedOutBefore)'
<1>1. jar' = jar /\ jar.session # y /\ \A u \in Tab : ~Has(u, y)
  BY WhatIsIssued DEF Issues, CarriedInv, CarriedAreRows
<1>2. \A u \in Tab \ {t}, x \in Session : Has(u, x)' <=> Has(u, x)
  BY WhatIsIssued DEF OnlyTab, Has
<1>3. \A x \in Session : Has(t, x)' <=> x = y
  BY WhatIsIssued DEF Has
<1>4. \A x \in Session : row'[x] = NoRow => row[x] = NoRow /\ x # y
  BY WhatIsIssued DEF Rows
<1>5. CarriedAreRows'
  BY <1>1, <1>2, <1>3, <1>4 DEF CarriedInv, CarriedAreRows, NoRow
<1>6. PairsAreNew'
  <2> SUFFICES ASSUME NEW u \in Tab, NEW x \in Session, wire'[u].kind = "pair", wire'[u].session = x
               PROVE  jar'.session # x /\ \A v \in Tab \ {u} : ~Has(v, x)'
    BY DEF PairsAreNew
  <2>1. CASE u = t
    <3>1. x = y
      BY <2>1, WhatIsIssued
    <3> QED BY <1>1, <1>2, <2>1, <3>1
  <2>2. CASE u # t
    <3>1. wire'[u] = wire[u]
      BY <2>2, WhatIsIssued DEF OnlyTab
    <3>2. jar.session # x /\ Has(u, x) /\ \A v \in Tab \ {u} : ~Has(v, x)
      BY <3>1 DEF CarriedInv, PairsAreNew, Has
    <3> QED BY <1>1, <1>2, <1>3, <3>2
  <2> QED BY <2>1, <2>2
<1>7. AccountsExist'
  <2>1. \A s \in Staff : Exists(s)' <=> Exists(s)
    BY WhatIsIssued DEF Exists
  <2>2. Exists(call[t].who) /\ call[t].who \in Staff
    BY WhatIsIssued DEF CarriedInv, AccountsExist
  <2>3. ASSUME NEW x \in Session, x \in Rows' PROVE row'[x].of \in Staff /\ Exists(row'[x].of)
    <3>1. CASE x = y
      BY <3>1, <2>2, WhatIsIssued
    <3>2. CASE x # y
      <4>1. x \in Rows /\ row'[x].of = row[x].of
        BY <2>3, <3>2, WhatIsIssued DEF Rows, NoRow, Gone
      <4> QED BY <4>1, Types DEF CarriedInv, AccountsExist, Rows, SessionRow
    <3> QED BY <3>1, <3>2
  <2>4. ASSUME NEW u \in Tab, call'[u].op \in {"login", "refresh"}
        PROVE  call'[u].who \in Staff /\ Exists(call'[u].who)
    <3>1. u # t /\ call'[u] = call[u]
      BY <2>4, WhatIsIssued DEF OnlyTab
    <3> QED BY <2>4, <3>1, AtHand, CallKinds DEF CarriedInv, AccountsExist, LoginCall, RefreshCall
  <2>5. (\A x \in Rows : Exists(row[x].of))'
    BY <2>1, <2>3 DEF Exists, Rows
  <2>6. (\A u \in Tab : call[u].op \in {"login", "refresh"} => Exists(call[u].who))'
    BY <2>1, <2>4 DEF Exists
  <2> QED BY <2>5, <2>6 DEF AccountsExist
<1>8. SignedOutBefore'
  BY WhatIsIssued DEF CarriedInv, SignedOutBefore
<1> QED BY <1>5, <1>6, <1>7, <1>8

(* What nobody's browser does: the owner at another desk, and time.  Rows  *)
(* may go, or be spent, but none comes back, and roles are never taken     *)
(* away altogether.                                                        *)
Elsewhere ==
  /\ UNCHANGED <<tab, wire, known>> /\ jar'.session = jar.session
  /\ \A t \in Tab : call'[t] = call[t]
  /\ \A x \in Session : /\ row'[x] = NoRow => row[x] = NoRow
                        /\ x \in Rows' => x \in Rows /\ row'[x].of = row[x].of
  /\ \A s \in Staff : /\ Exists(s) => acct'[s].role # "none"
                      /\ acct'[s].validFrom <= second'

LEMMA ElsewhereKeeps ==
  ASSUME AccountsTypeOK, PanelInv, CarriedInv, Elsewhere
  PROVE  (CarriedAreRows /\ PairsAreNew /\ AccountsExist /\ SignedOutBefore)'
<1>1. \A t \in Tab, x \in Session : Has(t, x)' <=> Has(t, x)
  BY DEF Elsewhere, Has
<1>2. CarriedAreRows'
  BY <1>1 DEF Elsewhere, CarriedInv, CarriedAreRows, NoRow
<1>3. PairsAreNew'
  BY <1>1 DEF Elsewhere, CarriedInv, PairsAreNew
<1>4. AccountsExist'
  <2>1. \A s \in Staff : Exists(s) => Exists(s)'
    BY DEF Exists, Elsewhere
  <2>2. \A x \in Rows : row[x].of \in Staff
    BY Types DEF Rows, SessionRow
  <2>3. \A u \in Tab : call[u].op \in {"login", "refresh"} => call[u].who \in Staff
    BY CallKinds, AtHand DEF LoginCall, RefreshCall
  <2>4. ASSUME NEW x \in Session, x \in Rows' PROVE row'[x].of \in Staff /\ Exists(row'[x].of)
    BY <2>2, <2>4 DEF CarriedInv, AccountsExist, Elsewhere
  <2>5. (\A x \in Rows : Exists(row[x].of))'
    BY <2>1, <2>4 DEF Exists, Rows
  <2>6. \A u \in Tab : call'[u].op \in {"login", "refresh"} => call'[u].who \in Staff /\ Exists(call'[u].who)
    BY <2>3 DEF CarriedInv, AccountsExist, Elsewhere
  <2>7. (\A u \in Tab : call[u].op \in {"login", "refresh"} => Exists(call[u].who))'
    BY <2>1, <2>6 DEF Exists
  <2> QED BY <2>5, <2>7 DEF AccountsExist
<1>5. SignedOutBefore'
  BY DEF Elsewhere, SignedOutBefore
<1> QED BY <1>2, <1>3, <1>4, <1>5

(* The accounts stand as they stood, and no row was touched: so does every *)
(* request of the owner that is refused, or asks for nothing new.          *)
Standing ==
  /\ row' = row
  /\ \A s \in Staff : /\ acct'[s].role = acct[s].role /\ acct'[s].off = acct[s].off
                      /\ acct'[s].validFrom = acct[s].validFrom

LEMMA ManagedIsElsewhere ==
  ASSUME AccountsTypeOK, PanelInv, CarriedInv, Managed
  PROVE  Elsewhere /\ (Standing \/ AllExcused)
<1>0. /\ acct \in [Staff -> Account] /\ second \in 0 .. MaxSecond /\ MaxSecond \in Nat
      /\ \A s \in Staff : acct[s].validFrom <= second /\ acct[s].validFrom \in Int /\ acct[s].password \in Int
  BY Types DEF CarriedInv, SignedOutBefore, Account
<1>1. /\ UNCHANGED <<tab, wire, known, jar>> /\ \A t \in Tab : call'[t] = call[t]
      /\ second' = second
  <2>1. Desk \notin Tab
    BY PanelAssumption DEF PanelAssumption
  <2>2. second' = second
    BY DEF Managed, Ask, Create, Enable, Update, Disable, ResetPassword, Abandon, Answer, Refused
  <2>3. call' = [call EXCEPT ![Desk] = call'[Desk]]
    <3>1. call \in [Call -> {Idle} \cup LoginCall \cup RefreshCall \cup ManageCall] /\ Desk \in Call
      BY Types, PanelAssumption DEF PanelAssumption
    <3>2. CASE \E q : call' = [call EXCEPT ![Desk] = q]
      BY <3>1, <3>2
    <3>3. CASE Ask(Desk, Owner)
      BY <3>2, <3>3 DEF Ask
    <3>4. CASE call' = [call EXCEPT ![Desk] = Idle]
      BY <3>2, <3>4
    <3> QED BY <3>3, <3>4 DEF Managed, Create, Enable, Update, Disable, ResetPassword, Abandon, Answer, Refused
  <2>4. \A t \in Tab : call'[t] = call[t]
    BY <2>1, <2>3, Types, PanelAssumption DEF PanelAssumption
  <2> QED BY <2>2, <2>4 DEF Managed
<1>2. CASE acct' = acct /\ row' = row
  BY <1>0, <1>1, <1>2 DEF Elsewhere, Standing, Exists, NoRow, Rows, Gone
<1>3. CASE ~(acct' = acct /\ row' = row)
  <2> DEFINE s == call[Desk].who
             a == acct[s]
             Changed(b) == /\ b.role # a.role \/ b.off # a.off \/ b.password # a.password
                           /\ Exists(s) => b.role # "none"
                           /\ b.validFrom <= second
  <2>0. /\ s \in Staff /\ call[Desk].role \in StaffRoles /\ "none" \notin StaffRoles
        /\ a \in Account /\ Desk \in Call
    <3>1. call[Desk] \in ManageCall /\ Desk \in Call
      BY <1>3, CallKinds, PanelAssumption
         DEF Managed, Ask, Create, Enable, Update, Disable, ResetPassword, Abandon, Refused, PanelAssumption
    <3> QED BY <3>1, <1>0, AccountsAssumption DEF ManageCall, AccountsAssumption
  <2>1. ASSUME NEW b, Changed(b), acct' = [acct EXCEPT ![s] = b], row' = row \/ row' = WithoutSessions(s)
        PROVE  Elsewhere /\ AllExcused
    <3>1. acct'[s] = b /\ \A o \in Staff \ {s} : acct'[o] = acct[o]
      BY <1>0, <2>0, <2>1
    <3>2. \A o \in Staff : (Exists(o) => acct'[o].role # "none") /\ acct'[o].validFrom <= second'
      BY <1>0, <1>1, <2>1, <3>1 DEF Exists
    <3>3. \A x \in Session : /\ row'[x] = NoRow => row[x] = NoRow
                             /\ x \in Rows' => x \in Rows /\ row'[x].of = row[x].of
      <4>1. CASE row' = row
        BY <4>1 DEF Rows, NoRow, Gone
      <4>2. CASE row' = WithoutSessions(s)
        <5>1. \A x \in Session : row'[x] = row[x] \/ row'[x] = Gone
          BY <4>2 DEF WithoutSessions
        <5>2. Gone # NoRow
          <6>1. Gone.state # NoRow.state
            BY DEF Gone, NoRow
          <6> QED BY <6>1
        <5> QED BY <5>1, <5>2 DEF Rows, NoRow, Gone
      <4> QED BY <2>1, <4>1, <4>2
    <3>4. AllExcused
      <4>1. acct'[s].role # acct[s].role \/ acct'[s].off # acct[s].off \/ acct'[s].password # acct[s].password
        BY <2>1, <3>1
      <4> QED BY <2>0, <4>1 DEF Managed
    <3> QED BY <1>1, <3>2, <3>3, <3>4 DEF Elsewhere
  <2>2. CASE Create(Desk)
    <3> DEFINE b == NewAccount(call[Desk].role, 1, FALSE)
    <3>1. ~Exists(s) /\ acct' = [acct EXCEPT ![s] = b] /\ row' = row
      BY <1>3, <2>2 DEF Create, Refused
    <3>2. b.role = call[Desk].role /\ b.validFrom = second
      BY DEF NewAccount
    <3> HIDE DEF b
    <3>3. Changed(b)
      BY <1>0, <2>0, <3>1, <3>2 DEF Exists
    <3> QED BY <2>1, <3>1, <3>3
  <2>3. CASE Update(Desk)
    <3> DEFINE b == SignedOut([a EXCEPT !.role = call[Desk].role])
    <3>1. call[Desk].role # a.role /\ acct' = [acct EXCEPT ![s] = b] /\ row' = WithoutSessions(s)
      BY <1>0, <1>3, <2>0, <2>3 DEF Update, Refused
    <3>2. Changed(b)
      BY <1>0, <2>0, <3>1 DEF SignedOut, Account
    <3> HIDE DEF b
    <3> QED BY <2>1, <3>1, <3>2
  <2>4. CASE Disable(Desk)
    <3> DEFINE b == SignedOut([a EXCEPT !.off = TRUE])
    <3>1. ~a.off /\ acct' = [acct EXCEPT ![s] = b] /\ row' = WithoutSessions(s)
      BY <1>0, <1>3, <2>0, <2>4 DEF Disable, Refused
    <3>2. b.off = TRUE /\ b.role = a.role /\ b.validFrom = second
      BY <2>0 DEF SignedOut, Account
    <3> HIDE DEF b
    <3>3. Changed(b)
      BY <1>0, <3>1, <3>2 DEF Exists
    <3> QED BY <2>1, <3>1, <3>3
  <2>5. CASE Enable(Desk)
    <3> DEFINE b == [a EXCEPT !.off = FALSE, !.failed = 0, !.locked = FALSE]
    <3>1. a.off /\ acct' = [acct EXCEPT ![s] = b] /\ row' = row
      BY <1>0, <1>3, <2>0, <2>5 DEF Enable
    <3>2. Changed(b)
      BY <1>0, <2>0, <3>1 DEF Account, Exists
    <3> HIDE DEF b
    <3> QED BY <2>1, <3>1, <3>2
  <2>6. CASE ResetPassword(Desk)
    <3> DEFINE b == SignedOut(NewPassword(a))
    <3>1. acct' = [acct EXCEPT ![s] = b] /\ row' = WithoutSessions(s)
      BY <1>0, <1>3, <2>0, <2>6 DEF ResetPassword, Refused
    <3>2. Changed(b)
      BY <1>0, <2>0 DEF SignedOut, NewPassword, Account, Exists
    <3> HIDE DEF b
    <3> QED BY <2>1, <3>1, <3>2
  <2>7. Create(Desk) \/ Update(Desk) \/ Disable(Desk) \/ Enable(Desk) \/ ResetPassword(Desk)
    BY <1>3 DEF Managed, Ask, Abandon, Refused
  <2> QED BY <2>2, <2>3, <2>4, <2>5, <2>6, <2>7
<1> QED BY <1>2, <1>3

LEMMA TimeIsElsewhere ==
  ASSUME AccountsTypeOK, PanelInv, CarriedInv, PanelTime \/ CookieExpires
  PROVE  Elsewhere
<1>0. /\ \A s \in Staff : acct[s].validFrom <= second /\ acct[s] \in Account
      /\ acct \in [Staff -> Account] /\ second \in Int
  BY Types DEF CarriedInv, SignedOutBefore
<1>1. UNCHANGED <<tab, wire, known, call>> /\ jar'.session = jar.session
  <2>1. CASE CookieExpires
    BY <2>1 DEF CookieExpires, accountVars, PanelInv, Jar
  <2> QED BY <2>1 DEF PanelTime, Tick, LeewayEnds, SessionExpires, LockoutEnds
<1>2. \A x \in Session : /\ row'[x] = NoRow => row[x] = NoRow
                         /\ x \in Rows' => x \in Rows /\ row'[x].of = row[x].of
  <2>1. CASE row' = row
    BY <2>1 DEF Rows, NoRow, Gone
  <2>2. ASSUME NEW y \in Session, LeewayEnds(y) \/ SessionExpires(y)
        PROVE  \A x \in Session : /\ row'[x] = NoRow => row[x] = NoRow
                                  /\ x \in Rows' => x \in Rows /\ row'[x].of = row[x].of
    <3>1. row[y] \in SessionRow /\ y \in Rows
      BY <2>2, Types DEF LeewayEnds, SessionExpires, NoRow, Gone, Rows
    <3>2. row'[y].of = row[y].of /\ \A x \in Session \ {y} : row'[x] = row[x]
      BY <2>2, <3>1, Types DEF LeewayEnds, SessionExpires, SessionRow
    <3>3. row'[y] # NoRow
      BY <2>2, <3>1, Types DEF LeewayEnds, SessionExpires, SessionRow, NoRow
    <3> QED BY <3>1, <3>2, <3>3 DEF Rows, NoRow, Gone
  <2> QED BY <2>1, <2>2 DEF PanelTime, CookieExpires, Tick, LockoutEnds, accountVars
<1>3. \A s \in Staff : /\ Exists(s) => acct'[s].role # "none"
                       /\ acct'[s].validFrom <= second'
  <2>1. CASE acct' = acct /\ second' \in {second, second + 1}
    <3>1. \A s \in Staff : acct[s].validFrom \in 0 .. MaxSecond
      BY <1>0 DEF Account
    <3> QED BY <1>0, <2>1, <3>1, Types DEF Exists
  <2>2. ASSUME NEW o \in Staff, LockoutEnds(o)
        PROVE  \A s \in Staff : /\ Exists(s) => acct'[s].role # "none"
                                /\ acct'[s].validFrom <= second'
    BY <1>0, <2>2 DEF Exists, LockoutEnds, Account
  <2> QED BY <2>1, <2>2 DEF PanelTime, CookieExpires, Tick, LeewayEnds, SessionExpires, accountVars
<1> QED BY <1>1, <1>2, <1>3 DEF Elsewhere

LEMMA ServedIs ==
  ASSUME NEW t \in Tab, Served(t)
  PROVE  \/ \E y \in Session : /\ Issues(t, y)
                               /\ \/ call[t].op = "refresh" /\ excused' = excused
                                  \/ /\ call[t].op = "login"
                                     /\ excused' = [excused EXCEPT ![t] = acct[call[t].who].off]
         \/ RefreshRefuse(t) /\ Reply(t, Refusal) /\ UNCHANGED <<jar, tab, known, excused>>
         \/ RecordFailure(t) /\ UNCHANGED <<wire, jar, tab, known, excused>>
<1>1. UNCHANGED <<jar, known, tab>>
  BY DEF Served
<1>2. ASSUME NEW y \in Session, RefreshIssue(t, y) /\ Reply(t, Pair(y, call[t].who)) /\ UNCHANGED excused
      PROVE  Issues(t, y) /\ call[t].op = "refresh" /\ excused' = excused
  BY <1>1, <1>2 DEF Issues, RefreshIssue
<1>3. ASSUME NEW y \in Session,
             LoginIssue(t, y) /\ call'[t] = Idle /\ Reply(t, Pair(y, call[t].who))
             /\ excused' = [excused EXCEPT ![t] = acct[call[t].who].off]
      PROVE  /\ Issues(t, y) /\ call[t].op = "login"
             /\ excused' = [excused EXCEPT ![t] = acct[call[t].who].off]
  BY <1>1, <1>3 DEF Issues, LoginIssue
<1> QED BY <1>1, <1>2, <1>3 DEF Served

LEMMA ExcusedTyped ==
  ASSUME AccountsTypeOK, CarriedInv, PanelInv, PanelNext
  PROVE  excused' \in [Tab -> BOOLEAN]
<1>0. excused \in [Tab -> BOOLEAN]
  BY DEF CarriedInv
<1>1. CASE excused' = excused \/ AllExcused
  BY <1>0, <1>1 DEF AllExcused
<1>2. ASSUME NEW t \in Tab, NEW b \in BOOLEAN, excused' = [excused EXCEPT ![t] = b]
      PROVE  excused' \in [Tab -> BOOLEAN]
  BY <1>0, <1>2
<1>3. ASSUME NEW t \in Tab, Served(t) PROVE excused' \in [Tab -> BOOLEAN]
  <2>1. call[t].op = "login" => acct[call[t].who].off \in BOOLEAN
    BY AtHand, CallKinds, Types DEF LoginCall, Account
  <2> QED BY <1>1, <1>2, <1>3, <2>1, ServedIs
<1>4. ASSUME NEW t \in Tab, PairArrives(t) PROVE excused' \in [Tab -> BOOLEAN]
  <2>1. (excused[t] \/ \E u \in Tab \ {t} : ~Resting(u)) \in BOOLEAN
    BY <1>0
  <2> QED BY <1>1, <1>2, <1>4, <2>1 DEF PairArrives
<1>5. ASSUME NEW t \in Tab,
             \/ Load(t) \/ Timer(t) \/ Me(t) \/ MeLost(t) \/ SignOut(t)
             \/ RefreshArrives(t) \/ RefusalArrives(t) \/ Lost(t)
             \/ \E s \in Here, p \in 1 .. MaxPassword : Submit(t, s, p)
      PROVE  excused' = excused \/ AllExcused
  BY <1>5 DEF Load, Timer, Me, MeLost, SignOut, RefreshArrives, RefusalArrives, Lost, Submit, Fault
<1>6. ASSUME Managed \/ PanelTime \/ CookieExpires PROVE excused' = excused \/ AllExcused
  BY <1>6 DEF Managed, PanelTime, CookieExpires, Fault
<1> QED BY <1>1, <1>3, <1>4, <1>5, <1>6 DEF PanelNext

LEMMA CarriedKeeps ==
  ASSUME AccountsTypeOK, PanelInv, CarriedInv, PanelNext
  PROVE  CarriedInv'
<1>1. ASSUME NEW t \in Tab,
             \/ Load(t) \/ Timer(t) \/ Me(t) \/ MeLost(t) \/ SignOut(t)
             \/ RefreshArrives(t) \/ RefusalArrives(t) \/ Lost(t)
             \/ \E s \in Here, p \in 1 .. MaxPassword : Submit(t, s, p)
      PROVE  (CarriedAreRows /\ PairsAreNew /\ AccountsExist /\ SignedOutBefore)'
  <2>1. NothingNew(t)
    BY <1>1, PageIsNothingNew, RequestIsNothingNew DEF CarriedInv
  <2> QED BY <2>1, NothingNewKeeps
<1>2. ASSUME NEW t \in Tab, Served(t)
      PROVE  (CarriedAreRows /\ PairsAreNew /\ AccountsExist /\ SignedOutBefore)'
  <2>1. (\E y \in Session : Issues(t, y)) \/ NothingNew(t)
    BY <1>2, ServedIs, RequestIsNothingNew DEF CarriedInv
  <2> QED BY <2>1, IssueKeeps, NothingNewKeeps
<1>3. ASSUME NEW t \in Tab, PairArrives(t)
      PROVE  (CarriedAreRows /\ PairsAreNew /\ AccountsExist /\ SignedOutBefore)'
  <2>0. /\ row' = row /\ acct' = acct /\ call' = call /\ second' = second
        /\ \A u \in Tab, x \in Session : Has(u, x)' => Has(u, x)
        /\ \A u \in Tab : wire'[u].kind = "pair" => u # t /\ wire'[u] = wire[u]
    BY <1>3, PairGoesToTheJar DEF accountVars, OnlyTab
  <2>1. CarriedAreRows'
    <3>1. \A x \in Session : jar'.session = x => Has(t, x)
      BY <1>3, PairGoesToTheJar DEF Has, PairArrives
    <3> QED BY <2>0, <3>1 DEF CarriedInv, CarriedAreRows, NoRow
  <2>2. PairsAreNew'
    <3> SUFFICES ASSUME NEW u \in Tab, NEW x \in Session, wire'[u].kind = "pair", wire'[u].session = x
                 PROVE  jar'.session # x /\ \A v \in Tab \ {u} : ~Has(v, x)'
      BY DEF PairsAreNew
    <3>1. Has(u, x)' /\ \A v \in Tab \ {u} : ~Has(v, x)
      BY <2>0 DEF CarriedInv, PairsAreNew, Has
    <3> QED BY <1>3, <2>0, <3>1, PairGoesToTheJar
  <2>3. AccountsExist' /\ SignedOutBefore'
    BY <2>0 DEF CarriedInv, AccountsExist, SignedOutBefore, Exists, Rows, NoRow, Gone
  <2> QED BY <2>1, <2>2, <2>3
<1>4. ASSUME Managed \/ PanelTime \/ CookieExpires
      PROVE  (CarriedAreRows /\ PairsAreNew /\ AccountsExist /\ SignedOutBefore)'
  BY <1>4, ManagedIsElsewhere, TimeIsElsewhere, ElsewhereKeeps
<1> QED BY <1>1, <1>2, <1>3, <1>4, ExcusedTyped DEF PanelNext, CarriedInv

LEMMA CarriedBegins == PanelInit => CarriedInv
<1> SUFFICES ASSUME PanelInit PROVE CarriedInv
  OBVIOUS
<1>1. /\ \A t \in Tab : call[t].op = "idle" /\ wire[t].kind = "none"
      /\ jar.session = NoSession /\ Rows = {} /\ NoSession \notin Session
  BY PanelAssumption, AccountsAssumption
     DEF PanelInit, AccountsInit, NoCookies, Quiet, Idle, Rows, PanelAssumption, AccountsAssumption
<1>2. \A s \in Staff : acct[s].validFrom = 0 /\ second = 0
  BY DEF PanelInit, AccountsInit, NewAccount
<1> QED BY <1>1, <1>2 DEF PanelInit, CarriedInv, CarriedAreRows, PairsAreNew, AccountsExist, SignedOutBefore, Has

-----------------------------------------------------------------------------
(* What whoever is not excused relies on: no refusal is on its way and     *)
(* none will be, a pair on its way is as good as when it was issued, and   *)
(* what is in the jar can be refreshed, or is being replaced.              *)

Usable(x) == x \in Rows /\ row[x].state \in {"live", "just"} /\ Active(row[x].of)

Fresh(t) ==
  \E x \in Rows, s \in Staff :
    /\ wire[t].session = x /\ wire[t].of = s
    /\ row[x].state = "live" /\ row[x].of = s
    /\ Active(s) /\ wire[t].iat >= acct[s].validFrom

JarServes ==
  /\ Usable(jar.session) /\ row[jar.session].of = jar.of
  /\ row[jar.session].state = "just" => \E t \in Tab : wire[t].kind = "pair"
  /\ jar.iat # NoToken => jar.iat >= acct[jar.of].validFrom
  /\ \A t \in Tab : tab[t].me = "again" => jar.iat # NoToken

RequestIsWell(t) ==
  /\ wire[t].kind # "refused"
  /\ wire[t].kind = "refresh" => Usable(wire[t].x)
  /\ wire[t].kind = "pair" => Fresh(t)
  /\ call[t].op \in {"login", "refresh"} => Active(call[t].who)
  /\ call[t].op = "refresh" => call[t].state \in {"live", "just"} /\ ~call[t].off

InUse == known.authed \/ \E t \in Tab : tab[t].at = "panel"
AllIsWell == (\A t \in Tab : RequestIsWell(t)) /\ (InUse => JarServes)

(* A tab whose login is on its way back relies on its pair alone.          *)
SigningIn(t) == tab[t].at = "login" /\ wire[t].kind = "pair"
Relied == \E t \in Tab : ~excused[t] /\ ~SigningIn(t)
FreshPairs == \A t \in Tab : ~excused[t] /\ wire[t].kind = "pair" => Fresh(t)

ReliedInv == FreshPairs /\ (Relied => AllIsWell)

LEMMA AllExcusedIsEnough == ASSUME AllExcused PROVE ReliedInv'
<1>1. \A t \in Tab : excused'[t]
  BY DEF AllExcused
<1> QED BY <1>1 DEF ReliedInv, FreshPairs, Relied

LEMMA StandingIs ==
  ASSUME AccountsTypeOK, Standing
  PROVE  /\ \A s \in Staff : Active(s)' <=> Active(s)
         /\ \A x : Usable(x)' <=> Usable(x)
         /\ Rows' = Rows
<1>1. \A s \in Staff : Active(s)' <=> Active(s)
  BY DEF Active, Exists, Standing
<1>2. Rows' = Rows /\ \A x \in Rows : row[x].of \in Staff
  BY Types DEF Standing, Rows, SessionRow, NoRow, Gone
<1>3. \A x \in Rows : Active(row[x].of)' <=> Active(row[x].of)
  BY <1>2 DEF Active, Exists, Standing
<1> QED BY <1>1, <1>2, <1>3 DEF Usable, Standing

LEMMA FreshStays ==
  ASSUME AccountsTypeOK, Standing, NEW t \in Tab, wire'[t] = wire[t], Fresh(t)
  PROVE  Fresh(t)'
<1>1. PICK x \in Rows, s \in Staff :
        /\ wire[t].session = x /\ wire[t].of = s
        /\ row[x].state = "live" /\ row[x].of = s
        /\ Active(s) /\ wire[t].iat >= acct[s].validFrom
  BY DEF Fresh
<1>2. x \in Rows' /\ Active(s)'
  BY <1>1, StandingIs
<1> QED BY <1>1, <1>2 DEF Fresh, Standing

(* The requests of the tabs that do not move are as well as they were.     *)
LEMMA RequestsStayWell ==
  ASSUME AccountsTypeOK, PanelInv, Standing, NEW t \in Tab, RequestIsWell(t),
         wire'[t] = wire[t], call'[t] = call[t]
  PROVE  RequestIsWell(t)'
<1>1. call[t].op \in {"login", "refresh"} => call[t].who \in Staff
  BY AtHand, CallKinds DEF LoginCall, RefreshCall
<1>2. call'[t].op \in {"login", "refresh"} => Active(call[t].who)'
  BY <1>1 DEF RequestIsWell, Active, Exists, Standing
<1>3. wire[t].kind = "refresh" => Usable(wire[t].x)'
  <2>1. ASSUME NEW x, wire[t].kind = "refresh", wire[t].x = x PROVE Usable(wire[t].x)'
    <3>1. Usable(x)'
      BY <2>1, StandingIs DEF RequestIsWell
    <3> QED BY <2>1, <3>1 DEF Usable, Active, Exists
  <2> QED BY <2>1
<1>4. wire[t].kind = "pair" => Fresh(t)'
  BY FreshStays DEF RequestIsWell
<1> QED BY <1>2, <1>3, <1>4 DEF RequestIsWell

LEMMA JarStays ==
  ASSUME AccountsTypeOK, PanelInv, Standing, JarServes, jar' = jar,
         (\E t \in Tab : wire[t].kind = "pair") => \E t \in Tab : wire'[t].kind = "pair",
         \A t \in Tab : tab'[t].me = "again" => tab[t].me = "again"
  PROVE  JarServes'
<1>1. jar.of \in Staff /\ jar.session \in Rows
  BY DEF PanelInv, Jar, JarServes, Usable
<1>2. Usable(jar.session)'
  <2>1. ASSUME NEW x, jar.session = x PROVE Usable(jar.session)'
    <3>1. Usable(x)'
      BY <2>1, StandingIs DEF JarServes
    <3> QED BY <2>1, <3>1 DEF Usable, Active, Exists
  <2> QED BY <2>1
<1> QED BY <1>1, <1>2 DEF JarServes, Standing

(* Nothing that was not relied on before is relied on after such a step.   *)
LEMMA NothingNewIsRelied ==
  ASSUME AccountsTypeOK, PanelInv, NEW t \in Tab, NothingNew(t), Standing, excused' = excused,
         ~SigningIn(t), FreshPairs
  PROVE  FreshPairs' /\ (Relied' => Relied)
<1>1. \A u \in Tab : wire'[u].kind = "pair" => wire'[u] = wire[u]
  BY DEF NothingNew, OnlyTab
<1>2. FreshPairs'
  BY <1>1, FreshStays DEF FreshPairs
<1>3. \A u \in Tab \ {t} : SigningIn(u)' <=> SigningIn(u)
  BY DEF NothingNew, OnlyTab, SigningIn
<1> QED BY <1>2, <1>3 DEF Relied

LEMMA PageIsWell ==
  ASSUME AccountsTypeOK, PanelInv, AllIsWell, NEW t \in Tab,
         Load(t) \/ Timer(t) \/ Me(t) \/ MeLost(t)
  PROVE  AllIsWell'
<1> USE AtHand, MessageKinds
<1>1. /\ UNCHANGED accountVars /\ jar' = jar /\ Standing
      /\ \A u \in Tab \ {t} : tab'[u] = tab[u]
  BY DEF Load, Timer, Me, MeLost, ShowLogin, Standing, accountVars
<1>2. InUse /\ JarServes
  BY DEF Load, Timer, Me, MeLost, AllIsWell, InUse, OneRequest
<1>3. \/ wire' = wire
      \/ /\ wire' = [wire EXCEPT ![t] = [kind |-> "refresh", x |-> jar.session]]
         /\ wire[t].kind = "none"
  BY DEF Load, Timer, Me, MeLost, Send, Resting, Quiet
<1>4. (\E u \in Tab : wire[u].kind = "pair") => \E u \in Tab : wire'[u].kind = "pair"
  BY <1>3
<1>5. CASE Me(t) /\ ~CookieVerifies /\ tab[t].me = "again"
  BY <1>2, <1>5 DEF JarServes, Usable, CookieVerifies
<1>6. CASE ~(Me(t) /\ ~CookieVerifies /\ tab[t].me = "again")
  <2>1. tab'[t].me = "again" => tab[t].me = "again"
    BY <1>6 DEF Load, Timer, Me, MeLost, InPanel
  <2>2. JarServes'
    BY <1>1, <1>2, <1>4, <2>1, JarStays
  <2>3. ASSUME NEW u \in Tab PROVE RequestIsWell(u)'
    <3>1. CASE wire'[u] = wire[u]
      BY <1>1, <3>1, RequestsStayWell DEF AllIsWell, accountVars
    <3>2. CASE wire'[u] # wire[u]
      <4>1. u = t /\ wire'[t].kind = "refresh" /\ wire'[t].x = jar.session /\ call'[t] = call[t]
        BY <1>1, <1>3, <3>2 DEF accountVars
      <4>2. Usable(jar.session)'
        BY <2>2 DEF JarServes
      <4>3. Usable(wire[t].x)'
        BY <1>1, <4>1, <4>2 DEF Usable, Active, Exists
      <4>4. RequestIsWell(t) /\ \A s : Active(s)' <=> Active(s)
        BY <1>1 DEF AllIsWell, Active, Exists, accountVars
      <4>5. call'[t].op \in {"login", "refresh"} => Active(call[t].who)'
        BY <4>1, <4>4, <1>1 DEF RequestIsWell, Active, Exists, accountVars
      <4> QED BY <4>1, <4>3, <4>4, <4>5 DEF RequestIsWell
    <3> QED BY <3>1, <3>2
  <2> QED BY <2>2, <2>3 DEF AllIsWell
<1> QED BY <1>5, <1>6

LEMMA RequestIsWellServed ==
  ASSUME AccountsTypeOK, PanelInv, CarriedInv, AllIsWell, NEW t \in Tab,
         \/ \E s \in Here, p \in 1 .. MaxPassword : Submit(t, s, p)
         \/ RefreshArrives(t)
         \/ RefreshRefuse(t) /\ Reply(t, Refusal) /\ UNCHANGED <<jar, tab, known>>
         \/ RecordFailure(t) /\ UNCHANGED <<wire, jar, tab, known>>
  PROVE  AllIsWell' /\ Standing
<1> USE AtHand, MessageKinds
<1>1. NothingNew(t) /\ UNCHANGED <<jar, tab, known>>
  BY RequestIsNothingNew DEF CarriedInv, Submit, RefreshArrives
<1>2. ~(RefreshRefuse(t) /\ Reply(t, Refusal))
  BY DEF AllIsWell, RequestIsWell, RefreshRefuse
<1>3. Standing
  <2>1. CASE UNCHANGED <<acct, row>>
    BY <2>1 DEF Standing
  <2>2. CASE RecordFailure(t)
    BY <2>2, Types DEF RecordFailure, Standing, Account
  <2> QED BY <2>1, <2>2 DEF Submit, LoginRead, RefreshArrives, RefreshRead, RefreshRefuse, accountVars
<1>4. (\E u \in Tab : wire[u].kind = "pair") => \E u \in Tab : wire'[u].kind = "pair"
  <2>1. wire[t].kind = "pair" => wire'[t] = wire[t]
    BY <1>2 DEF Submit, RefreshArrives
  <2> QED BY <1>1, <2>1 DEF NothingNew, OnlyTab
<1>5. InUse' => JarServes'
  BY <1>1, <1>3, <1>4, JarStays DEF AllIsWell, InUse
<1>6. \A u \in Tab \ {t} : RequestIsWell(u)'
  BY <1>1, <1>3, RequestsStayWell DEF AllIsWell, NothingNew, OnlyTab
<1>7. RequestIsWell(t)'
  <2>1. CASE \E s \in Here, p \in 1 .. MaxPassword : Submit(t, s, p)
    <3>1. PICK s \in Here, p \in 1 .. MaxPassword : Submit(t, s, p)
      BY <2>1
    <3>2. call'[t].op = "login" /\ call'[t].who = s /\ wire'[t].kind = "none" /\ Active(s) /\ acct' = acct
      BY <3>1 DEF Submit, LoginRead
    <3> QED BY <3>2 DEF RequestIsWell, Active, Exists
  <2>2. CASE RefreshArrives(t)
    <3>1. Usable(wire[t].x)
      BY <2>2 DEF AllIsWell, RequestIsWell, RefreshArrives
    <3>2. RefreshRead(t, wire[t].x) /\ Reply(t, Quiet)
      BY <2>2, <3>1 DEF RefreshArrives, Usable
    <3>3. /\ call'[t].op = "refresh" /\ call'[t].who = row[wire[t].x].of /\ call'[t].state = row[wire[t].x].state
          /\ call'[t].off = acct[row[wire[t].x].of].off /\ wire'[t].kind = "none" /\ acct' = acct
      BY <3>2 DEF RefreshRead, Reply
    <3> QED BY <3>1, <3>3 DEF RequestIsWell, Usable, Active, Exists
  <2>3. CASE RecordFailure(t) /\ UNCHANGED wire
    BY <2>3 DEF RecordFailure, AllIsWell, RequestIsWell, Idle
  <2> QED BY <1>2, <2>1, <2>2, <2>3
<1> QED BY <1>3, <1>5, <1>6, <1>7 DEF AllIsWell

(* A pair issued by a request that was let in is fresh, and replaces what  *)
(* is in the jar if that was what it spent.                                *)
LEMMA IssueIsFresh ==
  ASSUME AccountsTypeOK, PanelInv, CarriedInv, NEW t \in Tab, NEW y \in Session, Issues(t, y),
         Active(call[t].who)
  PROVE  Fresh(t)'
<1>1. PICK s \in Staff : /\ s = call[t].who /\ Active(s) /\ y \in Rows'
                        /\ row'[y].state = "live" /\ row'[y].of = s
                        /\ wire'[t].session = y /\ wire'[t].of = s /\ wire'[t].iat = second
  BY WhatIsIssued
<1>2. Active(s)' /\ acct'[s].validFrom = acct[s].validFrom
  BY <1>1, WhatIsIssued DEF Active, Exists
<1>3. second >= acct[s].validFrom
  <2>1. second \in Int /\ acct[s].validFrom \in Int
    BY Types DEF Account
  <2> QED BY <2>1 DEF CarriedInv, SignedOutBefore
<1> QED BY <1>1, <1>2, <1>3 DEF Fresh

LEMMA IssueSpares ==
  ASSUME AccountsTypeOK, PanelInv, CarriedInv, NEW t \in Tab, NEW y \in Session, Issues(t, y)
  PROVE  /\ \A s \in Staff : Active(s)' <=> Active(s)
         /\ \A x : Usable(x) => Usable(x)'
         /\ \A u \in Tab \ {t} : wire[u].kind = "pair" /\ Fresh(u) => Fresh(u)'
<1>1. \A s \in Staff : Active(s)' <=> Active(s)
  BY WhatIsIssued DEF Active, Exists
<1>2. ASSUME NEW x, Usable(x) PROVE Usable(x)'
  <2>1. x \in Session /\ x \in Rows /\ x # y /\ row[x].of \in Staff
    BY <1>2, WhatIsIssued, Types DEF Usable, Rows, SessionRow
  <2>2. x \in Rows' /\ row'[x].state \in {"live", "just"} /\ row'[x].of = row[x].of
    BY <1>2, <2>1, WhatIsIssued DEF Usable, Rows, NoRow, Gone
  <2> QED BY <1>1, <1>2, <2>1, <2>2 DEF Usable, Active, Exists
<1>3. ASSUME NEW u \in Tab \ {t}, wire[u].kind = "pair", Fresh(u) PROVE Fresh(u)'
  <2>1. PICK x \in Rows, s \in Staff :
          /\ wire[u].session = x /\ wire[u].of = s
          /\ row[x].state = "live" /\ row[x].of = s
          /\ Active(s) /\ wire[u].iat >= acct[s].validFrom
    BY <1>3 DEF Fresh
  <2>2. x \in Session /\ x # y /\ ~Has(t, x) /\ Has(u, x)
    BY <1>3, <2>1, WhatIsIssued DEF Rows, CarriedInv, PairsAreNew, Has
  <2>3. row'[x] = row[x]
    BY <2>2, WhatIsIssued DEF Has
  <2>4. x \in Rows' /\ Active(s)' /\ acct'[s].validFrom = acct[s].validFrom /\ wire'[u] = wire[u]
    BY <1>1, <2>1, <2>2, <2>3, WhatIsIssued DEF Rows, NoRow, Gone, OnlyTab
  <2> QED BY <2>1, <2>3, <2>4 DEF Fresh
<1> QED BY <1>1, <1>2, <1>3

LEMMA IssueIsWell ==
  ASSUME AccountsTypeOK, PanelInv, CarriedInv, AllIsWell, NEW t \in Tab, NEW y \in Session, Issues(t, y)
  PROVE  AllIsWell'
<1>1. /\ Active(call[t].who) /\ wire'[t].kind = "pair" /\ call'[t].op = "idle" /\ OnlyTab(t)
      /\ UNCHANGED <<jar, tab, known>>
  BY WhatIsIssued DEF AllIsWell, RequestIsWell, Issues
<1>2. RequestIsWell(t)'
  BY <1>1, IssueIsFresh DEF RequestIsWell
<1>3. ASSUME NEW u \in Tab, u # t PROVE RequestIsWell(u)'
  <2>1. wire'[u] = wire[u] /\ call'[u] = call[u] /\ RequestIsWell(u)
    BY <1>1, <1>3 DEF OnlyTab, AllIsWell
  <2>2. call[u].op \in {"login", "refresh"} => call[u].who \in Staff
    BY AtHand, CallKinds DEF LoginCall, RefreshCall
  <2>3. call'[u].op \in {"login", "refresh"} => Active(call[u].who)'
    <3>1. \A s \in Staff : Active(s) => acct'[s].role # "none" /\ ~acct'[s].off
      BY IssueSpares DEF Active, Exists
    <3> QED BY <2>1, <2>2, <3>1 DEF RequestIsWell, Active, Exists
  <2>4. wire'[u].kind = "refresh" => Usable(wire[u].x)'
    <3>1. ASSUME NEW x, wire[u].kind = "refresh", wire[u].x = x PROVE Usable(wire[u].x)'
      <4>1. Usable(x)'
        BY <2>1, <3>1, IssueSpares DEF RequestIsWell
      <4> QED BY <2>1, <3>1, <4>1 DEF Usable, Active, Exists
    <3> QED BY <2>1, <3>1
  <2>5. wire'[u].kind = "pair" => Fresh(u)'
    BY <1>3, <2>1, IssueSpares DEF RequestIsWell
  <2> QED BY <2>1, <2>3, <2>4, <2>5 DEF RequestIsWell
<1>4. InUse' => JarServes'
  <2> SUFFICES ASSUME JarServes PROVE JarServes'
    BY <1>1 DEF AllIsWell, InUse
  <2>1. PICK x \in Session, s \in Staff : x = jar.session /\ s = jar.of /\ Usable(x) /\ row[x].of = s
    BY DEF JarServes, Usable, Rows, PanelInv, Jar
  <2>2. Usable(x)' /\ x # y /\ x \in Rows
    BY <2>1, WhatIsIssued, IssueSpares DEF Usable, Rows
  <2>3. row'[x].of = s /\ acct'[s].validFrom = acct[s].validFrom
    BY <2>1, <2>2, WhatIsIssued
  <2>4. Usable(jar.session)'
    BY <1>1, <2>1, <2>2 DEF Usable, Active, Exists
  <2> QED BY <1>1, <2>1, <2>3, <2>4 DEF JarServes
<1> QED BY <1>2, <1>3, <1>4 DEF AllIsWell

LEMMA IssueIsRelied ==
  ASSUME AccountsTypeOK, PanelInv, CarriedInv, ReliedInv, NEW t \in Tab, NEW y \in Session, Issues(t, y),
         \/ call[t].op = "refresh" /\ excused' = excused
         \/ call[t].op = "login" /\ excused' = [excused EXCEPT ![t] = acct[call[t].who].off]
  PROVE  ReliedInv'
<1>1. /\ OnlyTab(t) /\ \A u \in Tab \ {t} : excused'[u] = excused[u]
      /\ wire[t].kind = "none" /\ wire'[t].kind = "pair" /\ tab' = tab
  BY AtHand, WhatIsIssued DEF CarriedInv, Issues
<1>2. Relied' => Relied
  <2>1. \A u \in Tab \ {t} : SigningIn(u)' <=> SigningIn(u)
    BY <1>1 DEF OnlyTab, SigningIn
  <2>2. call[t].op = "login" => SigningIn(t)'
    BY <1>1, AtHand DEF OneRequest, SigningIn
  <2>3. ~SigningIn(t)
    BY <1>1 DEF SigningIn
  <2> QED BY <1>1, <2>1, <2>2, <2>3 DEF Relied
<1>3. ~excused'[t] => Active(call[t].who)
  <2>1. CASE call[t].op = "refresh" /\ excused' = excused
    <3>1. ~excused[t] => Relied
      BY <1>1 DEF Relied, SigningIn
    <3> QED BY <2>1, <3>1 DEF ReliedInv, AllIsWell, RequestIsWell
  <2>2. CASE call[t].op = "login" /\ excused' = [excused EXCEPT ![t] = acct[call[t].who].off]
    <3>1. excused'[t] = acct[call[t].who].off /\ Exists(call[t].who)
      BY <2>2 DEF CarriedInv, AccountsExist
    <3> QED BY <3>1 DEF Active
  <2> QED BY <2>1, <2>2
<1>4. FreshPairs'
  <2>1. ~excused'[t] => Fresh(t)'
    BY <1>3, IssueIsFresh
  <2>2. \A u \in Tab \ {t} : ~excused'[u] /\ wire'[u].kind = "pair" => Fresh(u)'
    BY <1>1, IssueSpares DEF ReliedInv, FreshPairs, OnlyTab
  <2> QED BY <2>1, <2>2 DEF FreshPairs
<1> QED BY <1>2, <1>4, IssueIsWell DEF ReliedInv

(* With a fresh pair in the jar everybody is served again.                 *)
LEMMA FreshJarServes ==
  ASSUME AccountsTypeOK, PanelInv, CarriedInv, NEW t \in Tab, PairArrives(t), Fresh(t)
  PROVE  JarServes'
<1>1. PICK x \in Rows, s \in Staff :
        /\ wire[t].session = x /\ wire[t].of = s
        /\ row[x].state = "live" /\ row[x].of = s
        /\ Active(s) /\ wire[t].iat >= acct[s].validFrom
  BY DEF Fresh
<1>2. jar'.session = x /\ jar'.of = s /\ jar'.iat = wire[t].iat /\ UNCHANGED accountVars
  BY <1>1 DEF PairArrives
<1>3. Usable(jar.session)' /\ row'[x].state = "live"
  BY <1>1, <1>2 DEF Usable, Rows, NoRow, Gone, accountVars, Active, Exists
<1>4. jar'.iat # NoToken
  <2>1. acct[s].validFrom \in 0 .. MaxSecond /\ MaxSecond \in Nat /\ wire[t].iat \in NoToken .. MaxSecond
    BY Types, AtHand, MessageKinds DEF Account, PairArrives
  <2> QED BY <1>1, <1>2, <2>1 DEF NoToken
<1> QED BY <1>1, <1>2, <1>3, <1>4 DEF JarServes, accountVars

LEMMA PairIsRelied ==
  ASSUME AccountsTypeOK, PanelInv, CarriedInv, ReliedInv, NEW t \in Tab, PairArrives(t)
  PROVE  ReliedInv'
<1>1. /\ OnlyTab(t) /\ UNCHANGED accountVars /\ Standing
      /\ wire'[t].kind = "none" /\ call'[t] = call[t] /\ call[t].op = "idle" /\ wire[t].kind = "pair"
      /\ \A u \in Tab \ {t} : excused'[u] = excused[u]
  BY PairGoesToTheJar DEF PairArrives, Standing, accountVars, CarriedInv
<1>2. FreshPairs'
  BY <1>1, FreshStays DEF ReliedInv, FreshPairs, OnlyTab
<1>3. RequestIsWell(t)'
  BY <1>1 DEF RequestIsWell
<1>4. CASE AllIsWell
  <2>1. JarServes'
    BY <1>1, <1>4, FreshJarServes DEF AllIsWell, RequestIsWell
  <2>2. ASSUME NEW u \in Tab, u # t PROVE RequestIsWell(u)'
    BY <1>1, <1>4, <2>2, RequestsStayWell DEF AllIsWell, OnlyTab
  <2> QED BY <1>2, <1>3, <2>1, <2>2 DEF ReliedInv, AllIsWell
<1>5. CASE ~AllIsWell /\ Relied'
  <2>1. \A u \in Tab \ {t} : excused[u] \/ SigningIn(u)
    BY <1>5 DEF ReliedInv, Relied
  <2>2. \A u \in Tab \ {t} : SigningIn(u)' <=> SigningIn(u)
    BY <1>1 DEF OnlyTab, SigningIn
  <2>3. ~excused'[t]
    BY <1>1, <1>5, <2>1, <2>2 DEF Relied
  <2>4. tab[t].at = "login"
    BY <1>1, <1>5, <2>3 DEF PairArrives, ReliedInv, Relied, SigningIn
  <2>5. ~excused[t] /\ \A u \in Tab \ {t} : Resting(u)
    BY <2>3, <2>4 DEF PairArrives, CarriedInv
  <2>6. JarServes'
    BY <1>1, <2>5, FreshJarServes DEF ReliedInv, FreshPairs
  <2>7. ASSUME NEW u \in Tab, u # t PROVE RequestIsWell(u)'
    <3>1. wire'[u] = Quiet /\ call'[u] = Idle
      BY <1>1, <2>5, <2>7 DEF Resting, OnlyTab
    <3> QED BY <3>1 DEF RequestIsWell, Quiet, Idle
  <2> QED BY <1>2, <1>3, <2>6, <2>7 DEF ReliedInv, AllIsWell
<1> QED BY <1>2, <1>4, <1>5 DEF ReliedInv

LEMMA ElsewhereIsRelied ==
  ASSUME AccountsTypeOK, PanelInv, CarriedInv, ReliedInv, Faults \subseteq Excuses,
         Managed \/ PanelTime \/ CookieExpires
  PROVE  ReliedInv'
<1>0. /\ Elsewhere /\ \A t \in Tab : wire'[t] = wire[t] /\ call'[t] = call[t] /\ tab'[t] = tab[t]
      /\ known' = known
  BY ManagedIsElsewhere, TimeIsElsewhere DEF Elsewhere
<1>1. CASE AllExcused
  BY <1>1, AllExcusedIsEnough
<1>2. ASSUME excused' = excused, FreshPairs', AllIsWell => AllIsWell' PROVE ReliedInv'
  <2>1. \A t \in Tab : SigningIn(t)' <=> SigningIn(t)
    BY <1>0 DEF SigningIn
  <2> QED BY <1>2, <2>1 DEF ReliedInv, Relied
<1>3. CASE Standing /\ excused' = excused /\ (jar' = jar \/ CookieExpires)
  <2>1. FreshPairs'
    BY <1>0, <1>3, FreshStays DEF ReliedInv, FreshPairs
  <2>2. ASSUME AllIsWell PROVE \A t \in Tab : RequestIsWell(t)'
    BY <1>0, <1>3, <2>2, RequestsStayWell DEF AllIsWell
  <2>3. ASSUME JarServes PROVE JarServes'
    <3>1. CASE jar' = jar
      BY <1>0, <1>3, <2>3, <3>1, JarStays
    <3>2. CASE CookieExpires
      <4>1. /\ jar'.session = jar.session /\ jar'.of = jar.of /\ jar'.iat = NoToken /\ UNCHANGED <<accountVars, wire, tab>>
            /\ \A t \in Tab : tab[t].me # "again"
        BY <3>2 DEF CookieExpires, PanelInv, Jar
      <4> QED BY <2>3, <4>1 DEF JarServes, Usable, Rows, NoRow, Gone, accountVars, Active, Exists
    <3> QED BY <1>3, <3>1, <3>2
  <2> QED BY <1>0, <1>2, <1>3, <2>1, <2>2, <2>3 DEF AllIsWell, InUse
<1>4. CASE Managed
  <2>1. Standing \/ AllExcused
    BY <1>4, ManagedIsElsewhere
  <2> QED BY <1>1, <1>3, <1>4, <2>1 DEF Managed
<1>5. CASE CookieExpires
  BY <1>3, <1>5 DEF CookieExpires, accountVars, Standing
<1>6. ASSUME NEW x \in Session, LeewayEnds(x), ~Carried(x), UNCHANGED <<jar, excused>> PROVE ReliedInv'
  <2>1. /\ acct' = acct /\ row[x].state = "just" /\ \A z \in Session \ {x} : row'[z] = row[z]
    BY <1>6 DEF LeewayEnds
  <2>2. \A z \in Rows : z # x => z \in Rows' /\ row'[z] = row[z]
    BY <2>1 DEF Rows, NoRow, Gone
  <2>3. \A s : Active(s)' <=> Active(s)
    BY <2>1 DEF Active, Exists
  <2>4. \A z : z # x /\ Usable(z) => Usable(z)'
    BY <2>1, <2>2 DEF Usable, Active, Exists
  <2>5. ASSUME NEW t \in Tab, Fresh(t) PROVE Fresh(t)'
    <3>1. PICK z \in Rows, s \in Staff :
            /\ wire[t].session = z /\ wire[t].of = s
            /\ row[z].state = "live" /\ row[z].of = s
            /\ Active(s) /\ wire[t].iat >= acct[s].validFrom
      BY <2>5 DEF Fresh
    <3>2. z # x /\ Active(s)'
      BY <2>1, <2>3, <3>1
    <3> QED BY <1>0, <2>1, <2>2, <3>1, <3>2 DEF Fresh
  <2>6. FreshPairs'
    BY <1>0, <1>6, <2>5 DEF ReliedInv, FreshPairs
  <2>7. ASSUME AllIsWell, NEW t \in Tab PROVE RequestIsWell(t)'
    <3>1. RequestIsWell(t) /\ (wire[t].kind = "refresh" => wire[t].x # x)
      BY <1>6, <2>7 DEF AllIsWell, Carried
    <3>2. wire[t].kind = "refresh" => Usable(wire[t].x)'
      <4>1. ASSUME NEW z, wire[t].kind = "refresh", wire[t].x = z PROVE Usable(wire[t].x)'
        <5>1. Usable(z)'
          BY <2>4, <3>1, <4>1 DEF RequestIsWell
        <5> QED BY <1>0, <4>1, <5>1 DEF Usable, Active, Exists
      <4> QED BY <4>1
    <3> QED BY <1>0, <2>1, <2>5, <3>1, <3>2 DEF RequestIsWell, Active, Exists
  <2>8. ASSUME JarServes PROVE JarServes'
    <3>1. PICK z : z = jar.session
      OBVIOUS
    <3>2. z # x
      BY <1>6, <2>1, <2>8, <3>1 DEF JarServes, Carried
    <3>3. Usable(jar.session)'
      <4>1. Usable(z)'
        BY <2>4, <2>8, <3>1, <3>2 DEF JarServes
      <4> QED BY <1>6, <3>1, <4>1 DEF Usable, Active, Exists
    <3>4. row'[z] = row[z]
      BY <2>2, <2>8, <3>1, <3>2 DEF JarServes, Usable
    <3> QED BY <1>0, <1>6, <2>1, <2>8, <3>1, <3>3, <3>4 DEF JarServes
  <2> QED BY <1>0, <1>2, <1>6, <2>6, <2>7, <2>8 DEF AllIsWell, InUse
<1>7. CASE PanelTime
  <2>1. CASE \E x \in Session : SessionExpires(x) /\ AllExcused
    BY <1>1, <2>1
  <2>2. CASE Tick /\ UNCHANGED excused
    BY <1>3, <1>7, <2>2 DEF PanelTime, Tick, Standing
  <2>3. ASSUME NEW s \in Staff, LockoutEnds(s), UNCHANGED excused PROVE ReliedInv'
    <3>1. Standing
      BY <2>3, Types DEF LockoutEnds, Standing, Account
    <3> QED BY <1>3, <1>7, <2>3, <3>1 DEF PanelTime
  <2>4. ASSUME NEW x \in Session, LeewayEnds(x), IF Carried(x) THEN Fault("slow") ELSE UNCHANGED excused
        PROVE  ReliedInv'
    <3>1. Carried(x) => AllExcused
      BY <2>4 DEF Fault, Faults
    <3> QED BY <1>1, <1>6, <1>7, <2>4, <3>1 DEF PanelTime
  <2> QED BY <1>7, <2>1, <2>2, <2>3, <2>4 DEF PanelTime
<1> QED BY <1>4, <1>5, <1>7

LEMMA ReliedKeeps ==
  ASSUME AccountsTypeOK, PanelInv, CarriedInv, ReliedInv, Faults \subseteq Excuses, PanelNext
  PROVE  ReliedInv'
<1>1. ASSUME NEW t \in Tab, NothingNew(t), Standing, excused' = excused, ~SigningIn(t),
             AllIsWell => AllIsWell'
      PROVE  ReliedInv'
  BY <1>1, NothingNewIsRelied DEF ReliedInv
<1>2. ASSUME NEW t \in Tab, Load(t) \/ Timer(t) \/ Me(t) \/ MeLost(t) PROVE ReliedInv'
  <2>1. Standing /\ excused' = excused /\ ~SigningIn(t)
    BY <1>2, AtHand DEF Load, Timer, Me, MeLost, accountVars, Standing, SigningIn, OneRequest, Resting
  <2> QED BY <1>1, <1>2, <2>1, PageIsNothingNew, PageIsWell
<1>3. ASSUME NEW t \in Tab,
             \/ \E s \in Here, p \in 1 .. MaxPassword : Submit(t, s, p)
             \/ RefreshArrives(t)
             \/ RefreshRefuse(t) /\ Reply(t, Refusal) /\ UNCHANGED <<jar, tab, known, excused>>
             \/ RecordFailure(t) /\ UNCHANGED <<wire, jar, tab, known, excused>>
      PROVE  ReliedInv'
  <2>1. excused' = excused /\ ~SigningIn(t)
    BY <1>3, AtHand DEF Submit, RefreshArrives, RefreshRefuse, RecordFailure, SigningIn
  <2>2. Standing
    <3>1. CASE UNCHANGED <<acct, row>>
      BY <3>1 DEF Standing
    <3>2. CASE RecordFailure(t)
      BY <3>2, Types DEF RecordFailure, Standing, Account
    <3> QED BY <1>3, <3>1, <3>2 DEF Submit, LoginRead, RefreshArrives, RefreshRead, RefreshRefuse, accountVars
  <2> QED BY <1>1, <1>3, <2>1, <2>2, RequestIsNothingNew, RequestIsWellServed DEF CarriedInv
<1>4. ASSUME NEW t \in Tab, RefusalArrives(t) PROVE ReliedInv'
  <2>1. Standing /\ excused' = excused /\ ~SigningIn(t)
    BY <1>4 DEF RefusalArrives, NotRefreshed, accountVars, Standing, SigningIn
  <2>2. ~AllIsWell
    BY <1>4 DEF RefusalArrives, AllIsWell, RequestIsWell
  <2> QED BY <1>1, <1>4, <2>1, <2>2, PageIsNothingNew
<1>5. ASSUME NEW t \in Tab, SignOut(t) \/ Lost(t) PROVE ReliedInv'
  BY <1>5, AllExcusedIsEnough DEF SignOut, Lost, Fault, Faults
<1>6. ASSUME NEW t \in Tab, Served(t) PROVE ReliedInv'
  BY <1>3, <1>6, ServedIs, IssueIsRelied
<1> QED BY <1>2, <1>3, <1>4, <1>5, <1>6, PairIsRelied, ElsewhereIsRelied DEF PanelNext

LEMMA ReliedBegins == PanelInit => ReliedInv
<1> SUFFICES ASSUME PanelInit PROVE ReliedInv
  OBVIOUS
<1>1. \A t \in Tab : call[t].op = "idle" /\ wire[t].kind = "none" /\ tab[t].at = "login"
  BY PanelAssumption DEF PanelInit, AccountsInit, Quiet, Idle, AtLogin, PanelAssumption
<1>2. ~InUse
  BY <1>1 DEF PanelInit, Unknown, InUse
<1> QED BY <1>1, <1>2 DEF ReliedInv, FreshPairs, AllIsWell, RequestIsWell

(* A tab is shown the login page only when it is told to: it signed out,   *)
(* its answer was lost, or it was refused, which nobody relied on is.      *)
LEMMA ShownOutIsExcused ==
  ASSUME AccountsTypeOK, PanelInv, CarriedInv, ReliedInv, Faults \subseteq Excuses, PanelNext,
         NEW t \in Tab, tab[t].at = "panel", tab'[t].at = "login"
  PROVE  excused'[t]
<1>1. PICK u \in Tab : \/ Load(u) \/ Timer(u) \/ Me(u) \/ MeLost(u) \/ SignOut(u)
                       \/ PairArrives(u) \/ RefusalArrives(u) \/ Lost(u)
  BY DEF PanelNext, RefreshArrives, Served, Submit, Managed, PanelTime, CookieExpires
<1>2. u = t
  <2>1. OnlyTab(u)
    BY <1>1, PageIsNothingNew, PairGoesToTheJar DEF NothingNew
  <2> QED BY <2>1 DEF OnlyTab
<1>3. CASE SignOut(t) \/ Lost(t)
  BY <1>3 DEF SignOut, Lost, Fault, Faults, AllExcused
<1>4. CASE ~(SignOut(t) \/ Lost(t))
  <2>1. RefusalArrives(t) \/ (Me(t) /\ ~CookieVerifies /\ tab[t].me = "again")
    BY <1>1, <1>2, <1>4, AtHand DEF Load, Timer, Me, MeLost, PairArrives, InPanel
  <2>2. ~AllIsWell
    BY <2>1 DEF AllIsWell, RequestIsWell, RefusalArrives, InUse, JarServes, Usable, CookieVerifies
  <2>3. excused[t]
    BY <2>2 DEF ReliedInv, Relied, SigningIn
  <2> QED BY <2>1, <2>3 DEF RefusalArrives, Me
<1> QED BY <1>3, <1>4

(* A tab is shown out of the panel only if it signed out, its account was  *)
(* changed, its session ran out, or an answer was lost or came later than  *)
(* the leeway: any number of tabs may refresh one rotating token, on their *)
(* own timers and in any order (use-admin-gate.ts; admin-auth.service.ts,  *)
(* refresh).                                                               *)
THEOREM NobodyIsShownOut ==
  ASSUME Faults \subseteq Excuses
  PROVE  PanelSpec => NobodyIsShownOutForNoReason
<1> DEFINE I == AccountsTypeOK /\ AlwaysAnAdmin /\ PanelInv /\ CarriedInv /\ ReliedInv
           vs == <<accountVars, panelVars>>
           Shown == \A t \in Tab : tab[t].at = "panel" /\ tab'[t].at = "login" => excused'[t]
<1>1. PanelInit => I
  BY PanelBegins, CarriedBegins, ReliedBegins
<1>2. I /\ [PanelNext]_vs => I'
  <2>1. ASSUME I, PanelNext PROVE I'
    BY <2>1, PanelStepsAreAccounts, NextKeeps, PanelKeeps, CarriedKeeps, ReliedKeeps
  <2>2. ASSUME I, UNCHANGED vs PROVE I'
    <3>1. AccountsTypeOK' /\ AlwaysAnAdmin'
      BY <2>2, NextKeeps
    <3>2. PanelInv'
      BY <2>2, NoTabMoves DEF PanelInv, accountVars, panelVars, Jar, Known, NoToken
    <3>3. CarriedInv'
      BY <2>2 DEF CarriedInv, CarriedAreRows, PairsAreNew, AccountsExist, SignedOutBefore, Has,
                  Exists, Rows, NoRow, Gone, accountVars, panelVars
    <3>4. ReliedInv'
      BY <2>2 DEF ReliedInv, FreshPairs, Relied, SigningIn, AllIsWell, InUse, RequestIsWell, JarServes,
                  Fresh, Usable, Active, Exists, Rows, NoRow, Gone, NoToken, accountVars, panelVars
    <3> QED BY <3>1, <3>2, <3>3, <3>4
  <2> QED BY <2>1, <2>2
<1>3. I /\ [PanelNext]_vs => [Shown]_vs
  BY ShownOutIsExcused
<1> QED BY <1>1, <1>2, <1>3, PTL DEF PanelSpec, NobodyIsShownOutForNoReason

=============================================================================
