------------------------------ MODULE Accounts ------------------------------
(***************************************************************************)
(* The staff of the panel: their accounts, the sessions they hold and the  *)
(* page that manages them (apps/api/src/admin/auth, .../admin/users and    *)
(* the User Management page).                                              *)
(*                                                                         *)
(* A request is served in several steps, and another request's             *)
(* transaction may commit between any two of them: a login reads its row,  *)
(* spends a tenth of a second on the password, and only then issues; a     *)
(* refresh reads the session row without locking it; an administrator is   *)
(* let in by the guard before the transaction that does what was asked.    *)
(* Transactions that change staff lock every row of the table first, so    *)
(* each of them is one step.                                               *)
(***************************************************************************)
EXTENDS Integers

CONSTANTS Staff,        \* the accounts there may ever be
          Session,      \* the rows admin_sessions may ever hold
          Call,         \* the requests the server may be serving at once
          NoSession,    \* the predecessor of a session that a login began
          Owner,        \* the administrator the shop starts with
          Hired,        \* the role each other account starts with, or "none"
          StaffRoles,   \* the roles an account may be given
          Stale,        \* accounts whose hash has outdated parameters
          Asked,        \* bound: what the page is used for
          MaxFailures,  \* ADMIN_MAX_FAILED_LOGINS
          MaxWrong,     \* bound: wrong passwords counted against an account
          MaxPassword,  \* bound: passwords an account may have had
          MaxSecond     \* bound: seconds that may go by

ASSUME AccountsAssumption ==
  /\ Owner \in Staff
  /\ "ADMIN" \in StaffRoles
  /\ "none" \notin StaffRoles
  /\ Hired \in [Staff -> StaffRoles \cup {"none"}]
  /\ Hired[Owner] = "ADMIN"
  /\ NoSession \notin Session
  /\ Asked \subseteq {"create", "update", "disable", "enable", "reset"}
  /\ {MaxFailures, MaxWrong, MaxSecond} \subseteq Nat /\ MaxPassword \in Nat \ {0}

VARIABLES acct,    \* admin_users
          row,     \* admin_sessions
          token,   \* when the newest unexpired access token of each was signed
          call,    \* the requests being served
          second   \* the clock, in the whole seconds a token is dated with

accountVars == <<acct, row, token, call, second>>

Idle == [op |-> "idle"]
NoRow == [state |-> "none"]
Gone == [state |-> "gone"]    \* deleted; its id is never given again

Rows == {x \in Session : row[x] \notin {NoRow, Gone}}
NoToken == -1

Exists(s) == acct[s].role # "none"
Active(s) == Exists(s) /\ ~acct[s].off

NewAccount(role, n, weak) ==
  [role |-> role, off |-> FALSE, password |-> n, weak |-> weak,
   failed |-> 0, locked |-> FALSE, validFrom |-> second]

AccountsInit ==
  /\ second = 0
  /\ acct = [s \in Staff |-> NewAccount(Hired[s], 1, s \in Stale)]
  /\ row = [x \in Session |-> NoRow]
  /\ token = [s \in Staff |-> IF s = Owner THEN 0 ELSE NoToken]
  /\ call = [c \in Call |-> Idle]

-----------------------------------------------------------------------------
(* Who is calling.                                                         *)

(* AdminJwtGuard: an unexpired token signed no earlier than the second of  *)
(* the account's last sign-out everywhere, and an account that is on.      *)
Verified(s) == Active(s) /\ token[s] >= acct[s].validFrom

(* AdminRolesGuard on the users controller: the role is the table's.       *)
MayManage(a) == acct[a].role = "ADMIN" /\ Verified(a)

(* Issue a pair: the row of the refresh token, and a token dated now.      *)
Issue(y, s, from) ==
  /\ row[y] = NoRow
  /\ token' = [token EXCEPT ![s] = second]

-----------------------------------------------------------------------------
(* Signing in.                                                             *)

(* login reads the account; a refusal decided here changes nothing.        *)
LoginRead(c, s, p) ==
  /\ call[c] = Idle /\ Active(s) /\ ~acct[s].locked
  /\ call' = [call EXCEPT ![c] = [op |-> "login", who |-> s, typed |-> p,
                                  seen |-> acct[s].password,
                                  rehash |-> acct[s].weak /\ p = acct[s].password]]
  /\ UNCHANGED <<acct, row, token, second>>

(* recordFailure: counted in the database, and locked by the same update.  *)
RecordFailure(c) ==
  LET s == call[c].who
      n == acct[s].failed + 1
  IN  /\ call[c].op = "login" /\ call[c].typed # call[c].seen /\ n <= MaxWrong
      /\ acct' = [acct EXCEPT ![s].failed = n,
                              ![s].locked = @ \/ n >= MaxFailures]
      /\ call' = [call EXCEPT ![c] = Idle]
      /\ UNCHANGED <<row, token, second>>

LoginIssue(c, y) ==
  LET s == call[c].who IN
  /\ call[c].op = "login" /\ call[c].typed = call[c].seen
  /\ Issue(y, s, NoSession)
  /\ acct' = [acct EXCEPT ![s].failed = 0, ![s].locked = FALSE]
  /\ row' = [row EXCEPT ![y] = [state |-> "live", of |-> s, from |-> NoSession]]
  /\ call' = [call EXCEPT ![c] = IF @.rehash THEN [@ EXCEPT !.op = "rehash"] ELSE Idle]
  /\ UNCHANGED <<second>>

(* upgradeHash, which nobody waits for: by id, whatever the row holds now. *)
UpgradeHash(c) ==
  /\ call[c].op \in {"login", "rehash"} /\ call[c].rehash
  /\ acct' = [acct EXCEPT ![call[c].who].password = call[c].typed,
                          ![call[c].who].weak = FALSE]
  /\ call' = [call EXCEPT ![c] = IF @.op = "rehash" THEN Idle ELSE [@ EXCEPT !.rehash = FALSE]]
  /\ UNCHANGED <<row, token, second>>

-----------------------------------------------------------------------------
(* Keeping a session and ending one.                                       *)

(* refresh reads the row and its account, without a lock.                  *)
RefreshRead(c, x) ==
  /\ call[c] = Idle /\ x \in Rows
  /\ call' = [call EXCEPT ![c] = [op |-> "refresh", x |-> x, who |-> row[x].of,
                                  state |-> row[x].state, off |-> acct[row[x].of].off]]
  /\ UNCHANGED <<acct, row, token, second>>

(* A live row is spent by its id; one spent within the leeway is left as   *)
(* it is; either way a successor is inserted.                              *)
RefreshIssue(c, y) ==
  LET x == call[c].x IN
  /\ call[c].op = "refresh" /\ call[c].state \in {"live", "just"} /\ ~call[c].off
  /\ Issue(y, call[c].who, x)
  /\ row' = [row EXCEPT
       ![x] = IF call[c].state = "live" /\ x \in Rows /\ @.state # "over"
              THEN [@ EXCEPT !.state = "just"] ELSE @,
       ![y] = [state |-> "live", of |-> call[c].who, from |-> x]]
  /\ call' = [call EXCEPT ![c] = Idle]
  /\ UNCHANGED <<acct, second>>

(* The rows reached from x along rotated_from_id, in both directions.      *)
Family(x) ==
  LET near(F) == F \cup {y \in Rows : row[y].from \in F
                                        \/ \E z \in F \cap Rows : row[z].from = y}
      grown[n \in Nat] == IF n = 0 THEN {x} ELSE near(grown[n - 1])
  IN  grown[3]

(* A mutant: without the leeway. *)
RefreshRefuse_NoLeeway(c) ==
  /\ call[c].op = "refresh" /\ (call[c].state # "live" \/ call[c].off)
  /\ call' = [call EXCEPT ![c] = Idle]
  /\ UNCHANGED <<acct, row, token, second>>

(* A token spent longer ago than the leeway: the family is revoked, and    *)
(* the refusal that follows is thrown inside the same transaction, which   *)
(* takes the revocation back.  Expired rows and accounts that are off are  *)
(* refused likewise.                                                       *)
RefreshRefuse(c) ==
  /\ call[c].op = "refresh"
  /\ call[c].state \in {"long", "over"} \/ call[c].off
  /\ call' = [call EXCEPT ![c] = Idle]
  /\ UNCHANGED <<acct, row, token, second>>

Logout(x) ==
  /\ row[x].state = "live"
  /\ row' = [row EXCEPT ![x].state = "just"]
  /\ UNCHANGED <<acct, token, call, second>>

-----------------------------------------------------------------------------
(* Managing the staff, from the page.                                      *)

(* What the page offers.  Its list is read once, when it opens, so the     *)
(* button may be for an account that has changed since: any button but one *)
(* of the administrator's own row.  Only two of the dialogs name a role.   *)
Offers(a, op, s) == op = "create" \/ (Exists(s) /\ (op = "enable" \/ a # s))
Named(op, s) == IF op \in {"create", "update"} THEN StaffRoles ELSE {acct[s].role}

(* The guards let the request in; what it does is decided later.           *)
Ask(c, a) ==
  /\ call[c] = Idle /\ MayManage(a)
  /\ \E op \in Asked, s \in Staff :
       /\ Offers(a, op, s)
       /\ \E r \in Named(op, s) :
            call' = [call EXCEPT ![c] = [op |-> op, actor |-> a, who |-> s, role |-> r]]
  /\ UNCHANGED <<acct, row, token, second>>

(* A mutant: an account that is off counts. *)
OtherActiveAdmin_Off(s) == \E o \in Staff \ {s} : acct[o].role = "ADMIN"

(* refuseLastAdmin's question, over the locked rows.                       *)
OtherActiveAdmin(s) == \E o \in Staff \ {s} : acct[o].role = "ADMIN" /\ ~acct[o].off

MayLose(s) == acct[s].role = "ADMIN" => OtherActiveAdmin(s) \/ acct[s].off

(* A mutant: the second is rounded up. *)
SignedOut_RoundedUp(a) == [a EXCEPT !.validFrom = second + 1]

(* signOutEverywhere: no older token verifies and no session row is left.  *)
SignedOut(a) == [a EXCEPT !.validFrom = second]

NewPassword(a) == [a EXCEPT !.password = a.password + 1, !.weak = FALSE,
                            !.failed = 0, !.locked = FALSE]
WithoutSessions(s) == [x \in Session |-> IF x \in Rows /\ row[x].of = s THEN Gone ELSE row[x]]

(* The request is over: with its change committed, or without any.         *)
Answer(c) ==
  /\ call' = [call EXCEPT ![c] = Idle]
  /\ UNCHANGED <<token, second>>

Refused(c) ==
  /\ call' = [call EXCEPT ![c] = Idle]
  /\ UNCHANGED <<acct, row, token, second>>

Create(c) ==
  LET s == call[c].who IN
  /\ call[c].op = "create"
  /\ \/ /\ Exists(s) /\ Refused(c)
     \/ /\ ~Exists(s)
        /\ acct' = [acct EXCEPT ![s] = NewAccount(call[c].role, 1, FALSE)]
        /\ Answer(c) /\ UNCHANGED row

Update(c) ==
  LET s == call[c].who
      changes == call[c].role # acct[s].role
      allowed == s # call[c].actor /\ MayLose(s)
  IN  /\ call[c].op = "update"
      /\ \/ changes /\ ~allowed /\ Refused(c)
         \/ /\ changes /\ allowed
            /\ acct' = [acct EXCEPT ![s] = SignedOut([@ EXCEPT !.role = call[c].role])]
            /\ row' = WithoutSessions(s)
            /\ Answer(c)
         \/ ~changes /\ UNCHANGED <<acct, row>> /\ Answer(c)

Disable(c) ==
  LET s == call[c].who
      allowed == s # call[c].actor /\ MayLose(s)
  IN  /\ call[c].op = "disable"
      /\ \/ acct[s].off /\ UNCHANGED <<acct, row>> /\ Answer(c)
         \/ ~acct[s].off /\ ~allowed /\ Refused(c)
         \/ /\ ~acct[s].off /\ allowed
            /\ acct' = [acct EXCEPT ![s] = SignedOut([@ EXCEPT !.off = TRUE])]
            /\ row' = WithoutSessions(s)
            /\ Answer(c)

Enable(c) ==
  LET s == call[c].who IN
  /\ call[c].op = "enable"
  /\ IF acct[s].off
     THEN /\ acct' = [acct EXCEPT ![s].off = FALSE, ![s].failed = 0, ![s].locked = FALSE]
     ELSE UNCHANGED <<acct>>
  /\ Answer(c) /\ UNCHANGED row

ResetPassword(c) ==
  LET s == call[c].who IN
  /\ call[c].op = "reset" /\ acct[s].password < MaxPassword
  /\ \/ s = call[c].actor /\ Refused(c)
     \/ /\ s # call[c].actor
        /\ acct' = [acct EXCEPT ![s] = SignedOut(NewPassword(@))]
        /\ row' = WithoutSessions(s)
        /\ Answer(c)

-----------------------------------------------------------------------------
(* Time, and requests that never finish.                                   *)

Tick == second < MaxSecond /\ second' = second + 1
        /\ UNCHANGED <<acct, row, token, call>>
LockoutEnds(s) == acct[s].locked /\ acct' = [acct EXCEPT ![s].locked = FALSE]
                  /\ UNCHANGED <<row, token, call, second>>
LeewayEnds(x) == row[x].state = "just" /\ row' = [row EXCEPT ![x].state = "long"]
                 /\ UNCHANGED <<acct, token, call, second>>
SessionExpires(x) == row[x].state \in {"live", "long"} /\ row' = [row EXCEPT ![x].state = "over"]
                     /\ UNCHANGED <<acct, token, call, second>>
TokenExpires(s) == token[s] # NoToken /\ token' = [token EXCEPT ![s] = NoToken] /\ UNCHANGED <<acct, row, call, second>>

(* The process restarts, or the connection is lost, before the commit.     *)
Abandon(c) == call[c] # Idle /\ Refused(c)

Serve(c) ==
  \/ \E s \in Staff, p \in 0 .. MaxPassword : LoginRead(c, s, p)
  \/ RecordFailure(c)
  \/ \E y \in Session : LoginIssue(c, y) \/ RefreshRead(c, y) \/ RefreshIssue(c, y)
  \/ UpgradeHash(c) \/ RefreshRefuse(c)
  \/ Create(c) \/ Update(c) \/ Disable(c) \/ Enable(c) \/ ResetPassword(c)
  \/ Abandon(c)

AccountsNext ==
  \/ \E c \in Call : Serve(c)
  \/ \E c \in Call, a \in Staff : Ask(c, a)
  \/ \E s \in Staff : LockoutEnds(s) \/ TokenExpires(s)
  \/ \E x \in Session : Logout(x) \/ LeewayEnds(x) \/ SessionExpires(x)
  \/ Tick

-----------------------------------------------------------------------------
(* What the accounts promise.                                              *)

LoginCall == [op : {"login", "rehash"}, who : Staff, typed : 0 .. MaxPassword,
              seen : 0 .. MaxPassword, rehash : BOOLEAN]
RefreshCall == [op : {"refresh"}, x : Session, who : Staff,
                state : {"live", "just", "long", "over"}, off : BOOLEAN]
ManageCall == [op : Asked, actor : Staff, who : Staff, role : StaffRoles]

(* Every variable holds what the tables and requests can hold: in          *)
(* particular the count of wrong passwords stays a count, and a session    *)
(* row belongs to an account.                                              *)
AccountsTypeOK ==
  /\ acct \in [Staff -> [role : StaffRoles \cup {"none"}, off : BOOLEAN,
                        password : 0 .. MaxPassword, weak : BOOLEAN,
                        failed : 0 .. MaxWrong, locked : BOOLEAN,
                        validFrom : 0 .. MaxSecond]]
  /\ row \in [Session -> {NoRow, Gone} \cup [state : {"live", "just", "long", "over"}, of : Staff,
                                      from : Session \cup {NoSession}]]
  /\ token \in [Staff -> NoToken .. MaxSecond]
  /\ call \in [Call -> {Idle} \cup LoginCall \cup RefreshCall \cup ManageCall]
  /\ second \in 0 .. MaxSecond

(* There is always at least one active administrator: two of them demoting *)
(* or disabling each other in the same second cannot leave the shop with   *)
(* nobody who can grant access back (admin-users.service.ts, the class     *)
(* comment).                                                               *)
AlwaysAnAdmin == \E s \in Staff : acct[s].role = "ADMIN" /\ ~acct[s].off

(* A replayed refresh token revokes its whole family (the comment of       *)
(* refresh): once the refusal is answered no member is live.               *)
ReplayEndsTheFamily ==
  [][\A c \in Call :
       /\ call[c].op = "refresh" /\ call[c].state = "long"
       /\ call'[c] = Idle
       => \A y \in Family(call[c].x) : row'[y].state # "live"]_accountVars

AccountsSpec == AccountsInit /\ [][AccountsNext]_accountVars
=============================================================================
