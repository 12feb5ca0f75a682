-------------------------------- MODULE Panel --------------------------------
(***************************************************************************)
(* The panel in a browser: one cookie jar, several tabs, and the server of *)
(* Accounts (apps/web/src/lib/api/admin.ts, lib/use-admin-gate.ts,         *)
(* components/admin/admin-shell.tsx, the login page and the auth           *)
(* controller).                                                            *)
(*                                                                         *)
(* The tabs share the jar and the two local-storage keys; each of them     *)
(* refreshes for itself, and a refresh carries the cookie that was in the  *)
(* jar when it was sent.                                                   *)
(***************************************************************************)
EXTENDS Accounts

CONSTANTS Tab,      \* the tabs, each with one request of a session at a time
          Here,     \* bound: who signs in in this browser, with a right password
          Desk,     \* the request by which the owner manages staff elsewhere
          Excuses   \* faults that count as a reason: of Faults

(* lost: a refresh or its answer never arrives.                            *)
(* slow: a refresh takes longer than the leeway.                           *)
Faults == {"lost", "slow"}

ASSUME PanelAssumption ==
  /\ Desk \notin Tab /\ Tab \cup {Desk} \subseteq Call
  /\ Here \subseteq Staff /\ Excuses \subseteq Faults

VARIABLES jar,      \* the two cookies
          known,    \* local storage: this browser signed in, and as what
          tab,      \* what each tab shows, and how far its /me is
          wire,     \* what is between each tab and the server
          excused   \* history: since its login a tab had a reason to ask for one

panelVars == <<jar, known, tab, wire, excused>>

NoCookies == [session |-> NoSession, of |-> Owner, iat |-> NoToken]
Unknown == [authed |-> FALSE, role |-> "none"]
Quiet == [kind |-> "none"]

AtLogin == [at |-> "login", me |-> "none"]
InPanel == [at |-> "panel", me |-> "ask"]

PanelInit ==
  /\ AccountsInit
  /\ jar = NoCookies /\ known = Unknown
  /\ excused = [t \in Tab |-> FALSE]
  /\ tab = [t \in Tab |-> AtLogin]
  /\ wire = [t \in Tab |-> Quiet]

Resting(t) == call[t] = Idle /\ wire[t] = Quiet

-----------------------------------------------------------------------------
(* A tab's own steps.                                                      *)

(* Loading the panel: without the local flag it is the login page.         *)
Load(t) ==
  /\ tab[t].at = "login" /\ known.authed /\ Resting(t)
  /\ tab' = [tab EXCEPT ![t] = InPanel]
  /\ UNCHANGED <<jar, known, wire, excused, accountVars>>

(* refreshSession: the tab's one refresh in flight, shared by whoever asks.*)
Send(t) == IF Resting(t) THEN wire' = [wire EXCEPT ![t] = [kind |-> "refresh", x |-> jar.session]]
                         ELSE UNCHANGED wire

(* The interval timer of a panel that is up.                               *)
Timer(t) ==
  /\ tab[t].at = "panel" /\ Resting(t)
  /\ Send(t)
  /\ UNCHANGED <<jar, known, tab, excused, accountVars>>

AllExcused == excused' = [t \in Tab |-> TRUE]
Fault(f) == IF f \in Excuses THEN AllExcused ELSE UNCHANGED excused

(* Back to the login page, the local keys removed.                         *)
ShowLogin(t) == tab' = [tab EXCEPT ![t] = AtLogin] /\ known' = Unknown

(* GET /admin/auth/me: answered, or refused and worth one refresh.         *)
CookieVerifies == Active(jar.of) /\ jar.iat >= acct[jar.of].validFrom

Me(t) ==
  /\ tab[t].at = "panel" /\ tab[t].me \in {"ask", "again"}
  /\ \/ /\ CookieVerifies
        /\ known' = [known EXCEPT !.role = acct[jar.of].role]
        /\ tab' = [tab EXCEPT ![t].me = "none"]
        /\ UNCHANGED wire
     \/ /\ ~CookieVerifies /\ tab[t].me = "ask"
        /\ tab' = [tab EXCEPT ![t].me = "refreshing"]
        /\ Send(t) /\ UNCHANGED known
     \/ /\ ~CookieVerifies /\ tab[t].me = "again"
        /\ ShowLogin(t) /\ UNCHANGED wire
  /\ UNCHANGED <<jar, excused, accountVars>>

(* A /me that never completes is no rejection: the panel stays up.         *)
MeLost(t) ==
  /\ tab[t].me \in {"ask", "again"}
  /\ tab' = [tab EXCEPT ![t].me = "none"]
  /\ UNCHANGED <<jar, known, wire, excused, accountVars>>

(* The login form, once at a time.                                         *)
Submit(t, s, p) ==
  /\ tab[t].at = "login" /\ wire[t] = Quiet /\ LoginRead(t, s, p)
  /\ UNCHANGED <<jar, known, tab, wire, excused>>

(* Signing out: the call is a GET of a route that only answers POST, and   *)
(* its failure is swallowed, so the server's row and the cookies stay.     *)
SignOut(t) ==
  /\ tab[t].at = "panel"
  /\ ShowLogin(t) /\ AllExcused
  /\ UNCHANGED <<jar, wire, accountVars>>

-----------------------------------------------------------------------------
(* The server's side of a tab's request.                                   *)

Reply(t, answer) == wire' = [wire EXCEPT ![t] = answer]
Pair(y, s) == [kind |-> "pair", session |-> y, of |-> s, iat |-> second]
Refusal == [kind |-> "refused"]

RefreshArrives(t) ==
  /\ wire[t].kind = "refresh"
  /\ \/ /\ wire[t].x \in Rows /\ RefreshRead(t, wire[t].x)
        /\ Reply(t, Quiet)
     \/ /\ wire[t].x \notin Rows
        /\ Reply(t, Refusal) /\ UNCHANGED accountVars
  /\ UNCHANGED <<jar, known, tab, excused>>

Served(t) ==
  /\ \/ \E y \in Session :
          \/ RefreshIssue(t, y) /\ Reply(t, Pair(y, call[t].who)) /\ UNCHANGED excused
          \/ /\ LoginIssue(t, y) /\ call'[t] = Idle /\ Reply(t, Pair(y, call[t].who))
             /\ excused' = [excused EXCEPT ![t] = acct[call[t].who].off]
     \/ RefreshRefuse(t) /\ Reply(t, Refusal) /\ UNCHANGED excused
     \/ RecordFailure(t) /\ UNCHANGED <<wire, excused>>
  /\ UNCHANGED <<jar, known, tab>>

(* The answer reaches the browser.  A pair sets both cookies, a refusal    *)
(* clears them; a tab whose /me was waiting for it asks again or gives up. *)
PairArrives(t) ==
  /\ wire[t].kind = "pair"
  /\ jar' = [session |-> wire[t].session, of |-> wire[t].of, iat |-> wire[t].iat]
  /\ wire' = [wire EXCEPT ![t] = Quiet]
  /\ \/ /\ tab[t].at = "login"
        /\ known' = [authed |-> TRUE, role |-> acct[wire[t].of].role]
        /\ tab' = [tab EXCEPT ![t] = InPanel]
        /\ excused' = [excused EXCEPT ![t] = @ \/ \E u \in Tab \ {t} : ~Resting(u)]
     \/ /\ tab[t].at = "panel"
        /\ tab' = [tab EXCEPT ![t].me = IF @ = "refreshing" THEN "again" ELSE @]
        /\ UNCHANGED <<known, excused>>
  /\ UNCHANGED accountVars

(* A mutant: whoever waits for the refresh is not told that it failed. *)
NotRefreshed_KeepsWaiting(t) ==
  wire' = [wire EXCEPT ![t] = Quiet] /\ UNCHANGED <<tab, known, accountVars>>

(* The refresh failed: a /me that waited for it shows the login page.      *)
NotRefreshed(t) ==
  /\ wire' = [wire EXCEPT ![t] = Quiet]
  /\ IF tab[t].me = "refreshing" THEN ShowLogin(t) ELSE UNCHANGED <<tab, known>>
  /\ UNCHANGED accountVars

RefusalArrives(t) ==
  /\ wire[t].kind = "refused" /\ jar' = NoCookies
  /\ NotRefreshed(t) /\ UNCHANGED excused

(* A refresh or its answer lost on the way: to the tab it is the same as a *)
(* refusal, but the cookies stay.                                          *)
Lost(t) ==
  /\ wire[t] # Quiet /\ UNCHANGED jar
  /\ NotRefreshed(t) /\ Fault("lost")

-----------------------------------------------------------------------------
(* The owner at another desk, and time.                                    *)

Managed ==
  /\ \/ Ask(Desk, Owner)
     \/ Create(Desk) \/ Enable(Desk)
     \/ Update(Desk) \/ Disable(Desk) \/ ResetPassword(Desk) \/ Abandon(Desk)
  /\ IF \E s \in Staff : \E field \in {"validFrom", "off", "role", "password"} :
          acct'[s][field] # acct[s][field]
     THEN AllExcused ELSE UNCHANGED excused
  /\ UNCHANGED <<jar, known, tab, wire>>

(* A session that a request is on its way with, or that is still in the    *)
(* jar while the pair that replaces it is on its way.                      *)
Carried(x) == \E t \in Tab : \/ wire[t].kind = "refresh" /\ wire[t].x = x
                             \/ call[t].op = "refresh" /\ call[t].x = x
                             \/ wire[t].kind = "pair" /\ x = jar.session

PanelTime ==
  /\ \/ Tick /\ UNCHANGED excused
     \/ \E x \in Session : LeewayEnds(x) /\ IF Carried(x) THEN Fault("slow") ELSE UNCHANGED excused
     \/ \E x \in Session : SessionExpires(x) /\ AllExcused
     \/ \E s \in Staff : LockoutEnds(s) /\ UNCHANGED excused
  /\ UNCHANGED <<jar, known, tab, wire>>

(* An access cookie lives for an hour: never so short as a retry.          *)
CookieExpires ==
  /\ \A t \in Tab : tab[t].me # "again"
  /\ jar.iat # NoToken /\ jar' = [jar EXCEPT !.iat = NoToken]
  /\ UNCHANGED <<known, tab, wire, excused, accountVars>>

PanelNext ==
  \/ \E t \in Tab : \/ Load(t) \/ Timer(t) \/ Me(t) \/ MeLost(t) \/ SignOut(t)
                    \/ RefreshArrives(t) \/ Served(t)
                    \/ PairArrives(t) \/ RefusalArrives(t) \/ Lost(t)
                    \/ \E s \in Here, p \in 1 .. MaxPassword : Submit(t, s, p)
  \/ Managed \/ PanelTime \/ CookieExpires

PanelSpec == PanelInit /\ [][PanelNext]_<<accountVars, panelVars>>

-----------------------------------------------------------------------------
(* A tab is shown out of the panel only for a reason: it signed out, its   *)
(* account was changed, its session expired, one of Excuses, or that it    *)
(* signed in while another tab had a request out whose answer will set or  *)
(* clear the cookies over its own.  Two tabs refreshing on their own       *)
(* timers, or a refresh in flight while another finishes, never end in the *)
(* login page - "it logs out for no reason" is what the leeway of refresh  *)
(* exists to stop (admin-auth.service.ts:187).                             *)
NobodyIsShownOutForNoReason ==
  [][\A t \in Tab : tab[t].at = "panel" /\ tab'[t].at = "login" => excused'[t]]_<<accountVars, panelVars>>

(* What a tab and the jar can hold; in particular a /me that waits for the *)
(* tab's refresh waits for one that is under way.                          *)
PanelTypeOK ==
  /\ jar \in [session : Session \cup {NoSession}, of : Staff, iat : NoToken .. MaxSecond]
  /\ known \in [authed : BOOLEAN, role : StaffRoles \cup {"none"}]
  /\ tab \in [Tab -> [at : {"login", "panel"}, me : {"none", "ask", "refreshing", "again"}]]
  /\ \A t \in Tab : tab[t].me = "refreshing" => ~Resting(t)

=============================================================================
