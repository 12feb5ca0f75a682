-------------------------------- MODULE MCStaff --------------------------------
(***************************************************************************)
(* The staff's side of the panel in three scenes that start from the same  *)
(* accounts.  "rules": two requests served at once, and the accounts they  *)
(* change.  "resets": the same, of a reset, a login and a refresh.         *)
(* "tabs": one browser with two tabs on one account, while the owner       *)
(* disables it.                                                            *)
(***************************************************************************)
EXTENDS Panel, TLC

CONSTANTS s1, s2, s3

VARIABLE scene

Symmetry == Permutations(Tab) \cup Permutations(Session)

(* One is still to be hired, in the scene of the rules. *)
AdminAndStaff == (s1 :> "ADMIN") @@ (s2 :> "STAFF") @@ (s3 :> "none")

Init == PanelInit /\ scene \in {"rules", "resets", "tabs"}

(* Bounds of the scenes: which requests are made, how many sessions, and   *)
(* how many passwords there are.                                           *)
Only(ops) == \A c \in Call : call'[c].op \in ops \cup {"idle", "login", "rehash", "refresh"}
Absent(s) == acct'[s] = acct[s] /\ token'[s] = token[s] /\ \A c \in Call : call'[c] # Idle => call'[c].who # s
OneSession == \A x, y \in Session : {row'[x], row'[y]} \cap {NoRow} = {} => x = y
NoRefresh == \A x \in Session : row'[x].state \in {"none", "gone", "live"}
OnePassword == \A c \in Call : call'[c].op = "login" => call'[c].typed <= 1

AtTheApi == AccountsNext /\ call'[Desk] = Idle /\ OneSession /\ UNCHANGED panelVars

Rules == AtTheApi /\ Absent(s2) /\ NoRefresh /\ OnePassword /\ Only(Asked \ {"reset"})
Resets == AtTheApi /\ Absent(s3) /\ Only({"reset"})
Tabs == PanelNext /\ Absent(s3) /\ OnePassword /\ Only({"disable"})

Next == /\ UNCHANGED scene
        /\ \/ scene = "rules" /\ Rules
           \/ scene = "resets" /\ Resets
           \/ scene = "tabs" /\ Tabs

(* The accounts and the panel are well formed in every scene.              *)
WellFormed == AccountsTypeOK /\ PanelTypeOK

Spec == Init /\ [][Next]_<<accountVars, panelVars, scene>>
=============================================================================
