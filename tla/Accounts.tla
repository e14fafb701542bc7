------------------------------ MODULE Accounts ------------------------------
(***************************************************************************)
(* Members of the dashboard: sign-up requests, the decisions of the user   *)
(* manager window (backend/user_manager.py), logins and the sessions that  *)
(* outlive a reload (backend/auth.py, frontend/components/auth_view.py).   *)
(* Every function is a transaction of its own; those that read first and   *)
(* write later are two steps.  A password is the person who chose it; all  *)
(* tabs belong to one browser.                                             *)
(***************************************************************************)
EXTENDS Naturals, FiniteSets

CONSTANTS
    Tabs, People, Names, Admins,
    NameOf,         \* the username each person asks for
    None,           \* no token, no member, no person
    HasCookies,     \* streamlit-cookies-controller is installed
    MaxIds,         \* bound: requests made
    MaxTokens,      \* bound: sessions made
    MaxOutages      \* bound: times MySQL goes away

Ids    == 1 .. MaxIds
Tokens == 1 .. MaxTokens

ASSUME AccountsAssumption ==
    /\ MaxIds \in Nat /\ MaxTokens \in Nat /\ MaxOutages \in Nat
    /\ NameOf \in [People -> Names]
    /\ None \notin Ids \cup Tokens \cup People \cup Names
    /\ HasCookies \in BOOLEAN

Requests == [id : Ids, name : Names, who : People]

VARIABLES
    pending,    \* app_pending_signup
    users,      \* app_user; the id of a member is that of its request
    sessions,   \* app_session: <<token, member>>
    expired,    \* tokens whose expires_at has passed
    dbUp,       \* MySQL answers
    view,       \* session_state of each tab: member and token
    url, sent,  \* ?sid= of each tab, and the cookie it sent when it connected
    cookie,     \* the cookie the browser holds
    doing,      \* each tab inside a handler: "idle", "signup" or "begin"
    hand,       \* the person signing up, or the member logging in
    targets, act,   \* rows an administrator has confirmed, and what for
    read,       \* the row a decision has read
    told,       \* history: decisions that were reported done
    requested, issued, outages      \* bounds used up

tableVars == <<pending, users, sessions>>
tabVars   == <<view, url, sent, cookie, doing, hand>>
adminVars == <<targets, act, read>>
countVars == <<requested, issued, outages>>
vars == <<tableVars, expired, dbUp, tabVars, adminVars, told, countVars>>

NoView   == [member |-> None, token |-> None]
NoRow    == [id |-> None, name |-> None, who |-> None]
Members  == {u.id : u \in users}
Named(table, n) == {r \in table : r.name = n}
TokenOf(s) == s[1]
MemberOf(s) == s[2]

(* The member a token stands for, None when its session is gone or expired. *)
Account(token) ==
    LET live == {s \in sessions : TokenOf(s) = token /\ token \notin expired
                                  /\ MemberOf(s) \in Members}
    IN  IF live = {} THEN None ELSE MemberOf(CHOOSE s \in live : TRUE)

(* Looking up an expired token deletes its row.                             *)
Purged(tokens) == {s \in sessions : TokenOf(s) \notin tokens \cap expired}

----------------------------------------------------------------------------
(* Sign-up.                                                                 *)

SignupCheck(t, p) ==
    /\ doing[t] = "idle" /\ view[t].member = None /\ dbUp
    /\ requested < MaxIds
    /\ Named(users, NameOf[p]) = {} /\ Named(pending, NameOf[p]) = {}
    /\ doing' = [doing EXCEPT ![t] = "signup"]
    /\ hand' = [hand EXCEPT ![t] = p]
    /\ UNCHANGED <<tableVars, expired, dbUp, view, url, sent, cookie, adminVars, told,
                   countVars>>

(* Mutant: a request for a name that waits already takes its place.         *)
QueuedOver(r) == {q \in pending : q.name # r.name} \cup {r}

(* The unique name of the table refuses a second request.                   *)
QueuedWith(r) == IF Named(pending, r.name) = {} THEN pending \cup {r} ELSE pending

SignupInsert(t) ==
    /\ doing[t] = "signup"
    /\ requested < MaxIds
    /\ pending' = IF dbUp
                  THEN QueuedWith([id |-> requested + 1, name |-> NameOf[hand[t]],
                                   who |-> hand[t]])
                  ELSE pending
    /\ requested' = requested + 1
    /\ doing' = [doing EXCEPT ![t] = "idle"]
    /\ hand' = [hand EXCEPT ![t] = None]
    /\ UNCHANGED <<users, sessions, expired, dbUp, view, url, sent, cookie, adminVars,
                   told, issued, outages>>

----------------------------------------------------------------------------
(* The user manager window.  The rows confirmed may be gone by the time     *)
(* they are worked off.                                                     *)

Confirm(a, what, rows) ==
    /\ targets[a] = {} /\ read[a] = NoRow
    /\ rows # {}
    /\ rows \subseteq IF what = "delete" THEN Members ELSE {r.id : r \in pending}
    /\ targets' = [targets EXCEPT ![a] = rows]
    /\ act' = [act EXCEPT ![a] = what]
    /\ UNCHANGED <<tableVars, expired, dbUp, tabVars, read, told, countVars>>

(* approve_signup and reject_signup look the request up.  Approval is       *)
(* refused when the name has a member already.                              *)
ReadRequest(a, i) ==
    /\ read[a] = NoRow
    /\ i \in targets[a] /\ act[a] # "delete"
    /\ targets' = [targets EXCEPT ![a] = @ \ {i}]
    /\ LET rows == {r \in pending : r.id = i}
           row  == CHOOSE r \in rows : TRUE
       IN  IF dbUp /\ rows # {} /\ (act[a] = "approve" => Named(users, row.name) = {})
           THEN read' = [read EXCEPT ![a] = row]
           ELSE UNCHANGED read
    /\ UNCHANGED <<tableVars, expired, dbUp, tabVars, act, told, countVars>>

(* Mutant: the account is made and the request stays.                       *)
ApproveKeepsRequest(a) ==
    /\ read[a] # NoRow /\ act[a] = "approve"
    /\ read' = [read EXCEPT ![a] = NoRow]
    /\ users' = users \cup {read[a]}
    /\ told' = told \cup {<<"approved", read[a].id>>}
    /\ UNCHANGED <<pending, sessions, expired, dbUp, tabVars, targets, act, countVars>>

(* The account is made and the request deleted in one transaction; the      *)
(* DELETE of a row that is gone meanwhile is no error.                      *)
Approve(a) ==
    /\ read[a] # NoRow /\ act[a] = "approve"
    /\ read' = [read EXCEPT ![a] = NoRow]
    /\ IF dbUp /\ Named(users, read[a].name) = {}
       THEN /\ users' = users \cup {read[a]}
            /\ pending' = pending \ {read[a]}
            /\ told' = told \cup {<<"approved", read[a].id>>}
       ELSE UNCHANGED <<users, pending, told>>
    /\ UNCHANGED <<sessions, expired, dbUp, tabVars, targets, act, countVars>>

Reject(a) ==
    /\ read[a] # NoRow /\ act[a] = "reject"
    /\ read' = [read EXCEPT ![a] = NoRow]
    /\ IF dbUp
       THEN /\ pending' = pending \ {read[a]}
            /\ told' = told \cup {<<"rejected", read[a].id>>}
       ELSE UNCHANGED <<pending, told>>
    /\ UNCHANGED <<users, sessions, expired, dbUp, tabVars, targets, act, countVars>>

(* Mutant: the sessions of a deleted member stay.                           *)
SessionsKept(i) == sessions

SessionsWithout(i) == {s \in sessions : MemberOf(s) # i}

DeleteUser(a, i) ==
    /\ i \in targets[a] /\ act[a] = "delete"
    /\ targets' = [targets EXCEPT ![a] = @ \ {i}]
    /\ IF dbUp /\ i \in Members
       THEN /\ sessions' = SessionsWithout(i)
            /\ users' = {u \in users : u.id # i}
       ELSE UNCHANGED <<sessions, users>>
    /\ UNCHANGED <<pending, expired, dbUp, tabVars, act, read, told, countVars>>

----------------------------------------------------------------------------
(* Login, the pages and logout.                                             *)

Authenticate(t, p) ==
    /\ doing[t] = "idle" /\ view[t].member = None /\ dbUp
    /\ issued < MaxTokens
    /\ \E u \in users : /\ u.name = NameOf[p] /\ u.who = p
                        /\ hand' = [hand EXCEPT ![t] = u.id]
    /\ doing' = [doing EXCEPT ![t] = "begin"]
    /\ UNCHANGED <<tableVars, expired, dbUp, view, url, sent, cookie, adminVars, told,
                   countVars>>

(* purge_expired_sessions and create_session.  No token comes of it when    *)
(* MySQL is away or the member has been deleted since (its row refers to    *)
(* app_user); the tab is logged in all the same.                            *)
BeginSession(t) ==
    /\ doing[t] = "begin"
    /\ issued < MaxTokens
    /\ LET ok == dbUp /\ hand[t] \in Members
           token == IF ok THEN issued + 1 ELSE None
       IN  /\ sessions' = IF ok THEN Purged(expired) \cup {<<token, hand[t]>>}
                          ELSE IF dbUp THEN Purged(expired) ELSE sessions
           /\ view' = [view EXCEPT ![t] = [member |-> hand[t], token |-> token]]
           /\ url' = IF ok THEN [url EXCEPT ![t] = token] ELSE url
           /\ issued' = IF ok THEN issued + 1 ELSE issued
    /\ doing' = [doing EXCEPT ![t] = "idle"]
    /\ hand' = [hand EXCEPT ![t] = None]
    /\ UNCHANGED <<pending, users, expired, dbUp, sent, cookie, adminVars, told, requested,
                   outages>>

(* _session_still_valid: a login without a token cannot be looked up, and   *)
(* a database that does not answer signs nobody out.                        *)
StillValid(v) == v.token = None \/ ~dbUp \/ Account(v.token) # None

(* _restore_session: the cookie first, then the token of the address.       *)
Restorable(t) ==
    LET works(token) == dbUp /\ token # None /\ Account(token) # None
    IN  CASE works(sent[t]) -> [member |-> Account(sent[t]), token |-> sent[t]]
          [] ~works(sent[t]) /\ works(url[t]) -> [member |-> Account(url[t]), token |-> url[t]]
          [] OTHER -> NoView

(* render_login_gate, and sync_browser_token when it lets the page through. *)
Render(t) ==
    /\ doing[t] = "idle"
    /\ LET stays == view[t].member # None /\ StillValid(view[t])
           next  == IF stays THEN view[t] ELSE Restorable(t)
           synced == HasCookies /\ next.token # None
       IN  /\ view' = [view EXCEPT ![t] = next]
           /\ url' = [url EXCEPT ![t] =
                        IF next = NoView \/ (synced /\ sent[t] = next.token) THEN None ELSE @]
           /\ cookie' = IF synced /\ sent[t] # next.token THEN next.token ELSE cookie
           /\ sessions' = IF dbUp
                          THEN Purged({view[t].token} \cup
                                      IF stays THEN {} ELSE {sent[t], url[t]})
                          ELSE sessions
    /\ UNCHANGED <<pending, users, expired, dbUp, sent, doing, hand, adminVars, told,
                   countVars>>

(* A reload, or a new tab, which has no token in its address.               *)
Reload(t, address) ==
    /\ doing[t] = "idle"
    /\ address \in {url[t], None}
    /\ view' = [view EXCEPT ![t] = NoView]
    /\ url' = [url EXCEPT ![t] = address]
    /\ sent' = [sent EXCEPT ![t] = cookie]
    /\ UNCHANGED <<tableVars, expired, dbUp, cookie, doing, hand, adminVars, told, countVars>>

(* Mutant: the session stays in the database.                               *)
RevokedNot(token) == sessions

Revoked(token) == IF dbUp THEN {s \in sessions : TokenOf(s) # token} ELSE sessions

(* Mutant: the token of the tab is not cleared.                             *)
SignedOutKeepsToken(v) == [v EXCEPT !.member = None]

SignedOut(v) == NoView

Logout(t) ==
    /\ doing[t] = "idle" /\ view[t].member # None
    /\ sessions' = Revoked(view[t].token)
    /\ told' = IF dbUp /\ view[t].token # None
               THEN told \cup {<<"logout", view[t].token>>} ELSE told
    /\ view' = [view EXCEPT ![t] = SignedOut(@)]
    /\ url' = [url EXCEPT ![t] = None]
    /\ cookie' = IF HasCookies THEN None ELSE cookie
    /\ UNCHANGED <<pending, users, expired, dbUp, sent, doing, hand, adminVars, countVars>>

----------------------------------------------------------------------------
(* Time and MySQL.                                                          *)

Expire(token) ==
    /\ token <= issued /\ token \notin expired
    /\ expired' = expired \cup {token}
    /\ UNCHANGED <<tableVars, dbUp, tabVars, adminVars, told, countVars>>

DbChanges ==
    /\ dbUp => outages < MaxOutages
    /\ dbUp' = ~dbUp
    /\ outages' = IF dbUp THEN outages + 1 ELSE outages
    /\ UNCHANGED <<tableVars, expired, tabVars, adminVars, told, requested, issued>>

Init ==
    /\ pending = {} /\ users = {} /\ sessions = {} /\ expired = {} /\ dbUp = TRUE
    /\ view = [t \in Tabs |-> NoView] /\ url = [t \in Tabs |-> None]
    /\ sent = [t \in Tabs |-> None] /\ cookie = None
    /\ doing = [t \in Tabs |-> "idle"] /\ hand = [t \in Tabs |-> None]
    /\ targets = [a \in Admins |-> {}] /\ act = [a \in Admins |-> "none"]
    /\ read = [a \in Admins |-> NoRow]
    /\ told = {} /\ requested = 0 /\ issued = 0 /\ outages = 0

Pages == \E t \in Tabs : \/ Render(t) \/ SignupInsert(t) \/ BeginSession(t) \/ Logout(t)
                         \/ \E p \in People : SignupCheck(t, p) \/ Authenticate(t, p)
                         \/ \E x \in Tokens \cup {None} : Reload(t, x)

Window == \E a \in Admins :
            \/ Approve(a) \/ Reject(a)
            \/ \E i \in Ids : ReadRequest(a, i) \/ DeleteUser(a, i)
            \/ \E what \in {"approve", "reject", "delete"}, rows \in SUBSET Ids :
                  Confirm(a, what, rows)

Next == Pages \/ Window \/ DbChanges \/ \E x \in Tokens : Expire(x)

Spec == Init /\ [][Next]_vars

----------------------------------------------------------------------------
(* A username has one member and waits once, and no session outlives its    *)
(* member.                                                                  *)
TablesAgree ==
    /\ \A u \in users : Named(users, u.name) = {u}
    /\ \A r \in pending : Named(pending, r.name) = {r}
    /\ \A s \in sessions : MemberOf(s) \in Members

(* A request the administrator was told is rejected never becomes a member, *)
(* and one that is approved is not rejected as well.                        *)
DecidedOnce ==
    \A i \in Ids : ~({<<"approved", i>>, <<"rejected", i>>} \subseteq told)

(* A request that waits is never replaced or lost: it leaves the table only *)
(* when an administrator is told of its approval or rejection.              *)
RequestsAreKept == [][\A r \in pending : r \in pending' \/ told' # told]_vars

(* While MySQL answers, a page with a token is drawn only for a member      *)
(* whose session is live: not logged out in another tab, not expired, the   *)
(* member not deleted.                                                      *)
DrawnForSessions ==
    [][\A t \in Tabs : Render(t) /\ dbUp /\ view'[t].token # None =>
          /\ <<view'[t].token, view'[t].member>> \in sessions'
          /\ view'[t].token \notin expired
          /\ <<"logout", view'[t].token>> \notin told
          /\ view'[t].member \in Members]_vars

=============================================================================
