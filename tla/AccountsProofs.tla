---------------------------- MODULE AccountsProofs ----------------------------
(* Theorems about Accounts, for any tabs, people, administrators and bounds.*)
EXTENDS Accounts, TLAPS

Types ==
    /\ pending \subseteq Requests /\ users \subseteq Requests
    /\ read \in [Admins -> Requests \cup {NoRow}]
    /\ sessions \subseteq Tokens \X Ids
    /\ view \in [Tabs -> [member : Ids \cup {None}, token : Tokens \cup {None}]]
    /\ doing \in [Tabs -> {"idle", "signup", "begin"}]
    /\ DOMAIN hand = Tabs
    /\ \A t \in Tabs : /\ doing[t] = "signup" => hand[t] \in People
                       /\ doing[t] = "begin" => hand[t] \in Ids
    /\ requested \in 0 .. MaxIds /\ issued \in 0 .. MaxTokens

(* The request with an id is one, wherever it is still held.                *)
RowsAreOne ==
    /\ \A r \in pending : r.id <= requested
    /\ \A a \in Admins : read[a] # NoRow => read[a].id <= requested
    /\ \A r, q \in pending : r.id = q.id => r = q
    /\ \A a \in Admins, r \in pending : read[a].id = r.id => read[a] = r

Decided(i) == <<"approved", i>> \in told \/ <<"rejected", i>> \in told

(* A request that was decided waits no longer.                              *)
DecidedIsGone ==
    \A i \in Ids : Decided(i) => i <= requested /\ \A r \in pending : r.id # i

(* A single administrator has no other decision on it in hand, and has not  *)
(* made one.                                                                *)
OneAdmin == \A a, b \in Admins : a = b
NotInHand == \A i \in Ids, a \in Admins : Decided(i) => read[a].id # i

(* A token stands for one member, in the table and in the tabs; one that    *)
(* was revoked stands for none.                                             *)
TokensAreOne ==
    /\ \A s \in sessions : TokenOf(s) <= issued
    /\ \A s, q \in sessions : TokenOf(s) = TokenOf(q) => s = q
    /\ \A t \in Tabs : view[t].token # None =>
           /\ view[t].token <= issued
           /\ \A s \in sessions : TokenOf(s) = view[t].token => MemberOf(s) = view[t].member
    /\ \A x \in Tokens : <<"logout", x>> \in told =>
           x <= issued /\ \A s \in sessions : TokenOf(s) # x

IInv == /\ Types /\ TablesAgree /\ RowsAreOne /\ DecidedIsGone
        /\ (OneAdmin => NotInHand /\ DecidedOnce) /\ TokensAreOne

(* The placeholders are no ids, tokens, people or rows. *)
LEMMA Constants ==
    /\ None \notin Ids /\ None \notin Tokens /\ None \notin People
    /\ NoRow \notin Requests /\ NoRow.id = None
    /\ NoView \in [member : Ids \cup {None}, token : Tokens \cup {None}]
    /\ MaxIds \in Nat /\ MaxTokens \in Nat
    /\ \A p \in People : NameOf[p] \in Names
  BY AccountsAssumption DEF NoRow, NoView, Requests, Ids, Tokens

(* Steps that leave the tables, the decisions and the counts alone; a tab   *)
(* may lose its login.                                                      *)
LEMMA QuietStep ==
    ASSUME IInv, UNCHANGED <<tableVars, read, told, requested, issued>>,
           \/ UNCHANGED view
           \/ \E t \in Tabs : view' = [view EXCEPT ![t] = NoView],
           doing' \in [Tabs -> {"idle", "signup", "begin"}], DOMAIN hand' = Tabs,
           \A t \in Tabs : /\ doing'[t] = "signup" => hand'[t] \in People
                           /\ doing'[t] = "begin" => hand'[t] \in Ids
    PROVE  IInv'
<1>1. /\ pending' = pending /\ users' = users /\ sessions' = sessions /\ read' = read
      /\ told' = told /\ requested' = requested /\ issued' = issued
  BY DEF tableVars
<1>2. /\ view' \in [Tabs -> [member : Ids \cup {None}, token : Tokens \cup {None}]]
      /\ \A t \in Tabs : view'[t] \in {view[t], NoView}
  <2>1. view \in [Tabs -> [member : Ids \cup {None}, token : Tokens \cup {None}]]
    BY DEF IInv, Types
  <2>2. CASE UNCHANGED view
    BY <2>1, <2>2
  <2>3. CASE \E t \in Tabs : view' = [view EXCEPT ![t] = NoView]
    BY <2>1, <2>3, Constants
  <2> QED
    BY <2>2, <2>3
<1>3. Types'
  BY <1>1, <1>2 DEF IInv, Types
<1>4. TablesAgree' /\ RowsAreOne' /\ DecidedIsGone'
  BY <1>1 DEF IInv, TablesAgree, RowsAreOne, DecidedIsGone, Decided, Members, Named
<1>5. OneAdmin => NotInHand' /\ DecidedOnce'
  BY <1>1 DEF IInv, NotInHand, DecidedOnce, Decided
<1>6. TokensAreOne'
  BY <1>1, <1>2 DEF IInv, TokensAreOne, NoView
<1> QED
  BY <1>3, <1>4, <1>5, <1>6 DEF IInv

(* The steps of that kind.                                                  *)
Quiet == \/ \E t \in Tabs : \/ \E p \in People : SignupCheck(t, p) \/ Authenticate(t, p)
                            \/ \E x \in Tokens \cup {None} : Reload(t, x)
         \/ \E a \in Admins, what \in {"approve", "reject", "delete"}, rows \in SUBSET Ids :
                Confirm(a, what, rows)
         \/ \E x \in Tokens : Expire(x)
         \/ DbChanges \/ UNCHANGED vars

(* Steps that decide nothing and begin no session keep the invariant. *)
LEMMA QuietSteps == ASSUME IInv, Quiet PROVE IInv'
<1> USE DEF tableVars, tabVars, adminVars, countVars, vars
<1>1. /\ doing \in [Tabs -> {"idle", "signup", "begin"}] /\ DOMAIN hand = Tabs
      /\ users \subseteq Requests
      /\ \A t \in Tabs : /\ doing[t] = "signup" => hand[t] \in People
                         /\ doing[t] = "begin" => hand[t] \in Ids
  BY DEF IInv, Types
<1>2. ASSUME NEW t \in Tabs, NEW p \in People, SignupCheck(t, p) PROVE IInv'
  <2>1. UNCHANGED <<tableVars, read, told, requested, issued, view>>
    BY <1>2 DEF SignupCheck
  <2>2. /\ doing' = [doing EXCEPT ![t] = "signup"] /\ DOMAIN hand' = DOMAIN hand
        /\ hand' = [hand EXCEPT ![t] = p]
    BY <1>2 DEF SignupCheck
  <2>3. \A s \in Tabs : IF s = t THEN doing'[s] = "signup" /\ hand'[s] = p
                        ELSE doing'[s] = doing[s] /\ hand'[s] = hand[s]
    BY <1>1, <2>2
  <2>4. doing' \in [Tabs -> {"idle", "signup", "begin"}]
    BY <1>1, <2>2
  <2>5. \A s \in Tabs : /\ doing'[s] = "signup" => hand'[s] \in People
                        /\ doing'[s] = "begin" => hand'[s] \in Ids
    BY <1>1, <2>3
  <2> QED
    BY <1>1, <2>1, <2>2, <2>4, <2>5, QuietStep
<1>3. ASSUME NEW t \in Tabs, NEW p \in People, Authenticate(t, p) PROVE IInv'
  <2>1. UNCHANGED <<tableVars, read, told, requested, issued, view>>
    BY <1>3 DEF Authenticate
  <2>2. PICK u \in users : hand' = [hand EXCEPT ![t] = u.id]
    BY <1>3 DEF Authenticate
  <2>3. doing' = [doing EXCEPT ![t] = "begin"] /\ DOMAIN hand' = DOMAIN hand /\ u.id \in Ids
    BY <1>1, <1>3, <2>2 DEF Authenticate, Requests
  <2>4. \A s \in Tabs : IF s = t THEN doing'[s] = "begin" /\ hand'[s] = u.id
                        ELSE doing'[s] = doing[s] /\ hand'[s] = hand[s]
    BY <1>1, <2>2, <2>3
  <2>5. doing' \in [Tabs -> {"idle", "signup", "begin"}]
    BY <1>1, <2>3
  <2>6. \A s \in Tabs : /\ doing'[s] = "signup" => hand'[s] \in People
                        /\ doing'[s] = "begin" => hand'[s] \in Ids
    BY <1>1, <2>3, <2>4
  <2> QED
    BY <1>1, <2>1, <2>3, <2>5, <2>6, QuietStep
<1>4. ASSUME NEW t \in Tabs, NEW x, Reload(t, x) PROVE IInv'
  BY <1>1, <1>4, QuietStep DEF Reload
<1>5. ASSUME NEW a \in Admins, NEW what, NEW rows, Confirm(a, what, rows) PROVE IInv'
  BY <1>1, <1>5, QuietStep DEF Confirm
<1>6. ASSUME NEW x \in Tokens, Expire(x) PROVE IInv'
  BY <1>1, <1>6, QuietStep DEF Expire
<1>7. ASSUME DbChanges PROVE IInv'
  BY <1>1, <1>7, QuietStep DEF DbChanges
<1>8. ASSUME UNCHANGED vars PROVE IInv'
  BY <1>1, <1>8, QuietStep
<1> QED
  BY <1>2, <1>3, <1>4, <1>5, <1>6, <1>7, <1>8 DEF Quiet

----------------------------------------------------------------------------
(* Requests and decisions.                                                  *)

(* Steps that leave sessions and logins alone.                              *)
LEMMA TokensStay ==
    ASSUME TokensAreOne, UNCHANGED <<sessions, view, issued>>,
           \A x \in Tokens : <<"logout", x>> \in told' => <<"logout", x>> \in told
    PROVE  TokensAreOne'
  BY DEF TokensAreOne

(* A sign-up that is inserted gets an id nobody had. *)
LEMMA SignupInsertStep == ASSUME IInv, NEW t \in Tabs, SignupInsert(t) PROVE IInv'
<1> DEFINE r == [id |-> requested + 1, name |-> NameOf[hand[t]], who |-> hand[t]]
<1>1. /\ doing[t] = "signup" /\ hand[t] \in People /\ requested \in Nat
      /\ requested' = requested + 1 /\ requested' \in 0 .. MaxIds /\ requested + 1 \in Ids
  BY Constants DEF IInv, Types, SignupInsert, Ids
<1>2. r \in Requests
  BY <1>1, Constants DEF Requests
<1>3. \/ pending' = pending
      \/ pending' = pending \cup {r} /\ \A q \in pending : q.name # r.name
  BY DEF SignupInsert, QueuedWith, Named
<1>4. /\ users' = users /\ sessions' = sessions /\ read' = read /\ told' = told
      /\ view' = view /\ issued' = issued
      /\ doing' = [doing EXCEPT ![t] = "idle"] /\ hand' = [hand EXCEPT ![t] = None]
  BY DEF SignupInsert, adminVars
<1>5. r.id = requested + 1
  OBVIOUS
<1> HIDE DEF r
<1>6. Types'
  <2>1. doing' \in [Tabs -> {"idle", "signup", "begin"}] /\ DOMAIN hand' = Tabs
    BY <1>4 DEF IInv, Types
  <2>2. \A s \in Tabs : /\ doing'[s] = "signup" => hand'[s] \in People
                        /\ doing'[s] = "begin" => hand'[s] \in Ids
    BY <1>4 DEF IInv, Types
  <2>3. pending' \subseteq Requests
    BY <1>2, <1>3 DEF IInv, Types
  <2> QED
    BY <1>1, <1>4, <2>1, <2>2, <2>3 DEF IInv, Types
<1>7. TablesAgree'
  <2>1. \A q \in pending' : Named(pending', q.name) = {q}
    BY <1>3 DEF IInv, TablesAgree, Named
  <2> QED
    BY <1>4, <2>1 DEF IInv, TablesAgree, Named, Members
<1>8. \A q \in pending : q.id \in Nat /\ q.id <= requested
  BY DEF IInv, Types, RowsAreOne, Requests, Ids
<1>9. \A a \in Admins : read[a] = NoRow \/ (read[a].id \in Nat /\ read[a].id <= requested)
  BY DEF IInv, Types, RowsAreOne, Requests, Ids
<1>10. RowsAreOne'
  <2>1. \A a \in Admins : read[a].id # r.id
    BY <1>1, <1>5, <1>9, Constants
  <2>2. \A q \in pending : q.id # r.id
    BY <1>1, <1>5, <1>8
  <2>3. \A q \in pending' : q.id <= requested'
    BY <1>1, <1>3, <1>5, <1>8
  <2>4. \A a \in Admins : read'[a] # NoRow => read'[a].id <= requested'
    BY <1>1, <1>4, <1>9
  <2> QED
    BY <1>3, <1>4, <2>1, <2>2, <2>3, <2>4 DEF IInv, RowsAreOne
<1>11. DecidedIsGone'
  <2>1. \A i \in Ids : Decided(i) => i <= requested' /\ i # r.id
    BY <1>1, <1>5 DEF IInv, DecidedIsGone, Ids
  <2> QED
    BY <1>3, <1>4, <2>1 DEF IInv, DecidedIsGone, Decided
<1>12. OneAdmin => NotInHand' /\ DecidedOnce'
  BY <1>4 DEF IInv, NotInHand, DecidedOnce, Decided
<1>13. TokensAreOne'
  BY <1>4, TokensStay DEF IInv
<1> QED
  BY <1>6, <1>7, <1>10, <1>11, <1>12, <1>13 DEF IInv

(* Reading a request keeps the invariant: the row is in the hands of the
   administrator as it is in the table. *)
LEMMA ReadStep ==
    ASSUME IInv, NEW a \in Admins, NEW i \in Ids, ReadRequest(a, i) PROVE IInv'
<1> DEFINE row == CHOOSE r \in {r \in pending : r.id = i} : TRUE
<1>1. /\ pending' = pending /\ users' = users /\ sessions' = sessions /\ told' = told
      /\ view' = view /\ issued' = issued /\ requested' = requested
      /\ doing' = doing /\ hand' = hand
  BY DEF ReadRequest, tableVars, tabVars, countVars
<1>2. \/ read' = read
      \/ read' = [read EXCEPT ![a] = row] /\ row \in pending /\ row.id = i
  BY DEF ReadRequest
<1> HIDE DEF row
<1>3. Types'
  BY <1>1, <1>2 DEF IInv, Types
<1>4. \A b \in Admins : read'[b] = read[b] \/ read'[b] \in pending
  BY <1>2 DEF IInv, Types
<1>5. TablesAgree' /\ DecidedIsGone'
  BY <1>1 DEF IInv, TablesAgree, DecidedIsGone, Decided, Members, Named
<1>6. RowsAreOne'
  BY <1>1, <1>4 DEF IInv, RowsAreOne
<1>7. OneAdmin => NotInHand' /\ DecidedOnce'
  BY <1>1, <1>4 DEF IInv, NotInHand, DecidedOnce, Decided, DecidedIsGone
<1>8. TokensAreOne'
  BY <1>1, TokensStay DEF IInv
<1> QED
  BY <1>3, <1>5, <1>6, <1>7, <1>8 DEF IInv

(* A decision takes the row in hand out of the waiting ones and is told.    *)
LEMMA Decides ==
    ASSUME IInv, NEW a \in Admins, read[a] # NoRow, NEW what \in {"approved", "rejected"},
           read' = [read EXCEPT ![a] = NoRow],
           \/ pending' = pending /\ told' = told
           \/ /\ pending' = pending \ {read[a]}
              /\ told' = told \cup {<<what, read[a].id>>},
           users' \subseteq users \cup {read[a]},
           UNCHANGED <<sessions, view, issued, requested, doing, hand>>
    PROVE  /\ Types' /\ RowsAreOne' /\ DecidedIsGone' /\ TokensAreOne'
           /\ OneAdmin => NotInHand' /\ DecidedOnce'
           /\ \A r \in pending : r \in pending' \/ told' # told
<1> DEFINE row == read[a]
<1>1. row \in Requests /\ row.id \in Ids /\ row.id <= requested
  BY DEF IInv, Types, RowsAreOne, Requests
<1>2. \A b \in Admins : read'[b] = IF b = a THEN NoRow ELSE read[b]
  BY DEF IInv, Types
<1>3. Types'
  BY <1>1 DEF IInv, Types
<1>4. RowsAreOne'
  BY <1>1, <1>2, Constants DEF IInv, RowsAreOne, Types, Requests
<1>5. \A i \in Ids : Decided(i)' => Decided(i) \/ (i = row.id /\ pending' = pending \ {row})
  BY DEF Decided
<1>6. DecidedIsGone'
  <2> SUFFICES ASSUME NEW i \in Ids, Decided(i)'
               PROVE  i <= requested' /\ \A r \in pending' : r.id # i
    BY DEF DecidedIsGone
  <2>1. CASE Decided(i)
    BY <2>1 DEF IInv, DecidedIsGone
  <2>2. CASE i = row.id /\ pending' = pending \ {row}
    BY <1>1, <2>2 DEF IInv, RowsAreOne
  <2> QED
    BY <1>5, <2>1, <2>2
<1>7. TokensAreOne'
  <2>1. \A x \in Tokens : <<"logout", x>> \in told' => <<"logout", x>> \in told
    OBVIOUS
  <2> QED
    BY <2>1, TokensStay DEF IInv
<1>8. ASSUME OneAdmin PROVE NotInHand' /\ DecidedOnce'
  <2>1. \A b \in Admins : read'[b] = NoRow
    BY <1>2, <1>8 DEF OneAdmin
  <2>2. NotInHand'
    BY <2>1, Constants DEF NotInHand
  <2>3. \A i \in Ids : Decided(i) => i # row.id
    BY <1>8 DEF IInv, NotInHand
  <2>4. DecidedOnce'
    BY <1>8, <2>3 DEF IInv, DecidedOnce, Decided
  <2> QED
    BY <2>2, <2>4
<1>9. \A r \in pending : r \in pending' \/ told' # told
  <2> SUFFICES ASSUME NEW r \in pending, r \notin pending' PROVE told' # told
    OBVIOUS
  <2>1. r = row /\ <<what, row.id>> \in told'
    OBVIOUS
  <2>2. ~Decided(row.id)
    BY <1>1, <2>1 DEF IInv, DecidedIsGone
  <2> QED
    BY <2>1, <2>2 DEF Decided
<1> QED
  BY <1>3, <1>4, <1>6, <1>7, <1>8, <1>9

(* An approval keeps the invariant; a request goes only with a decision that
   is recorded. *)
LEMMA ApproveStep ==
    ASSUME IInv, NEW a \in Admins, Approve(a)
    PROVE  IInv' /\ \A r \in pending : r \in pending' \/ told' # told
<1> USE DEF tabVars, countVars
<1>1. /\ Types' /\ RowsAreOne' /\ DecidedIsGone' /\ TokensAreOne'
      /\ OneAdmin => NotInHand' /\ DecidedOnce'
      /\ \A r \in pending : r \in pending' \/ told' # told
  <2>1. users' \subseteq users \cup {read[a]}
    BY DEF Approve
  <2>2. \/ pending' = pending /\ told' = told
        \/ /\ pending' = pending \ {read[a]}
           /\ told' = told \cup {<<"approved", read[a].id>>}
    BY DEF Approve
  <2> QED
    BY <2>1, <2>2, Decides DEF Approve
<1>2. TablesAgree'
  <2>1. \/ users' = users /\ pending' = pending
        \/ /\ users' = users \cup {read[a]} /\ Named(users, read[a].name) = {}
           /\ pending' \subseteq pending
    BY DEF Approve
  <2>2. \A u \in users' : Named(users', u.name) = {u}
    BY <2>1 DEF IInv, TablesAgree, Named
  <2>3. \A r \in pending' : Named(pending', r.name) = {r}
    BY <2>1 DEF IInv, TablesAgree, Named
  <2>4. \A s \in sessions' : MemberOf(s) \in Members'
    BY <2>1 DEF IInv, TablesAgree, Members, Approve
  <2> QED
    BY <2>2, <2>3, <2>4 DEF TablesAgree
<1> QED
  BY <1>1, <1>2 DEF IInv

(* A rejection keeps the invariant; a request goes only with a decision that
   is recorded. *)
LEMMA RejectStep ==
    ASSUME IInv, NEW a \in Admins, Reject(a)
    PROVE  IInv' /\ \A r \in pending : r \in pending' \/ told' # told
<1> USE DEF tabVars, countVars
<1>1. /\ Types' /\ RowsAreOne' /\ DecidedIsGone' /\ TokensAreOne'
      /\ OneAdmin => NotInHand' /\ DecidedOnce'
      /\ \A r \in pending : r \in pending' \/ told' # told
  <2>1. \/ pending' = pending /\ told' = told
        \/ /\ pending' = pending \ {read[a]}
           /\ told' = told \cup {<<"rejected", read[a].id>>}
    BY DEF Reject
  <2> QED
    BY <2>1, Decides DEF Reject
<1>2. TablesAgree'
  BY DEF IInv, TablesAgree, Members, Named, Reject
<1> QED
  BY <1>1, <1>2 DEF IInv

(* Deleting a member takes the sessions along and keeps the invariant. *)
LEMMA DeleteStep ==
    ASSUME IInv, NEW a \in Admins, NEW i \in Ids, DeleteUser(a, i) PROVE IInv'
<1>1. /\ pending' = pending /\ told' = told /\ read' = read /\ view' = view
      /\ issued' = issued /\ requested' = requested /\ doing' = doing /\ hand' = hand
  BY DEF DeleteUser, tabVars, countVars
<1>2. /\ sessions' \subseteq sessions /\ users' \subseteq users
      /\ \A s \in sessions' : MemberOf(s) \in Members'
  <2>1. CASE sessions' = SessionsWithout(i) /\ users' = {u \in users : u.id # i}
    BY <2>1 DEF IInv, TablesAgree, Members, SessionsWithout
  <2>2. CASE UNCHANGED <<sessions, users>>
    BY <2>2 DEF IInv, TablesAgree, Members
  <2> QED
    BY <2>1, <2>2 DEF DeleteUser
<1>3. Types'
  BY <1>1, <1>2 DEF IInv, Types
<1>4. TablesAgree'
  BY <1>1, <1>2 DEF IInv, TablesAgree, Named
<1>5. RowsAreOne' /\ DecidedIsGone'
  BY <1>1 DEF IInv, RowsAreOne, DecidedIsGone, Decided
<1>6. OneAdmin => NotInHand' /\ DecidedOnce'
  BY <1>1 DEF IInv, NotInHand, DecidedOnce, Decided
<1>7. TokensAreOne'
  BY <1>1, <1>2 DEF IInv, TokensAreOne
<1> QED
  BY <1>3, <1>4, <1>5, <1>6, <1>7 DEF IInv

----------------------------------------------------------------------------
(* Sessions.                                                                *)

(* Steps that leave requests, members and decisions alone.                  *)
LEMMA RequestsStay ==
    ASSUME IInv, UNCHANGED <<pending, users, read, requested>>,
           \A i \in Ids : Decided(i)' => Decided(i),
           \A i \in Ids, w \in {"approved", "rejected"} :
               <<w, i>> \in told' => <<w, i>> \in told,
           \A s \in sessions' : MemberOf(s) \in Members
    PROVE  TablesAgree' /\ RowsAreOne' /\ DecidedIsGone' /\ (OneAdmin => NotInHand' /\ DecidedOnce')
  BY DEF IInv, TablesAgree, RowsAreOne, DecidedIsGone, NotInHand, DecidedOnce, Members, Named

(* A session begins with a token nobody had. *)
LEMMA BeginStep == ASSUME IInv, NEW t \in Tabs, BeginSession(t) PROVE IInv'
<1> DEFINE ok == dbUp /\ hand[t] \in Members
           token == IF ok THEN issued + 1 ELSE None
<1>1. /\ pending' = pending /\ users' = users /\ read' = read /\ told' = told
      /\ requested' = requested
      /\ doing' = [doing EXCEPT ![t] = "idle"] /\ hand' = [hand EXCEPT ![t] = None]
      /\ issued \in Nat /\ issued + 1 \in Tokens /\ hand[t] \in Ids
  BY Constants DEF BeginSession, adminVars, IInv, Types, Tokens
<1>2. /\ view' = [view EXCEPT ![t] = [member |-> hand[t], token |-> token]]
      /\ issued' = IF ok THEN issued + 1 ELSE issued
      /\ sessions' \subseteq sessions \cup (IF ok THEN {<<issued + 1, hand[t]>>} ELSE {})
  BY DEF BeginSession, Purged
<1>3. view'[t] = [member |-> hand[t], token |-> token]
      /\ \A s \in Tabs : s # t => view'[s] = view[s]
  BY <1>2 DEF IInv, Types
<1> HIDE DEF ok
<1>4. Types'
  <2>1. sessions' \subseteq Tokens \X Ids
    BY <1>1, <1>2 DEF IInv, Types
  <2>2. view' \in [Tabs -> [member : Ids \cup {None}, token : Tokens \cup {None}]]
    BY <1>1, <1>2 DEF IInv, Types
  <2>3. issued' \in 0 .. MaxTokens
    BY <1>1, <1>2, Constants DEF IInv, Types, Tokens
  <2>4. doing' \in [Tabs -> {"idle", "signup", "begin"}] /\ DOMAIN hand' = Tabs
    BY <1>1 DEF IInv, Types
  <2>5. \A s \in Tabs : /\ doing'[s] = "signup" => hand'[s] \in People
                        /\ doing'[s] = "begin" => hand'[s] \in Ids
    BY <1>1 DEF IInv, Types
  <2> QED
    BY <1>1, <2>1, <2>2, <2>3, <2>4, <2>5 DEF IInv, Types
<1>5. \A s \in sessions' : MemberOf(s) \in Members
  <2>1. ok => hand[t] \in Members
    BY DEF ok
  <2> QED
    BY <1>2, <2>1 DEF IInv, TablesAgree, MemberOf
<1>6. TablesAgree' /\ RowsAreOne' /\ DecidedIsGone' /\ (OneAdmin => NotInHand' /\ DecidedOnce')
  BY <1>1, <1>5, RequestsStay DEF Decided
<1>7. TokensAreOne'
  <2>1. \A s \in sessions : TokenOf(s) \in Nat /\ TokenOf(s) <= issued
    BY DEF IInv, Types, TokensAreOne, TokenOf, Tokens
  <2>2. \A x \in Tokens : <<"logout", x>> \in told => x # issued + 1
    BY <1>1 DEF IInv, TokensAreOne, Tokens
  <2>3. \A s \in Tabs : view[s].token # None => view[s].token \in Nat /\ view[s].token <= issued
    BY DEF IInv, Types, TokensAreOne, Tokens
  <2>4. CASE ok
    <3>1. /\ sessions' \subseteq sessions \cup {<<issued + 1, hand[t]>>}
          /\ issued' = issued + 1 /\ token = issued + 1
      BY <1>2, <2>4
    <3>2. /\ TokenOf(<<issued + 1, hand[t]>>) = issued + 1
          /\ MemberOf(<<issued + 1, hand[t]>>) = hand[t]
      BY DEF TokenOf, MemberOf
    <3>3. /\ \A s \in sessions' : TokenOf(s) <= issued'
          /\ \A s, q \in sessions' : TokenOf(s) = TokenOf(q) => s = q
      BY <1>1, <2>1, <3>1, <3>2 DEF IInv, TokensAreOne
    <3>4. \A s \in Tabs : view'[s].token # None =>
              /\ view'[s].token <= issued'
              /\ \A q \in sessions' : TokenOf(q) = view'[s].token => MemberOf(q) = view'[s].member
      BY <1>1, <1>3, <2>1, <2>3, <3>1, <3>2 DEF IInv, TokensAreOne
    <3>5. \A x \in Tokens : <<"logout", x>> \in told' =>
              x <= issued' /\ \A s \in sessions' : TokenOf(s) # x
      BY <1>1, <2>2, <3>1, <3>2 DEF IInv, TokensAreOne, Tokens
    <3> QED
      BY <3>3, <3>4, <3>5 DEF TokensAreOne
  <2>5. CASE ~ok
    <3>1. sessions' \subseteq sessions /\ issued' = issued /\ token = None
      BY <1>2, <2>5
    <3> QED
      BY <1>1, <1>3, <3>1 DEF IInv, TokensAreOne
  <2> QED
    BY <2>4, <2>5
<1> QED
  BY <1>4, <1>6, <1>7 DEF IInv

(* The member a token stands for is that of its session.                    *)
LEMMA AccountFacts ==
    ASSUME IInv, NEW x, Account(x) # None
    PROVE  /\ <<x, Account(x)>> \in sessions /\ x \notin expired
           /\ Account(x) \in Members /\ x \in Tokens /\ Account(x) \in Ids
           /\ \A s \in sessions : TokenOf(s) = x => s = <<x, Account(x)>>
<1> DEFINE live == {s \in sessions : TokenOf(s) = x /\ x \notin expired
                                      /\ MemberOf(s) \in Members}
           s == CHOOSE q \in live : TRUE
<1>1. s \in live /\ Account(x) = MemberOf(s)
  BY DEF Account
<1> HIDE DEF s
<1>2. s = <<TokenOf(s), MemberOf(s)>> /\ TokenOf(s) \in Tokens /\ MemberOf(s) \in Ids
  BY <1>1 DEF IInv, Types, TokenOf, MemberOf
<1> QED
  BY <1>1, <1>2 DEF IInv, TokensAreOne

(* A run of the page script keeps the invariant, and a page that is drawn for
   a session while MySQL answers has a row for it that nobody logged out of. *)
LEMMA RenderStep == 
    ASSUME IInv, NEW t \in Tabs, Render(t)
    PROVE  /\ IInv'
           /\ dbUp /\ view'[t].token # None =>
                 /\ <<view'[t].token, view'[t].member>> \in sessions'
                 /\ view'[t].token \notin expired
                 /\ <<"logout", view'[t].token>> \notin told
                 /\ view'[t].member \in Members
<1> DEFINE stays == view[t].member # None /\ StillValid(view[t])
           next == IF stays THEN view[t] ELSE Restorable(t)
<1>1. /\ pending' = pending /\ users' = users /\ read' = read /\ told' = told
      /\ requested' = requested /\ issued' = issued /\ doing' = doing /\ hand' = hand
      /\ view' = [view EXCEPT ![t] = next]
      /\ \/ sessions' = sessions
         \/ \E T : sessions' = Purged(T)
  BY DEF Render, adminVars, countVars
<1>2. /\ sessions' \subseteq sessions
      /\ \A s \in sessions : TokenOf(s) \notin expired => s \in sessions'
  BY <1>1 DEF Purged
<1>3. \/ next = view[t] /\ StillValid(view[t])
      \/ next = NoView
      \/ \E x : Account(x) # None /\ next = [member |-> Account(x), token |-> x]
  <2>1. CASE stays
    BY <2>1
  <2>2. CASE ~stays
    BY <2>2 DEF Restorable
  <2> QED
    BY <2>1, <2>2
<1> HIDE DEF next
<1>4. view'[t] = next /\ \A s \in Tabs : s # t => view'[s] = view[s]
  BY <1>1 DEF IInv, Types
<1>5. /\ next \in [member : Ids \cup {None}, token : Tokens \cup {None}]
      /\ next.token # None =>
            /\ next.token <= issued
            /\ \A s \in sessions : TokenOf(s) = next.token => MemberOf(s) = next.member
  <2>1. CASE next = view[t]
    BY <2>1 DEF IInv, Types, TokensAreOne
  <2>2. CASE next = NoView
    BY <2>2, Constants DEF NoView
  <2>3. ASSUME NEW x, Account(x) # None, next = [member |-> Account(x), token |-> x]
        PROVE  /\ next \in [member : Ids \cup {None}, token : Tokens \cup {None}]
               /\ next.token <= issued
               /\ \A s \in sessions : TokenOf(s) = next.token => MemberOf(s) = next.member
    <3>1. /\ <<x, Account(x)>> \in sessions /\ x \in Tokens /\ Account(x) \in Ids
          /\ \A s \in sessions : TokenOf(s) = x => s = <<x, Account(x)>>
      BY <2>3, AccountFacts
    <3> QED
      BY <2>3, <3>1 DEF IInv, TokensAreOne, TokenOf, MemberOf
  <2> QED
    BY <1>3, <2>1, <2>2, <2>3
<1>6. Types'
  <2>1. view' \in [Tabs -> [member : Ids \cup {None}, token : Tokens \cup {None}]]
    BY <1>1, <1>5 DEF IInv, Types
  <2> QED
    BY <1>1, <1>2, <2>1 DEF IInv, Types
<1>7. \A s \in sessions' : MemberOf(s) \in Members
  BY <1>2 DEF IInv, TablesAgree
<1>8. TablesAgree' /\ RowsAreOne' /\ DecidedIsGone' /\ (OneAdmin => NotInHand' /\ DecidedOnce')
  BY <1>1, <1>7, RequestsStay DEF Decided
<1>9. TokensAreOne'
  BY <1>1, <1>2, <1>4, <1>5 DEF IInv, TokensAreOne
<1>10. ASSUME dbUp, next.token # None
       PROVE  /\ <<next.token, next.member>> \in sessions' /\ next.token \notin expired
              /\ <<"logout", next.token>> \notin told /\ next.member \in Members
  <2>1. PICK x : Account(x) # None /\ next.token = x
    BY <1>3, <1>10 DEF StillValid, NoView
  <2>2. /\ <<x, Account(x)>> \in sessions /\ x \notin expired /\ x \in Tokens
        /\ Account(x) \in Members
    BY <2>1, AccountFacts
  <2>3. next.member = Account(x) /\ TokenOf(<<x, Account(x)>>) = x
    BY <1>5, <1>10, <2>1, <2>2 DEF TokenOf, MemberOf
  <2>4. <<"logout", x>> \notin told
    BY <2>2, <2>3 DEF IInv, TokensAreOne
  <2> QED
    BY <1>2, <2>1, <2>2, <2>3, <2>4
<1> QED
  BY <1>4, <1>6, <1>8, <1>9, <1>10 DEF IInv

(* A logout removes the session of its token and keeps the invariant. *)
LEMMA LogoutStep == ASSUME IInv, NEW t \in Tabs, Logout(t) PROVE IInv'
<1> DEFINE x == view[t].token
<1>1. /\ pending' = pending /\ users' = users /\ read' = read
      /\ requested' = requested /\ issued' = issued /\ doing' = doing /\ hand' = hand
      /\ view' = [view EXCEPT ![t] = NoView] /\ sessions' = Revoked(x)
      /\ told' = IF dbUp /\ x # None THEN told \cup {<<"logout", x>>} ELSE told
  BY DEF Logout, adminVars, countVars, SignedOut
<1>2. /\ sessions' \subseteq sessions
      /\ dbUp => \A s \in sessions' : TokenOf(s) # x
  BY <1>1 DEF Revoked
<1>3. view'[t] = NoView /\ \A s \in Tabs : s # t => view'[s] = view[s]
  BY <1>1 DEF IInv, Types
<1>4. Types'
  BY <1>1, <1>2, Constants DEF IInv, Types
<1>5. TablesAgree' /\ RowsAreOne' /\ DecidedIsGone' /\ (OneAdmin => NotInHand' /\ DecidedOnce')
  <2>1. \A i \in Ids, w \in {"approved", "rejected"} : <<w, i>> \in told' => <<w, i>> \in told
    BY <1>1
  <2> QED
    BY <1>1, <1>2, <2>1, RequestsStay DEF IInv, TablesAgree, Decided
<1>6. TokensAreOne'
  <2>1. \A y \in Tokens : <<"logout", y>> \in told' =>
            y <= issued' /\ \A s \in sessions' : TokenOf(s) # y
    <3> SUFFICES ASSUME NEW y \in Tokens, <<"logout", y>> \in told'
                 PROVE  y <= issued /\ \A s \in sessions' : TokenOf(s) # y
      BY <1>1
    <3>1. CASE <<"logout", y>> \in told
      BY <1>2, <3>1 DEF IInv, TokensAreOne
    <3>2. CASE dbUp /\ y = x /\ x # None
      BY <1>2, <3>2 DEF IInv, TokensAreOne
    <3> QED
      BY <1>1, <3>1, <3>2
  <2> QED
    BY <1>1, <1>2, <1>3, <2>1 DEF IInv, TokensAreOne, NoView
<1> QED
  BY <1>4, <1>5, <1>6 DEF IInv

----------------------------------------------------------------------------
(* The theorems.                                                            *)

(* The invariant holds with empty tables. *)
LEMMA Initially == Init => IInv
<1> SUFFICES ASSUME Init PROVE IInv
  OBVIOUS
<1>1. Types
  BY Constants DEF Init, Types
<1>2. TablesAgree /\ RowsAreOne /\ DecidedIsGone /\ NotInHand /\ DecidedOnce
  BY DEF Init, TablesAgree, RowsAreOne, DecidedIsGone, NotInHand, DecidedOnce, Decided
<1>3. TokensAreOne
  BY DEF Init, TokensAreOne, NoView
<1> QED
  BY <1>1, <1>2, <1>3 DEF IInv

(* Every step keeps IInv, and only a decision takes a request away.         *)
LEMMA Step ==
    ASSUME IInv, [Next]_vars
    PROVE  IInv' /\ \A r \in pending : r \in pending' \/ told' # told
<1>1. CASE Quiet
  <2>1. pending' = pending
    BY <1>1 DEF Quiet, SignupCheck, Authenticate, Reload, Confirm, Expire, DbChanges,
                tableVars, vars
  <2> QED
    BY <1>1, <2>1, QuietSteps
<1>2. ASSUME NEW t \in Tabs, SignupInsert(t) \/ BeginSession(t) \/ Render(t) \/ Logout(t)
      PROVE  IInv' /\ \A r \in pending : r \in pending' \/ told' # told
  <2>1. pending \subseteq pending'
    BY <1>2 DEF SignupInsert, QueuedWith, BeginSession, Render, Logout
  <2> QED
    BY <1>2, <2>1, SignupInsertStep, BeginStep, RenderStep, LogoutStep
<1>3. ASSUME NEW a \in Admins, Approve(a) \/ Reject(a)
      PROVE  IInv' /\ \A r \in pending : r \in pending' \/ told' # told
  BY <1>3, ApproveStep, RejectStep
<1>4. ASSUME NEW a \in Admins, NEW i \in Ids, ReadRequest(a, i) \/ DeleteUser(a, i)
      PROVE  IInv' /\ \A r \in pending : r \in pending' \/ told' # told
  <2>1. pending' = pending
    BY <1>4 DEF ReadRequest, DeleteUser, tableVars
  <2> QED
    BY <1>4, <2>1, ReadStep, DeleteStep
<1> QED
  BY <1>1, <1>2, <1>3, <1>4 DEF Next, Pages, Window, Quiet

(* IInv is an invariant.                                                    *)
THEOREM Invariant == Spec => []IInv
<1>1. Init => IInv
  BY Initially
<1>2. IInv /\ [Next]_vars => IInv'
  BY Step
<1> QED
  BY <1>1, <1>2, PTL DEF Spec

(* However sign-ups and decisions interleave, a name has one member and one *)
(* request, and no session outlives its member.                             *)
THEOREM TablesStayTogether == Spec => []TablesAgree
<1>1. IInv => TablesAgree
  BY DEF IInv
<1> QED
  BY <1>1, Invariant, PTL

(* A single administrator never has a request both approved and rejected.   *)
THEOREM OneDecision == ASSUME OneAdmin PROVE Spec => []DecidedOnce
<1>1. IInv => DecidedOnce
  BY DEF IInv
<1> QED
  BY <1>1, Invariant, PTL

(* However many administrators decide, a request leaves the table only when *)
(* one of them is told so.                                                  *)
THEOREM RequestsStayWaiting == Spec => RequestsAreKept
<1>1. IInv /\ [Next]_vars => [\A r \in pending : r \in pending' \/ told' # told]_vars
  BY Step
<1> QED
  BY <1>1, Invariant, PTL DEF Spec, RequestsAreKept

(* While MySQL answers, a page with a token is drawn for a live session.    *)
THEOREM PagesAreDrawnForSessions == Spec => DrawnForSessions
<1>1. IInv /\ [Next]_vars =>
          [\A t \in Tabs : Render(t) /\ dbUp /\ view'[t].token # None =>
              /\ <<view'[t].token, view'[t].member>> \in sessions'
              /\ view'[t].token \notin expired
              /\ <<"logout", view'[t].token>> \notin told
              /\ view'[t].member \in Members]_vars
  BY RenderStep
<1> QED
  BY <1>1, Invariant, PTL DEF Spec, DrawnForSessions
=============================================================================
