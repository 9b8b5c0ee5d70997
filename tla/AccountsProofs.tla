--------------------------- MODULE AccountsProofs ---------------------------
(* Safety of accounts, identities and roles, for any number of accounts,   *)
(* subjects, browsers and overlapping requests.                            *)
EXTENDS Accounts, TLAPS

-----------------------------------------------------------------------------
(* What a request holds is of its type, and claims are those asserted.     *)
Nameless == {"idle", "redirect"}
Claiming == {"callback", "link", "provision", "adopt"}
OfSubject == Claiming \cup {"linked", "signin", "synced", "unlink"}

Holds(r) ==
    /\ req[r].at # "idle" => req[r].in \in Browser
    /\ req[r].at \notin Nameless => req[r].who \in User
    /\ req[r].at \in OfSubject => req[r].sub \in Subject
    /\ req[r].at \in Claiming => <<req[r].sub, req[r].who>> \in Claim

TypeInv == TypeOK /\ \A r \in Request : Holds(r)

(* An account that may be linked: a password it has was confirmed.         *)
Linkable(u) == row[u].exists /\ (row[u].password => u \in proved)

Linking(r) ==
    /\ req[r].jar.link # None => Linkable(req[r].jar.link)
    /\ req[r].at = "link" => Linkable(req[r].who)
    /\ req[r].at = "adopt" => row[req[r].who].exists /\ ~row[req[r].who].password

LinkInv ==
    /\ \A s \in Subject : identity[s] # None =>
          Linkable(identity[s]) /\ <<s, identity[s]>> \in Claim
    /\ \A b \in Browser : session[b].link # None => Linkable(session[b].link)
    /\ \A r \in Request : Linking(r)

(* An unlink request that met no other leaves a way to sign in.            *)
LeavesOne(r) ==
    /\ \/ row[req[r].who].password
       \/ \E t \in Subject \ {req[r].sub} : identity[t] = req[r].who
    /\ \A q \in Request :
          req[q].at = "unlink" /\ req[q].who = req[r].who => req[q].sub = req[r].sub

UnlinkInv ==
    \A r \in Request : req[r].at = "unlink" =>
        /\ identity[req[r].sub] = req[r].who
        /\ row[req[r].who].exists
        /\ req[r].alone => LeavesOne(r)

(* The administrator of a request that met no other is one still, and it   *)
(* takes nothing from them.                                                *)
Changing(r) ==
    /\ row[req[r].who].exists
    /\ req[r].jar.user \in User
    /\ req[r].who = req[r].jar.user => req[r].set
    /\ req[r].alone =>
          /\ Usable(req[r].jar.user)
          /\ row[req[r].jar.user].admin
          /\ Administrating = {r}

AdminInv == \A r \in Administrating : Changing(r)

IInv == TypeInv /\ LinkInv /\ UnlinkInv /\ AdminInv

-----------------------------------------------------------------------------
LEMMA RowTypes ==
    /\ Absent \in Rows
    /\ Nobody \in Cookies
    /\ Idle \in Requests
    /\ \A u \in User, p \in BOOLEAN : NewAccount(u, p) \in Rows
BY AccountsAssumption
   DEF Absent, Nobody, Idle, NewAccount, Rows, Cookies, Requests, Steps

LEMMA TypeInit == Init => TypeInv
BY RowTypes DEF Init, TypeInv, TypeOK, Holds, Idle, OfSubject, Claiming, Nameless

(* The UPDATE of a promotion gives rows, and leaves all but the role.      *)
LEMMA PromotedRows ==
    ASSUME TypeOK, NEW r \in Request
    PROVE  /\ Promoted(r) \in [User -> Rows]
           /\ \A u \in User : /\ Promoted(r)[u].exists = row[u].exists
                              /\ Promoted(r)[u].password = row[u].password
                              /\ Promoted(r)[u].active = row[u].active
                              /\ row[u].admin => Promoted(r)[u].admin
<1> DEFINE v == req[r].who
<1>1. row \in [User -> Rows]
  BY DEF TypeOK
<1>2. CASE v \in Bootstrap /\ ~req[r].old.admin
  <2>1. Promoted(r) = [row EXCEPT ![v].admin = TRUE]
    BY <1>2 DEF Promoted
  <2>2. v \in User
    BY <1>2, AccountsAssumption
  <2>3. [row[v] EXCEPT !.admin = TRUE] \in Rows
    BY <1>1, <2>2 DEF Rows
  <2>4. QED
    BY <1>1, <2>1, <2>2, <2>3 DEF Rows
<1>3. CASE ~(v \in Bootstrap /\ ~req[r].old.admin)
  BY <1>1, <1>3 DEF Promoted
<1>4. QED
  BY <1>2, <1>3

-----------------------------------------------------------------------------
(* One action at a time: the type, and what the request holds.             *)
LEMMA LoadType ==
    ASSUME TypeInv, NEW r \in Request, NEW b \in Browser, NEW u \in User,
           NEW at \in {"signup", "login"}, Load(r, b, at, u)
    PROVE  TypeInv'
<1> DEFINE new == [Idle EXCEPT !.at = at, !.in = b, !.who = u, !.old = row[u],
                               !.jar = [session[b] EXCEPT !.user = u]]
<1>1. new \in Requests
  BY RowTypes DEF TypeInv, TypeOK, Requests, Cookies, Steps, Idle
<1>2. req' = [req EXCEPT ![r] = new]
  BY DEF Load
<1>3. TypeOK'
  BY <1>1, <1>2 DEF Load, TypeInv, TypeOK, tables
<1>4. \A q \in Request : Holds(q)'
  BY <1>2 DEF TypeInv, TypeOK, Holds, Idle, OfSubject, Claiming, Nameless
<1>5. QED
  BY <1>3, <1>4 DEF TypeInv

(* A request that is over, with tables and cookies of their types.         *)
LEMMA OverType ==
    ASSUME TypeInv, NEW over \in SUBSET Request,
           req' = [q \in Request |-> IF q \in over THEN Idle ELSE req[q]],
           row' \in [User -> Rows],
           identity' \in [Subject -> User \cup {None}],
           session' \in [Browser -> Cookies],
           proved' \subseteq User
    PROVE  TypeInv'
<1>1. TypeOK'
  BY RowTypes DEF TypeInv, TypeOK
<1>2. \A q \in Request : Holds(q)'
  BY DEF TypeInv, TypeOK, Holds, Idle, OfSubject, Claiming, Nameless
<1>3. QED
  BY <1>1, <1>2 DEF TypeInv

LEMMA OneOverType ==
    ASSUME TypeInv, NEW r \in Request,
           req' = [req EXCEPT ![r] = Idle],
           row' \in [User -> Rows],
           identity' \in [Subject -> User \cup {None}],
           session' \in [Browser -> Cookies],
           proved' \subseteq User
    PROVE  TypeInv'
<1>1. req' = [q \in Request |-> IF q \in {r} THEN Idle ELSE req[q]]
  BY DEF TypeInv, TypeOK
<1>2. {r} \in SUBSET Request
  OBVIOUS
<1>3. QED
  BY <1>1, <1>2, OverType

LEMMA AnswerType ==
    ASSUME TypeInv, NEW r \in Request, NEW c \in Cookies, Answer(r, c)
    PROVE  /\ session' \in [Browser -> Cookies]
           /\ req' = [req EXCEPT ![r] = Idle]
BY DEF TypeInv, TypeOK, Answer

LEMMA AnswerAsType ==
    ASSUME TypeInv, NEW r \in Request, req[r].at \notin Nameless, AnswerAs(r, req[r].who)
    PROVE  /\ session' \in [Browser -> Cookies]
           /\ req' = [req EXCEPT ![r] = Idle]
<1>1. [req[r].jar EXCEPT !.user = req[r].who] \in Cookies
  BY DEF TypeInv, TypeOK, Requests, Cookies, Holds, Nameless
<1>2. QED
  BY <1>1, AnswerType DEF AnswerAs

LEMMA StagedType ==
    ASSUME TypeInv, NEW r \in Request, NEW users \in [User -> Rows], Staged(r, users)
    PROVE  /\ req[r].at \in {"signin", "adopt", "provision"}
           /\ row' \in [User -> Rows]
           /\ identity' \in [Subject -> User \cup {None}]
<1>1. req[r].at \in {"signin", "adopt", "provision"}
  BY DEF Staged
<1>2. req[r].who \in User
  BY <1>1 DEF TypeInv, Holds, Nameless
<1>3. NewAccount(req[r].who, FALSE) \in Rows
  BY <1>2, RowTypes
<1>4. QED
  BY <1>1, <1>2, <1>3 DEF Staged, TypeInv, TypeOK

(* A request that goes on, in the same browser and for the same subject.   *)
LEMMA GotoType ==
    ASSUME TypeInv, NEW r \in Request, NEW u \in User, NEW old \in Rows,
           NEW at \in {"link", "linked", "signin", "provision", "adopt"},
           req[r].at = "callback", Goto(r, at, u, old),
           at \in {"link", "provision", "adopt"} => <<req[r].sub, u>> \in Claim
    PROVE  TypeInv'
<1> DEFINE new == [req[r] EXCEPT !.at = at, !.who = u, !.old = old,
                                 !.jar = [user |-> u, link |-> None]]
<1>1. new \in Requests
  BY DEF TypeInv, TypeOK, Requests, Cookies, Steps
<1>2. req' = [req EXCEPT ![r] = new]
  BY DEF Goto, TypeInv, TypeOK, Requests
<1>3. TypeOK'
  BY <1>1, <1>2 DEF Goto, TypeInv, TypeOK, tables
<1>4. new.at = at /\ new.who = u /\ new.in = req[r].in /\ new.sub = req[r].sub
  BY DEF TypeInv, TypeOK, Requests
<1>5. Holds(r)'
  BY <1>2, <1>4 DEF TypeInv, TypeOK, Holds, OfSubject, Claiming, Nameless
<1>6. \A q \in Request \ {r} : Holds(q)'
  BY <1>2 DEF TypeInv, TypeOK, Holds, Nameless
<1>7. QED
  BY <1>3, <1>5, <1>6 DEF TypeInv

(* Requests that learn that they are not alone.                            *)
LEMMA MarkedType ==
    ASSUME TypeInv, NEW r \in Request, NEW new \in Requests, NEW others,
           req' = [q \in Request |->
               IF q = r THEN new ELSE [req[q] EXCEPT !.alone = @ /\ q \notin others]],
           new.at \in {"unlink", "role", "active"},
           new.in \in Browser, new.who \in User,
           new.at = "unlink" => new.sub \in Subject,
           UNCHANGED <<tables, session, proved>>
    PROVE  TypeInv'
<1>1. \A q \in Request : [req[q] EXCEPT !.alone = @ /\ q \notin others] \in Requests
  BY DEF TypeInv, TypeOK, Requests
<1>2. TypeOK'
  BY <1>1 DEF TypeInv, TypeOK, tables
<1>3. Holds(r)'
  BY DEF TypeInv, TypeOK, Holds, OfSubject, Claiming, Nameless
<1>4. ASSUME NEW q \in Request, q # r PROVE Holds(q)'
  <2>1. /\ req'[q].at = req[q].at /\ req'[q].in = req[q].in
        /\ req'[q].who = req[q].who /\ req'[q].sub = req[q].sub
    BY <1>4 DEF TypeInv, TypeOK, Requests
  <2>2. QED
    BY <2>1 DEF TypeInv, Holds, Nameless
<1>5. QED
  BY <1>2, <1>3, <1>4 DEF TypeInv

LEMMA TypeNext == TypeInv /\ [Next]_vars => TypeInv'
<1> SUFFICES ASSUME TypeInv, [Next]_vars PROVE TypeInv'
    OBVIOUS
<1>a. /\ TypeOK
      /\ row \in [User -> Rows]
      /\ identity \in [Subject -> User \cup {None}]
      /\ session \in [Browser -> Cookies]
      /\ req \in [Request -> Requests]
      /\ proved \subseteq User
  BY DEF TypeInv, TypeOK
<1>1. ASSUME NEW b \in Browser, Logout(b) PROVE TypeInv'
  <2>1. TypeOK'
    BY <1>1, RowTypes DEF Logout, TypeInv, TypeOK, tables
  <2>2. QED
    BY <1>1, <2>1 DEF Logout, TypeInv, Holds, Nameless
<1>2. ASSUME NEW r \in Request, NEW b \in Browser, NEW cookie \in Cookies,
             Redirect(r, b, cookie), proved' \subseteq User
      PROVE  TypeInv'
  <2> DEFINE new == [Idle EXCEPT !.at = "redirect", !.in = b, !.jar = cookie]
  <2>1. /\ new \in Requests
        /\ new.at = "redirect" /\ new.in = b
    BY RowTypes DEF Requests, Steps, Idle
  <2>2. req' = [req EXCEPT ![r] = new]
    BY <1>2 DEF Redirect
  <2>3. TypeOK'
    BY <1>2, <2>1, <2>2 DEF Redirect, TypeInv, TypeOK, tables
  <2>4. \A q \in Request : Holds(q)'
    BY <2>1, <2>2 DEF TypeInv, TypeOK, Holds, OfSubject, Claiming, Nameless
  <2>5. QED
    BY <2>3, <2>4 DEF TypeInv
<1>21. ASSUME NEW r \in Request, NEW b \in Browser, NEW u \in User, StartLink(r, b, u)
       PROVE  TypeInv'
  <2>1. [session[b] EXCEPT !.link = u] \in Cookies /\ proved' \subseteq User
    BY <1>21, <1>a DEF StartLink, Cookies
  <2>2. QED
    BY <1>2, <1>21, <2>1 DEF StartLink
<1>22. ASSUME NEW r \in Request, NEW b \in Browser, StartAtProvider(r, b) PROVE TypeInv'
  BY <1>a, <1>2, <1>22 DEF StartAtProvider
<1>3. ASSUME NEW r \in Request, NEW b \in Browser, NEW u \in User, StartSignup(r, b, u)
      PROVE  TypeInv'
  BY <1>3, LoadType DEF StartSignup
<1>4. ASSUME NEW r \in Request, NEW b \in Browser, NEW u \in User, StartLogin(r, b, u)
      PROVE  TypeInv'
  BY <1>4, LoadType DEF StartLogin
<1>5. ASSUME NEW r \in Request, NEW b \in Browser, NEW u \in User, NEW s \in Subject,
             StartUnlink(r, b, u, s)
      PROVE  TypeInv'
  <2> DEFINE new == [Idle EXCEPT !.at = "unlink", !.in = b, !.who = u, !.sub = s,
                                 !.alone = Unlinking(u, s) = {}]
  <2>1. /\ new \in Requests
        /\ new.at = "unlink" /\ new.in = b /\ new.who = u /\ new.sub = s
    BY RowTypes DEF Requests, Steps, Idle
  <2>2. /\ req' = [q \in Request |-> IF q = r THEN new
                  ELSE [req[q] EXCEPT !.alone = @ /\ q \notin Unlinking(u, s)]]
        /\ UNCHANGED <<tables, session, proved>>
    BY <1>5 DEF StartUnlink
  <2> HIDE DEF new
  <2>3. QED
    BY <2>1, <2>2, MarkedType
<1>6. ASSUME NEW r \in Request, NEW b \in Browser, NEW column \in {"role", "active"},
             NEW u \in User, NEW value \in BOOLEAN, StartAdmin(r, b, column, u, value)
      PROVE  TypeInv'
  <2> DEFINE new == [Idle EXCEPT !.at = column, !.in = b, !.jar.user = session[b].user,
                                 !.who = u, !.old = row[u], !.set = value,
                                 !.alone = Administrating = {}]
  <2>1. /\ new \in Requests
        /\ new.at = column /\ new.in = b /\ new.who = u
    BY RowTypes DEF TypeInv, TypeOK, Requests, Cookies, Steps, Idle, Nobody
  <2>2. /\ req' = [q \in Request |-> IF q = r THEN new
                  ELSE [req[q] EXCEPT !.alone = @ /\ q \notin Administrating]]
        /\ UNCHANGED <<tables, session, proved>>
    BY <1>6 DEF StartAdmin
  <2> HIDE DEF new
  <2>3. QED
    BY <2>1, <2>2, MarkedType
<1>7. ASSUME NEW r \in Request, NEW b \in Browser, NEW claim \in Claim,
             StartCallback(r, b, claim)
      PROVE  TypeInv'
  <2> DEFINE new == [Idle EXCEPT !.at = "callback", !.in = b, !.jar = session[b],
                                 !.sub = claim[1], !.who = claim[2]]
  <2>1. claim[1] \in Subject /\ claim[2] \in User /\ claim = <<claim[1], claim[2]>>
    BY AccountsAssumption
  <2>2. /\ new \in Requests
        /\ new.at = "callback" /\ new.in = b /\ new.sub = claim[1] /\ new.who = claim[2]
    BY <2>1, RowTypes DEF TypeInv, TypeOK, Requests, Steps, Idle
  <2>3. req' = [req EXCEPT ![r] = new]
    BY <1>7 DEF StartCallback
  <2>4. TypeOK'
    BY <1>7, <2>2, <2>3 DEF StartCallback, TypeInv, TypeOK, tables
  <2>5. \A q \in Request : Holds(q)'
    BY <2>1, <2>2, <2>3 DEF TypeInv, TypeOK, Holds, OfSubject, Claiming, Nameless
  <2>6. QED
    BY <2>4, <2>5 DEF TypeInv
<1>8. ASSUME NEW r \in Request, Abort(r) PROVE TypeInv'
  <2>1. req' = [req EXCEPT ![r] = Idle] /\ UNCHANGED <<row, identity, session, proved>>
    BY <1>8 DEF Abort, tables
  <2>2. QED
    BY <1>a, <2>1, OneOverType
<1>9. ASSUME NEW r \in Request,
             \/ FinishRedirect(r) \/ RefuseCallback(r) \/ BlockDomain(r)
             \/ RefuseLink(r) \/ RefuseLogin(r)
      PROVE  TypeInv'
  <2>1. req[r].jar \in Cookies /\ [req[r].jar EXCEPT !.link = None] \in Cookies
    BY DEF TypeInv, TypeOK, Requests, Cookies
  <2>2. /\ req' = [req EXCEPT ![r] = Idle] /\ session' \in [Browser -> Cookies]
        /\ UNCHANGED <<row, identity, proved>>
    BY <1>9, <1>a, <2>1, AnswerType
       DEF FinishRedirect, RefuseCallback, BlockDomain, RefuseLink, RefuseLogin, tables
  <2>3. QED
    BY <1>a, <2>2, OneOverType
<1>10. ASSUME NEW r \in Request, FinishSignup(r) PROVE TypeInv'
  <2>1. req' = [req EXCEPT ![r] = Idle] /\ session' \in [Browser -> Cookies]
    BY <1>10, AnswerAsType DEF FinishSignup, Nameless
  <2>2. NewAccount(req[r].who, TRUE) \in Rows
    BY <1>10, RowTypes DEF FinishSignup, TypeInv, Holds, Nameless
  <2>3. row' \in [User -> Rows] /\ UNCHANGED <<identity, proved>>
    BY <1>10, <1>a, <2>2 DEF FinishSignup, Nameless
  <2>4. QED
    BY <1>a, <2>1, <2>3, OneOverType
<1>11. ASSUME NEW r \in Request, FinishLogin(r) PROVE TypeInv'
  <2>1. req' = [req EXCEPT ![r] = Idle] /\ session' \in [Browser -> Cookies]
    BY <1>11, AnswerAsType DEF FinishLogin, Nameless
  <2>2. row' \in [User -> Rows] /\ UNCHANGED <<identity, proved>>
    BY <1>11, <1>a, PromotedRows DEF FinishLogin
  <2>3. QED
    BY <1>a, <2>1, <2>2, OneOverType
<1>12. ASSUME NEW r \in Request, ResolveLink(r) PROVE TypeInv'
  <2>1. /\ req[r].at = "callback" /\ req[r].jar.link \in User
        /\ req[r].who = req[r].jar.link
        /\ <<req[r].sub, req[r].who>> \in Claim
    BY <1>12 DEF ResolveLink, LinkFits, TypeInv, TypeOK, Requests, Cookies, Holds, Claiming, Nameless
  <2>2. QED
    BY <1>12, <2>1, RowTypes, GotoType DEF ResolveLink
<1>13. ASSUME NEW r \in Request, FinishLink(r) PROVE TypeInv'
  <2>1. req' = [req EXCEPT ![r] = Idle] /\ session' \in [Browser -> Cookies]
    BY <1>13, AnswerAsType DEF FinishLink, Nameless
  <2>2. req[r].who \in User
    BY <1>13 DEF FinishLink, TypeInv, Holds, Nameless
  <2>3. /\ identity' \in [Subject -> User \cup {None}]
        /\ UNCHANGED <<row, proved>>
    BY <1>13, <1>a, <2>2 DEF FinishLink
  <2>4. QED
    BY <1>a, <2>1, <2>3, OneOverType
<1>14. ASSUME NEW r \in Request, ResolveLogin(r) PROVE TypeInv'
  <2>1. /\ req[r].at = "callback" /\ req[r].who \in User /\ req[r].sub \in Subject
        /\ <<req[r].sub, req[r].who>> \in Claim
    BY <1>14 DEF ResolveLogin, TypeInv, Holds, OfSubject, Claiming, Nameless
  <2>2. identity[req[r].sub] # None => identity[req[r].sub] \in User
    BY <2>1 DEF TypeInv, TypeOK
  <2>3. \A u \in User : row[u] \in Rows
    BY DEF TypeInv, TypeOK
  <2>4. QED
    BY <1>14, <2>1, <2>2, <2>3, RowTypes, GotoType DEF ResolveLogin
<1>15. ASSUME NEW r \in Request, SyncCommits(r) PROVE TypeInv'
  <2> DEFINE old == IF req[r].at = "provision" THEN row'[req[r].who] ELSE req[r].old
             new == [req[r] EXCEPT !.at = "synced", !.old = old]
  <2>1. /\ req[r].at \in {"signin", "adopt", "provision"}
        /\ row' \in [User -> Rows] /\ identity' \in [Subject -> User \cup {None}]
    BY <1>15, <1>a, StagedType DEF SyncCommits, TypeOK
  <2>2. req[r].who \in User /\ req[r].in \in Browser /\ req[r].sub \in Subject
    BY <2>1 DEF TypeInv, Holds, OfSubject, Claiming, Nameless
  <2>3. old \in Rows
    BY <2>1, <2>2 DEF TypeInv, TypeOK, Requests
  <2>4. /\ new \in Requests
        /\ new.at = "synced" /\ new.in = req[r].in /\ new.who = req[r].who
        /\ new.sub = req[r].sub
    BY <2>3 DEF TypeInv, TypeOK, Requests, Steps
  <2>5. req' = [req EXCEPT ![r] = new]
    BY <1>15 DEF SyncCommits, TypeInv, TypeOK, Requests
  <2>6. TypeOK'
    BY <1>15, <2>1, <2>4, <2>5 DEF SyncCommits, TypeInv, TypeOK
  <2>7. \A q \in Request : Holds(q)'
    BY <2>2, <2>4, <2>5 DEF TypeInv, TypeOK, Holds, OfSubject, Claiming, Nameless
  <2>8. QED
    BY <2>6, <2>7 DEF TypeInv
<1>16. ASSUME NEW r \in Request, FinishCallback(r) PROVE TypeInv'
  <2>1. req[r].at \notin Nameless /\ AnswerAs(r, req[r].who) /\ UNCHANGED proved
    BY <1>16 DEF FinishCallback, Staged, Nameless
  <2>2. req' = [req EXCEPT ![r] = Idle] /\ session' \in [Browser -> Cookies]
    BY <2>1, AnswerAsType
  <2>3. row' \in [User -> Rows] /\ identity' \in [Subject -> User \cup {None}]
    BY <1>16, <1>a, PromotedRows, StagedType DEF FinishCallback
  <2>4. QED
    BY <1>a, <2>1, <2>2, <2>3, OneOverType
<1>17. ASSUME NEW r \in Request, FinishUnlink(r) PROVE TypeInv'
  <2> DEFINE over == {q \in Request :
                 q = r \/ (req[q].at = "unlink" /\ req[q].sub = req[r].sub)}
  <2>1. /\ req' = [q \in Request |-> IF q \in over THEN Idle ELSE req[q]]
        /\ over \in SUBSET Request
        /\ identity' \in [Subject -> User \cup {None}]
        /\ UNCHANGED <<row, session, proved>>
    BY <1>17, <1>a DEF FinishUnlink
  <2> HIDE DEF over
  <2>2. QED
    BY <1>a, <2>1, OverType
<1>18. ASSUME NEW r \in Request, FinishAdmin(r) PROVE TypeInv'
  <2>1. req' = [req EXCEPT ![r] = Idle] /\ UNCHANGED <<identity, session, proved>>
    BY <1>18 DEF FinishAdmin
  <2>2. \A u \in User, value \in BOOLEAN :
           /\ [row[u] EXCEPT !.admin = value] \in Rows
           /\ [row[u] EXCEPT !.active = value] \in Rows
    BY DEF TypeInv, TypeOK, Rows
  <2>3. req[r].who \in User /\ req[r].set \in BOOLEAN
    BY <1>18 DEF FinishAdmin, TypeInv, TypeOK, Holds, Nameless, Requests
  <2>4. row' \in [User -> Rows]
    BY <1>18, <2>2, <2>3 DEF FinishAdmin, TypeInv, TypeOK
  <2>5. QED
    BY <1>a, <2>1, <2>4, OneOverType
<1>19. CASE UNCHANGED vars
  BY <1>19 DEF vars, tables, TypeInv, TypeOK, Holds, Nameless
<1>20. QED
  BY <1>1, <1>21, <1>22, <1>3, <1>4, <1>5, <1>6, <1>7, <1>8, <1>9, <1>10, <1>11, <1>12, <1>13,
     <1>14, <1>15, <1>16, <1>17, <1>18, <1>19
     DEF Next, Start, Continue, ContinueCallback

-----------------------------------------------------------------------------
(* Accounts stay as they are but for promotions, and for administrators.   *)
Kept ==
    \A u \in User : row[u].exists =>
        /\ row'[u].exists
        /\ row'[u].password = row[u].password
        /\ row'[u].active = row[u].active
        /\ row[u].admin => row'[u].admin

LEMMA RowsKept ==
    TypeInv /\ [Next]_vars => Kept \/ \E r \in Request : FinishAdmin(r)
<1> SUFFICES ASSUME TypeInv, [Next]_vars, \A r \in Request : ~FinishAdmin(r) PROVE Kept
    OBVIOUS
<1>a. row \in [User -> Rows] /\ TypeOK
  BY DEF TypeInv, TypeOK
<1>1. ASSUME UNCHANGED row PROVE Kept
  BY <1>1 DEF Kept
<1>2. ASSUME NEW r \in Request, row' = Promoted(r) PROVE Kept
  BY <1>a, <1>2, PromotedRows DEF Kept
<1>3. ASSUME NEW u \in User, NEW new, ~row[u].exists, row' = [row EXCEPT ![u] = new]
      PROVE  Kept
  BY <1>a, <1>3 DEF Kept
<1>4. ASSUME NEW r \in Request, NEW users, Staged(r, users),
             users = row \/ users = Promoted(r)
      PROVE  Kept
  <2>1. req[r].at = "provision" => req[r].who \in User
    BY DEF TypeInv, Holds, Nameless
  <2>2. QED
    BY <1>1, <1>2, <1>3, <1>4, <2>1 DEF Staged
<1>5. ASSUME NEW r \in Request, FinishSignup(r) PROVE Kept
  <2>1. req[r].who \in User
    BY <1>5 DEF FinishSignup, TypeInv, Holds, Nameless
  <2>2. QED
    BY <1>3, <1>5, <2>1 DEF FinishSignup
<1>6. ASSUME NEW r \in Request, FinishLogin(r) \/ FinishCallback(r) PROVE Kept
  BY <1>2, <1>4, <1>6 DEF FinishLogin, FinishCallback
<1>7. ASSUME NEW r \in Request, SyncCommits(r) PROVE Kept
  BY <1>4, <1>7 DEF SyncCommits
<1>8. ASSUME NEW r \in Request, NEW b \in Browser, Start(r, b) PROVE Kept
  BY <1>1, <1>8
     DEF Start, StartSignup, StartLogin, Load, StartLink, Redirect, StartAtProvider,
         StartUnlink, StartAdmin, StartCallback, tables
<1>9. ASSUME NEW r \in Request,
             \/ FinishRedirect(r) \/ RefuseCallback(r) \/ BlockDomain(r) \/ ResolveLink(r)
             \/ RefuseLink(r) \/ FinishLink(r) \/ ResolveLogin(r) \/ RefuseLogin(r)
             \/ FinishUnlink(r) \/ Abort(r)
      PROVE  Kept
  BY <1>1, <1>9
     DEF FinishRedirect, RefuseCallback, BlockDomain, ResolveLink, RefuseLink, FinishLink,
         ResolveLogin, RefuseLogin, FinishUnlink, Abort, Goto, tables
<1>10. ASSUME NEW b \in Browser, Logout(b) PROVE Kept
  BY <1>1, <1>10 DEF Logout, tables
<1>11. CASE UNCHANGED vars
  BY <1>1, <1>11 DEF vars, tables
<1>12. QED
  BY <1>5, <1>6, <1>7, <1>8, <1>9, <1>10, <1>11 DEF Next, Continue, ContinueCallback

(* Accounts stay, and so does whether they have a password.                *)
Grows ==
    /\ \A u \in User : row[u].exists =>
          row'[u].exists /\ row'[u].password = row[u].password
    /\ proved \subseteq proved'

LEMMA RowsGrow == TypeInv /\ [Next]_vars => Grows
<1> SUFFICES ASSUME TypeInv, [Next]_vars PROVE Grows
    OBVIOUS
<1>1. proved \subseteq proved'
  <2>1. ASSUME NEW r \in Request, NEW b \in Browser, Start(r, b)
        PROVE  proved \subseteq proved'
    BY <2>1
       DEF Start, StartSignup, StartLogin, Load, StartLink, StartAtProvider, StartUnlink,
           StartAdmin, StartCallback
  <2>2. ASSUME NEW r \in Request, Continue(r) \/ Abort(r) PROVE UNCHANGED proved
    <3>1. CASE FinishSignup(r) \/ FinishLogin(r) \/ FinishRedirect(r) \/ RefuseCallback(r)
      BY <3>1 DEF FinishSignup, FinishLogin, FinishRedirect, RefuseCallback
    <3>2. CASE BlockDomain(r) \/ ResolveLink(r) \/ RefuseLink(r) \/ FinishLink(r)
      BY <3>2 DEF BlockDomain, ResolveLink, RefuseLink, FinishLink, Goto
    <3>3. CASE ResolveLogin(r) \/ RefuseLogin(r) \/ SyncCommits(r) \/ FinishCallback(r)
      BY <3>3 DEF ResolveLogin, RefuseLogin, SyncCommits, FinishCallback, Goto
    <3>4. CASE FinishUnlink(r) \/ FinishAdmin(r) \/ Abort(r)
      BY <3>4 DEF FinishUnlink, FinishAdmin, Abort
    <3>5. QED
      BY <2>2, <3>1, <3>2, <3>3, <3>4 DEF Continue, ContinueCallback
  <2>3. QED
    BY <2>1, <2>2 DEF Next, Logout, vars
<1>2. ASSUME NEW r \in Request, FinishAdmin(r)
      PROVE  \A u \in User : row[u].exists =>
                 row'[u].exists /\ row'[u].password = row[u].password
  <2>1. req[r].who \in User
    BY <1>2 DEF FinishAdmin, TypeInv, Holds, Nameless
  <2>2. QED
    BY <1>2, <2>1 DEF FinishAdmin, TypeInv, TypeOK, Rows
<1>3. QED
  BY <1>1, <1>2, RowsKept DEF Grows, Kept

(* What was loaded of accounts that may be linked goes on to be true.      *)
LEMMA LinkingKept ==
    ASSUME TypeInv, Grows, NEW q \in Request, Linking(q),
           \/ req'[q] = Idle
           \/ /\ req'[q].at = req[q].at
              /\ req'[q].who = req[q].who
              /\ req'[q].jar = req[q].jar
    PROVE  Linking(q)'
<1>1. \A u \in User : Linkable(u) => Linkable(u)'
  BY DEF Grows, Linkable
<1>2. req[q].jar.link \in User \cup {None}
  BY DEF TypeInv, TypeOK, Requests, Cookies
<1>3. req[q].at \in {"link", "adopt"} => req[q].who \in User
  BY DEF TypeInv, Holds, Nameless
<1>4. Idle.at = "idle" /\ Idle.jar.link = None
  BY DEF Idle, Nobody
<1>5. QED
  BY <1>1, <1>2, <1>3, <1>4 DEF Linking, Grows

LEMMA LinkInit == Init => LinkInv
BY DEF Init, LinkInv, Linking, Idle, Nobody

(* What a step leaves, and what is new in it, may be linked.               *)
LEMMA LinkStep ==
    ASSUME TypeInv, LinkInv, Grows,
           \A q \in Request :
               \/ Linking(q)'
               \/ req'[q] = Idle
               \/ /\ req'[q].at = req[q].at
                  /\ req'[q].who = req[q].who
                  /\ req'[q].jar = req[q].jar,
           \A b \in Browser : session'[b].link # None =>
               \/ session'[b].link = session[b].link
               \/ \E r \in Request : session'[b].link = req[r].jar.link,
           \A s \in Subject : identity'[s] # None =>
               \/ identity'[s] = identity[s]
               \/ Linkable(identity[s])' /\ <<s, identity'[s]>> \in Claim
    PROVE  LinkInv'
<1>1. \A u \in User : Linkable(u) => Linkable(u)'
  BY DEF Grows, Linkable
<1>2. \A q \in Request : Linking(q)'
  BY LinkingKept DEF LinkInv
<1>3. /\ identity \in [Subject -> User \cup {None}]
      /\ \A b \in Browser : session[b].link \in User \cup {None}
      /\ \A q \in Request : req[q].jar.link \in User \cup {None}
  BY DEF TypeInv, TypeOK, Requests, Cookies
<1>4. \A s \in Subject : identity'[s] # None =>
          Linkable(identity[s])' /\ <<s, identity'[s]>> \in Claim
  BY <1>1, <1>3 DEF LinkInv, Linkable
<1>5. \A b \in Browser : session'[b].link # None => Linkable(session[b].link)'
  BY <1>1, <1>3 DEF LinkInv, Linking, Linkable
<1>6. QED
  BY <1>2, <1>4, <1>5 DEF LinkInv, Linkable

(* An identity that a first login or an adoption stages.                   *)
LEMMA StagedLink ==
    ASSUME TypeInv, LinkInv, Grows, NEW r \in Request, NEW users, Staged(r, users)
    PROVE  \A s \in Subject : identity'[s] # None =>
               \/ identity'[s] = identity[s]
               \/ Linkable(identity[s])' /\ <<s, identity'[s]>> \in Claim
<1>1. CASE req[r].at = "signin"
  BY <1>1 DEF Staged
<1>2. CASE req[r].at \in {"adopt", "provision"}
  <2> DEFINE u == req[r].who
  <2>1. u \in User /\ req[r].sub \in Subject /\ <<req[r].sub, u>> \in Claim
    BY <1>2 DEF TypeInv, Holds, Nameless, OfSubject, Claiming
  <2>2. identity' = [identity EXCEPT ![req[r].sub] = u]
    BY <1>2 DEF Staged
  <2>3. row'[u].exists /\ ~row'[u].password
    <3>1. CASE req[r].at = "adopt"
      BY <2>1, <3>1 DEF LinkInv, Linking, Grows
    <3>2. CASE req[r].at = "provision"
      BY <2>1, <3>2 DEF Staged, NewAccount, TypeInv, TypeOK
    <3>3. QED
      BY <1>2, <3>1, <3>2
  <2>4. identity \in [Subject -> User \cup {None}]
    BY DEF TypeInv, TypeOK
  <2>5. QED
    BY <2>1, <2>2, <2>3, <2>4 DEF Linkable
<1>3. QED
  BY <1>1, <1>2 DEF Staged

LEMMA LinkNext == TypeInv /\ LinkInv /\ [Next]_vars => LinkInv'
<1> SUFFICES ASSUME TypeInv, LinkInv, [Next]_vars PROVE LinkInv'
    OBVIOUS
<1>a. Grows
  BY RowsGrow
<1>b. /\ identity \in [Subject -> User \cup {None}]
      /\ session \in [Browser -> Cookies]
      /\ req \in [Request -> Requests]
      /\ \A q \in Request : req[q].jar \in Cookies
      /\ \A b \in Browser : session[b].link \in User \cup {None}
  BY DEF TypeInv, TypeOK, Requests, Cookies
(* A request begins.                                                       *)
<1>1. ASSUME NEW r \in Request, NEW b \in Browser, UNCHANGED <<identity, session>>,
             req'[r].at \notin {"link", "adopt"},
             \/ req'[r].jar.link \in {None, session[b].link}
             \/ req'[r].jar.link \in User /\ Linkable(req[r].jar.link)',
             \A q \in Request \ {r} : /\ req'[q].at = req[q].at
                                       /\ req'[q].who = req[q].who
                                       /\ req'[q].jar = req[q].jar
      PROVE  LinkInv'
  <2>1. session[b].link # None => session[b].link \in User /\ Linkable(session[b].link)
    BY <1>b DEF LinkInv
  <2>2. Linking(r)'
    BY <1>a, <1>1, <2>1 DEF Linking, Linkable, Grows
  <2>3. QED
    BY <1>a, <1>1, <2>2, LinkStep
<1>2. ASSUME NEW r \in Request, NEW b \in Browser, Start(r, b) PROVE LinkInv'
  <2>1. ASSUME NEW at \in {"signup", "login"}, NEW u \in User, Load(r, b, at, u)
        PROVE  LinkInv'
    <3>1. /\ req'[r].at = at
          /\ req'[r].jar.link = session[b].link
          /\ \A q \in Request \ {r} : req'[q] = req[q]
          /\ UNCHANGED <<identity, session>>
      BY <1>b, <2>1 DEF Load, Idle, Cookies, tables
    <3>2. QED
      BY <1>1, <3>1
  <2>2. ASSUME NEW u \in User, StartLink(r, b, u) PROVE LinkInv'
    <3>1. /\ req'[r].at = "redirect"
          /\ req'[r].jar.link = u
          /\ \A q \in Request \ {r} : req'[q] = req[q]
          /\ UNCHANGED <<row, identity, session>>
      BY <1>b, <2>2 DEF StartLink, Redirect, Idle, Cookies, tables
    <3>2. Linkable(u)'
      BY <2>2, <3>1 DEF StartLink, PasswordAsked, SignedIn, Usable, Linkable
    <3>3. QED
      BY <1>1, <3>1, <3>2 DEF Linkable
  <2>3. CASE StartAtProvider(r, b)
    <3>1. /\ req'[r].at = "redirect"
          /\ req'[r].jar = session[b]
          /\ \A q \in Request \ {r} : req'[q] = req[q]
          /\ UNCHANGED <<identity, session>>
      BY <1>b, <2>3 DEF StartAtProvider, Redirect, Idle, tables
    <3>2. QED
      BY <1>1, <3>1
  <2>4. ASSUME NEW u \in User, NEW s \in Subject, StartUnlink(r, b, u, s) PROVE LinkInv'
    <3>1. /\ req'[r].at = "unlink"
          /\ req'[r].jar.link = None
          /\ \A q \in Request \ {r} : /\ req'[q].at = req[q].at
                                     /\ req'[q].who = req[q].who
                                     /\ req'[q].jar = req[q].jar
          /\ UNCHANGED <<identity, session>>
      BY <1>b, <2>4 DEF StartUnlink, Idle, Nobody, tables, Requests
    <3>2. QED
      BY <1>1, <3>1
  <2>5. ASSUME NEW column \in {"role", "active"}, NEW u \in User, NEW value \in BOOLEAN,
               StartAdmin(r, b, column, u, value)
        PROVE  LinkInv'
    <3>1. /\ req'[r].at = column
          /\ req'[r].jar.link = None
          /\ \A q \in Request \ {r} : /\ req'[q].at = req[q].at
                                     /\ req'[q].who = req[q].who
                                     /\ req'[q].jar = req[q].jar
          /\ UNCHANGED <<identity, session>>
      BY <1>b, <2>5 DEF StartAdmin, Idle, Nobody, tables, Requests
    <3>2. QED
      BY <1>1, <3>1
  <2>6. ASSUME NEW claim \in Claim, StartCallback(r, b, claim) PROVE LinkInv'
    BY <1>1, <1>b, <2>6 DEF StartCallback, Idle, tables
  <2>7. QED
    BY <1>2, <2>1, <2>2, <2>3, <2>4, <2>5, <2>6 DEF Start, StartSignup, StartLogin, Load
(* A request goes on.                                                      *)
<1>3. ASSUME NEW r \in Request, ResolveLink(r) PROVE LinkInv'
  <2>1. /\ UNCHANGED <<identity, session>>
        /\ req'[r].at \in {"link", "linked"}
        /\ req'[r].who = req[r].jar.link
        /\ req'[r].jar.link = None
        /\ \A q \in Request \ {r} : req'[q] = req[q]
    BY <1>3, <1>b DEF ResolveLink, Goto, tables, Requests, Cookies
  <2>2. req[r].jar.link \in User /\ Linkable(req[r].jar.link)
    BY <1>3, <1>b DEF ResolveLink, LinkInv, Linking, Cookies
  <2>3. Linking(r)'
    BY <1>a, <2>1, <2>2 DEF Linking, Linkable, Grows
  <2>4. QED
    BY <1>a, <2>1, <2>3, LinkStep
<1>4. ASSUME NEW r \in Request, ResolveLogin(r) PROVE LinkInv'
  <2>1. /\ UNCHANGED <<row, identity, session>>
        /\ req'[r].jar.link = None
        /\ req'[r].at # "link"
        /\ req'[r].at = "adopt" => Usable(req'[r].who) /\ ~row[req'[r].who].password
        /\ \A q \in Request \ {r} : req'[q] = req[q]
    BY <1>4, <1>b DEF ResolveLogin, Goto, tables, Requests, Cookies
  <2>2. Linking(r)'
    BY <2>1 DEF Linking, Usable
  <2>3. QED
    BY <1>a, <2>1, <2>2, LinkStep
<1>5. ASSUME NEW r \in Request, SyncCommits(r) PROVE LinkInv'
  <2>1. /\ UNCHANGED session
        /\ req'[r].at = "synced"
        /\ req'[r].jar = req[r].jar
        /\ \A q \in Request \ {r} : req'[q] = req[q]
    BY <1>5, <1>b DEF SyncCommits, Requests
  <2>2. req[r].jar.link # None => req[r].jar.link \in User /\ Linkable(req[r].jar.link)
    BY <1>b DEF LinkInv, Linking, Cookies
  <2>3. Linking(r)'
    BY <1>a, <2>1, <2>2 DEF Linking, Linkable, Grows
  <2>4. QED
    BY <1>5, <1>a, <2>1, <2>3, LinkStep, StagedLink DEF SyncCommits
(* A request answers.                                                      *)
<1>6. ASSUME NEW r \in Request, NEW cookie,
             cookie.link \in {None, req[r].jar.link},
             Answer(r, cookie),
             \A s \in Subject : identity'[s] # None =>
                 \/ identity'[s] = identity[s]
                 \/ Linkable(identity[s])' /\ <<s, identity'[s]>> \in Claim
      PROVE  LinkInv'
  <2>1. \A q \in Request : req'[q] = Idle \/ req'[q] = req[q]
    BY <1>6, <1>b DEF Answer
  <2>2. \A b \in Browser : session'[b].link # None =>
            session'[b].link = session[b].link \/ session'[b].link = req[r].jar.link
    BY <1>6, <1>b DEF Answer
  <2>3. QED
    BY <1>6, <1>a, <2>1, <2>2, LinkStep
<1>7. ASSUME NEW r \in Request, AnswerAs(r, req[r].who),
             \A s \in Subject : identity'[s] # None =>
                 \/ identity'[s] = identity[s]
                 \/ Linkable(identity[s])' /\ <<s, identity'[s]>> \in Claim
      PROVE  LinkInv'
  <2> DEFINE cookie == [req[r].jar EXCEPT !.user = req[r].who]
  <2>1. cookie.link = req[r].jar.link
    BY <1>b DEF Cookies
  <2>2. Answer(r, cookie)
    BY <1>7 DEF AnswerAs
  <2> HIDE DEF cookie
  <2>3. QED
    BY <1>6, <1>7, <2>1, <2>2
<1>8. ASSUME NEW r \in Request,
             \/ FinishRedirect(r) \/ RefuseCallback(r) \/ BlockDomain(r)
             \/ RefuseLink(r) \/ RefuseLogin(r)
      PROVE  LinkInv'
  <2> DEFINE cleared == [req[r].jar EXCEPT !.link = None]
  <2>1. cleared.link = None
    BY <1>b DEF Cookies
  <2>2. /\ Answer(r, req[r].jar) \/ Answer(r, cleared)
        /\ UNCHANGED identity
    BY <1>8 DEF FinishRedirect, RefuseCallback, BlockDomain, RefuseLink, RefuseLogin, tables
  <2> HIDE DEF cleared
  <2>3. QED
    BY <1>6, <2>1, <2>2
<1>9. ASSUME NEW r \in Request, FinishSignup(r) \/ FinishLogin(r) PROVE LinkInv'
  BY <1>7, <1>9 DEF FinishSignup, FinishLogin
<1>10. ASSUME NEW r \in Request, FinishLink(r) PROVE LinkInv'
  <2>1. req[r].at = "link" =>
            /\ req[r].who \in User /\ Linkable(req[r].who)
            /\ <<req[r].sub, req[r].who>> \in Claim
    BY DEF LinkInv, Linking, TypeInv, Holds, Nameless, Claiming
  <2>2. \A s \in Subject : identity'[s] # None =>
            \/ identity'[s] = identity[s]
            \/ Linkable(identity[s])' /\ <<s, identity'[s]>> \in Claim
    BY <1>10, <1>a, <1>b, <2>1 DEF FinishLink, Linkable, Grows
  <2>3. QED
    BY <1>7, <1>10, <2>2 DEF FinishLink
<1>11. ASSUME NEW r \in Request, FinishCallback(r) PROVE LinkInv'
  <2>1. \A s \in Subject : identity'[s] # None =>
            \/ identity'[s] = identity[s]
            \/ Linkable(identity[s])' /\ <<s, identity'[s]>> \in Claim
    BY <1>11, <1>a, StagedLink DEF FinishCallback
  <2>2. QED
    BY <1>7, <1>11, <2>1 DEF FinishCallback
<1>12. ASSUME NEW r \in Request, FinishUnlink(r) PROVE LinkInv'
  <2>1. \A q \in Request : req'[q] = Idle \/ req'[q] = req[q]
    BY <1>12 DEF FinishUnlink
  <2>2. \A s \in Subject : identity'[s] # None => identity'[s] = identity[s]
    BY <1>12, <1>b DEF FinishUnlink
  <2>3. UNCHANGED session
    BY <1>12 DEF FinishUnlink
  <2>4. QED
    BY <1>a, <2>1, <2>2, <2>3, LinkStep
<1>13. ASSUME NEW r \in Request, FinishAdmin(r) \/ Abort(r) PROVE LinkInv'
  BY <1>13, <1>a, <1>b, LinkStep DEF FinishAdmin, Abort, tables
<1>14. ASSUME NEW b \in Browser, Logout(b) PROVE LinkInv'
  BY <1>14, <1>a, <1>b, LinkStep DEF Logout, Nobody, tables
<1>15. CASE UNCHANGED vars
  BY <1>15, <1>a, LinkStep DEF vars, tables
<1>16. QED
  BY <1>2, <1>3, <1>4, <1>5, <1>8, <1>9, <1>10, <1>11, <1>12, <1>13, <1>14, <1>15
     DEF Next, Continue, ContinueCallback

-----------------------------------------------------------------------------
(* Identities stay until they are unlinked.                                *)
LEMMA IdentitiesKept ==
    ASSUME TypeInv, [Next]_vars
    PROVE  \/ \A s \in Subject : identity[s] # None => identity'[s] = identity[s]
           \/ \E r \in Request : FinishUnlink(r)
<1> SUFFICES ASSUME \A r \in Request : ~FinishUnlink(r)
             PROVE  \A s \in Subject : identity[s] # None => identity'[s] = identity[s]
    OBVIOUS
<1>a. identity \in [Subject -> User \cup {None}]
  BY DEF TypeInv, TypeOK
<1>1. ASSUME NEW r \in Request, NEW users, Staged(r, users)
      PROVE  \A s \in Subject : identity[s] # None => identity'[s] = identity[s]
  BY <1>a, <1>1 DEF Staged
<1>2. ASSUME NEW r \in Request, FinishLink(r)
      PROVE  \A s \in Subject : identity[s] # None => identity'[s] = identity[s]
  BY <1>a, <1>2 DEF FinishLink
<1>3. ASSUME NEW r \in Request, NEW b \in Browser, Start(r, b) PROVE UNCHANGED identity
  BY <1>3
     DEF Start, StartSignup, StartLogin, Load, StartLink, Redirect, StartAtProvider,
         StartUnlink, StartAdmin, StartCallback, tables
<1>4. ASSUME NEW r \in Request, Continue(r) \/ Abort(r)
      PROVE  \A s \in Subject : identity[s] # None => identity'[s] = identity[s]
  <2>1. CASE FinishSignup(r) \/ FinishLogin(r) \/ FinishRedirect(r) \/ RefuseCallback(r)
    BY <2>1 DEF FinishSignup, FinishLogin, FinishRedirect, RefuseCallback, tables
  <2>2. CASE BlockDomain(r) \/ ResolveLink(r) \/ RefuseLink(r)
    BY <2>2 DEF BlockDomain, ResolveLink, RefuseLink, Goto, tables
  <2>3. CASE ResolveLogin(r) \/ RefuseLogin(r) \/ FinishAdmin(r) \/ Abort(r)
    BY <2>3 DEF ResolveLogin, RefuseLogin, FinishAdmin, Abort, Goto, tables
  <2>4. CASE SyncCommits(r) \/ FinishCallback(r)
    BY <1>1, <2>4 DEF SyncCommits, FinishCallback
  <2>5. QED
    BY <1>2, <1>4, <2>1, <2>2, <2>3, <2>4 DEF Continue, ContinueCallback
<1>5. QED
  BY <1>3, <1>4 DEF Next, Logout, vars, tables

(* Requests of the kinds that are told of others go on unchanged, but that *)
(* they are told.                                                          *)
Marked == {"unlink", "role", "active"}

SameMark(q) ==
    /\ req'[q].at = req[q].at
    /\ req'[q].who = req[q].who
    /\ req'[q].sub = req[q].sub
    /\ req'[q].set = req[q].set
    /\ req'[q].jar = req[q].jar
    /\ req'[q].alone => req[q].alone

LEMMA MarksKept ==
    ASSUME TypeInv, [Next]_vars, NEW q \in Request, req'[q].at \in Marked
    PROVE  \/ SameMark(q)
           \/ \E b \in Browser, u \in User :
                  \/ \E s \in Subject : StartUnlink(q, b, u, s)
                  \/ \E column \in {"role", "active"}, value \in BOOLEAN :
                         StartAdmin(q, b, column, u, value)
<1>a. req \in [Request -> Requests] /\ Idle.at = "idle"
  BY DEF TypeInv, TypeOK, Idle
<1>1. ASSUME req'[q] = req[q] PROVE SameMark(q)
  BY <1>1 DEF SameMark
<1>2. ASSUME NEW r \in Request, NEW b \in Browser, NEW u \in User,
             \/ \E s \in Subject : StartUnlink(r, b, u, s)
             \/ \E column \in {"role", "active"}, value \in BOOLEAN :
                    StartAdmin(r, b, column, u, value),
             q # r
      PROVE  SameMark(q)
  <2>1. \E others : req'[q] = [req[q] EXCEPT !.alone = @ /\ q \notin others]
    BY <1>a, <1>2 DEF StartUnlink, StartAdmin
  <2>2. QED
    BY <1>a, <2>1 DEF SameMark, Requests
<1>3. ASSUME NEW r \in Request, NEW new, req' = [req EXCEPT ![r] = new], new.at \notin Marked
      PROVE  SameMark(q)
  BY <1>a, <1>1, <1>3
<1>4. ASSUME NEW r \in Request, NEW b \in Browser, NEW u \in User,
             StartSignup(r, b, u) \/ StartLogin(r, b, u)
      PROVE  SameMark(q)
  <2>1. PICK at \in {"signup", "login"} : Load(r, b, at, u)
    BY <1>4 DEF StartSignup, StartLogin
  <2> DEFINE new == [Idle EXCEPT !.at = at, !.in = b, !.who = u, !.old = row[u],
                                 !.jar = [session[b] EXCEPT !.user = u]]
  <2>2. req' = [req EXCEPT ![r] = new] /\ new.at = at
    BY <2>1 DEF Load, Idle
  <2> HIDE DEF new
  <2>3. QED
    BY <1>3, <2>1, <2>2 DEF Marked
<1>5. ASSUME NEW r \in Request, NEW b \in Browser, NEW cookie, Redirect(r, b, cookie)
      PROVE  SameMark(q)
  <2> DEFINE new == [Idle EXCEPT !.at = "redirect", !.in = b, !.jar = cookie]
  <2>1. req' = [req EXCEPT ![r] = new] /\ new.at = "redirect"
    BY <1>5 DEF Redirect, Idle
  <2> HIDE DEF new
  <2>2. QED
    BY <1>3, <2>1 DEF Marked
<1>6. ASSUME NEW r \in Request, NEW b \in Browser, NEW claim \in Claim,
             StartCallback(r, b, claim)
      PROVE  SameMark(q)
  <2> DEFINE new == [Idle EXCEPT !.at = "callback", !.in = b, !.jar = session[b],
                                 !.sub = claim[1], !.who = claim[2]]
  <2>1. req' = [req EXCEPT ![r] = new] /\ new.at = "callback"
    BY <1>6 DEF StartCallback, Idle
  <2> HIDE DEF new
  <2>2. QED
    BY <1>3, <2>1 DEF Marked
<1>7. ASSUME NEW r \in Request, NEW b \in Browser, Start(r, b)
      PROVE  \/ SameMark(q)
             \/ \E u \in User :
                    \/ \E s \in Subject : StartUnlink(q, b, u, s)
                    \/ \E column \in {"role", "active"}, value \in BOOLEAN :
                           StartAdmin(q, b, column, u, value)
  <2>1. ASSUME NEW u \in User, StartLink(r, b, u) PROVE SameMark(q)
    BY <1>5, <2>1 DEF StartLink
  <2>2. ASSUME StartAtProvider(r, b) PROVE SameMark(q)
    BY <1>5, <2>2 DEF StartAtProvider
  <2>3. QED
    BY <1>2, <1>4, <1>6, <1>7, <2>1, <2>2 DEF Start
<1>8. ASSUME NEW r \in Request, req' = [req EXCEPT ![r] = Idle] PROVE SameMark(q)
  BY <1>3, <1>8 DEF Idle, Marked
<1>9. ASSUME NEW r \in Request, NEW at, NEW u, NEW old,
             Goto(r, at, u, old), at \notin Marked
      PROVE  SameMark(q)
  BY <1>a, <1>1, <1>9 DEF Goto, Requests
<1>10. ASSUME NEW r \in Request, Continue(r) \/ Abort(r) PROVE SameMark(q)
  <2>1. CASE FinishSignup(r) \/ FinishLogin(r) \/ FinishLink(r) \/ FinishCallback(r)
    BY <1>8, <2>1 DEF FinishSignup, FinishLogin, FinishLink, FinishCallback, AnswerAs, Answer
  <2>2. CASE FinishRedirect(r) \/ RefuseCallback(r) \/ BlockDomain(r) \/ RefuseLink(r)
             \/ RefuseLogin(r)
    BY <1>8, <2>2 DEF FinishRedirect, RefuseCallback, BlockDomain, RefuseLink, RefuseLogin, Answer
  <2>3. CASE FinishAdmin(r) \/ Abort(r)
    BY <1>8, <2>3 DEF FinishAdmin, Abort
  <2>4. CASE ResolveLink(r) \/ ResolveLogin(r)
    BY <1>9, <2>4 DEF ResolveLink, ResolveLogin, Marked
  <2>5. CASE SyncCommits(r)
    BY <1>a, <1>1, <2>5 DEF SyncCommits, Marked, Requests
  <2>6. CASE FinishUnlink(r)
    BY <1>a, <1>1, <2>6 DEF FinishUnlink, Marked
  <2>7. QED
    BY <1>10, <2>1, <2>2, <2>3, <2>4, <2>5, <2>6 DEF Continue, ContinueCallback
<1>11. QED
  BY <1>1, <1>7, <1>10 DEF Next, Logout, vars

LEMMA UnlinkNext == TypeInv /\ UnlinkInv /\ [Next]_vars => UnlinkInv'
<1> SUFFICES ASSUME TypeInv, UnlinkInv, [Next]_vars,
                    NEW q \in Request, req'[q].at = "unlink"
             PROVE  /\ identity'[req'[q].sub] = req'[q].who
                    /\ row'[req'[q].who].exists
                    /\ req'[q].alone => LeavesOne(q)'
    BY DEF UnlinkInv
<1>a. /\ identity \in [Subject -> User \cup {None}]
      /\ req \in [Request -> Requests]
      /\ \A p \in Request : req[p].at = "unlink" => req[p].who \in User /\ req[p].sub \in Subject
      /\ None \notin User
  BY AccountsAssumption DEF TypeInv, TypeOK, Holds, Nameless, OfSubject
<1>b. Grows
  BY RowsGrow
(* The last step of another unlink request, for another subject.           *)
<1>1. ASSUME NEW r \in Request, FinishUnlink(r)
      PROVE  /\ identity'[req'[q].sub] = req'[q].who
             /\ row'[req'[q].who].exists
             /\ req'[q].alone => LeavesOne(q)'
  <2>1. /\ req'[q] = req[q]
        /\ req[q].sub # req[r].sub
        /\ identity' = [identity EXCEPT ![req[r].sub] = None]
        /\ row' = row
        /\ \A p \in Request : req'[p].at = "unlink" => req'[p] = req[p]
    BY <1>1, <1>a DEF FinishUnlink, Idle
  <2>2. identity[req[r].sub] = req[r].who /\ req[r].at = "unlink" /\ req[r].who \in User
    BY <1>1, <1>a DEF FinishUnlink, UnlinkInv
  <2>3. /\ identity[req[q].sub] = req[q].who
        /\ row[req[q].who].exists
        /\ req[q].alone => LeavesOne(q)
    BY <2>1 DEF UnlinkInv
  <2>4. ASSUME req[q].alone PROVE LeavesOne(q)'
    <3>1. req[r].who # req[q].who
      BY <2>1, <2>2, <2>3, <2>4 DEF LeavesOne
    <3>2. QED
      BY <1>a, <2>1, <2>2, <2>3, <2>4, <3>1 DEF LeavesOne
  <2>5. QED
    BY <1>a, <2>1, <2>3, <2>4
(* The request begins.                                                     *)
<1>2. ASSUME NEW b \in Browser, NEW u \in User, NEW s \in Subject, StartUnlink(q, b, u, s)
      PROVE  /\ identity'[req'[q].sub] = req'[q].who
             /\ row'[req'[q].who].exists
             /\ req'[q].alone => LeavesOne(q)'
  <2>1. /\ req'[q].who = u /\ req'[q].sub = s
        /\ req'[q].alone => Unlinking(u, s) = {}
        /\ UNCHANGED <<row, identity>>
        /\ \A p \in Request \ {q} : /\ req'[p].at = req[p].at
                                  /\ req'[p].who = req[p].who
                                  /\ req'[p].sub = req[p].sub
    <3>1. \A p \in Request \ {q} :
              req'[p] = [req[p] EXCEPT !.alone = @ /\ p \notin Unlinking(u, s)]
      BY <1>2 DEF StartUnlink
    <3>2. /\ req'[q].who = u /\ req'[q].sub = s
          /\ req'[q].alone => Unlinking(u, s) = {}
          /\ UNCHANGED <<row, identity>>
      BY <1>2 DEF StartUnlink, Idle, tables
    <3>3. QED
      BY <1>a, <3>1, <3>2 DEF Requests
  <2>2. Usable(u) /\ MayUnlink(u, s)
    BY <1>2 DEF StartUnlink, SignedIn
  <2>3. ASSUME req'[q].alone PROVE LeavesOne(q)'
    BY <2>1, <2>2, <2>3 DEF LeavesOne, MayUnlink, Unlinking
  <2>4. QED
    BY <2>1, <2>2, <2>3 DEF Usable, MayUnlink
(* Any other step.                                                         *)
<1>3. ASSUME SameMark(q), \A s \in Subject : identity[s] # None => identity'[s] = identity[s]
      PROVE  /\ identity'[req'[q].sub] = req'[q].who
             /\ row'[req'[q].who].exists
             /\ req'[q].alone => LeavesOne(q)'
  <2>1. /\ req[q].at = "unlink" /\ req'[q].who = req[q].who /\ req'[q].sub = req[q].sub
        /\ req'[q].alone => req[q].alone
    BY <1>3 DEF SameMark
  <2>2. /\ identity[req[q].sub] = req[q].who
        /\ row[req[q].who].exists
        /\ req[q].alone => LeavesOne(q)
    BY <2>1 DEF UnlinkInv
  <2>3. ASSUME req'[q].alone, NEW p \in Request, req'[p].at = "unlink", req'[p].who = req'[q].who
        PROVE  req'[p].sub = req'[q].sub
    <3>1. CASE SameMark(p)
      BY <2>1, <2>2, <2>3, <3>1 DEF SameMark, LeavesOne
    <3>2. CASE \E b \in Browser, u \in User, s \in Subject : StartUnlink(p, b, u, s)
      <4>1. PICK b \in Browser, u \in User, s \in Subject : StartUnlink(p, b, u, s)
        BY <3>2
      <4>2. req'[p].who = u /\ req'[p].sub = s
        BY <4>1, <1>a DEF StartUnlink, Idle
      <4>3. CASE p = q
        BY <4>3
      <4>4. CASE p # q
        <5>1. req'[q] = [req[q] EXCEPT !.alone = @ /\ q \notin Unlinking(u, s)]
          BY <4>1, <4>4, <1>a DEF StartUnlink
        <5>2. q \notin Unlinking(u, s)
          BY <1>a, <2>3, <5>1 DEF Requests
        <5>3. QED
          BY <2>1, <2>3, <4>2, <5>2 DEF Unlinking
      <4>5. QED
        BY <4>3, <4>4
    <3>3. CASE \E b \in Browser, u \in User, column \in {"role", "active"}, value \in BOOLEAN :
                   StartAdmin(p, b, column, u, value)
      <4>1. req'[p].at \in {"role", "active"}
        <5>1. PICK b \in Browser, u \in User, column \in {"role", "active"}, value \in BOOLEAN :
                       StartAdmin(p, b, column, u, value)
          BY <3>3
        <5>2. req'[p].at = column
          BY <1>a, <5>1 DEF StartAdmin, Idle
        <5>3. QED
          BY <5>2
      <4>2. QED
        BY <2>3, <4>1
    <3>4. QED
      BY <2>3, <3>1, <3>2, <3>3, MarksKept DEF Marked
  <2>4. ASSUME req'[q].alone
        PROVE  \/ row'[req'[q].who].password
               \/ \E t \in Subject \ {req'[q].sub} : identity'[t] = req'[q].who
    BY <1>3, <1>a, <1>b, <2>1, <2>2, <2>4 DEF LeavesOne, Grows
  <2>5. QED
    BY <1>3, <1>a, <1>b, <2>1, <2>2, <2>3, <2>4 DEF LeavesOne, Grows
<1>4. ASSUME NEW b \in Browser, NEW u \in User, NEW column \in {"role", "active"},
             NEW value \in BOOLEAN, StartAdmin(q, b, column, u, value)
      PROVE  FALSE
  BY <1>a, <1>4 DEF StartAdmin, Idle
<1>5. QED
  BY <1>1, <1>2, <1>3, <1>4, IdentitiesKept, MarksKept DEF Marked

LEMMA AdminNext == TypeInv /\ AdminInv /\ [Next]_vars => AdminInv'
<1> SUFFICES ASSUME TypeInv, AdminInv, [Next]_vars,
                    NEW q \in Request, req'[q].at \in {"role", "active"}
             PROVE  Changing(q)'
    BY DEF AdminInv, Administrating
<1>a. /\ row \in [User -> Rows]
      /\ req \in [Request -> Requests]
      /\ \A p \in Request : req[p].at \in {"role", "active"} => req[p].who \in User
  BY DEF TypeInv, TypeOK, Holds, Nameless
<1>b. Grows
  BY RowsGrow
(* The request begins.                                                     *)
<1>1. ASSUME NEW b \in Browser, NEW u \in User, NEW column \in {"role", "active"},
             NEW value \in BOOLEAN, StartAdmin(q, b, column, u, value)
      PROVE  Changing(q)'
  <2>1. PICK actor \in User : IsAdmin(b, actor) /\ MayChange(actor, u, value)
    BY <1>1 DEF StartAdmin
  <2>2. /\ req'[q].who = u /\ req'[q].set = value /\ req'[q].jar.user = session[b].user
        /\ req'[q].alone => Administrating = {}
        /\ UNCHANGED row
    BY <1>1, <1>a DEF StartAdmin, Idle, Nobody, tables
  <2>3. \A p \in Request \ {q} : req'[p].at = req[p].at
    <3> SUFFICES ASSUME NEW p \in Request \ {q} PROVE req'[p].at = req[p].at
        OBVIOUS
    <3>1. req'[p] = [req[p] EXCEPT !.alone = @ /\ p \notin Administrating]
      BY <1>1 DEF StartAdmin
    <3>2. req[p] \in Requests
      BY <1>a
    <3>3. QED
      BY <3>1, <3>2 DEF Requests
  <2>4. req'[q].alone => Administrating' = {q}
    BY <2>2, <2>3 DEF Administrating
  <2>5. QED
    BY <2>1, <2>2, <2>4 DEF Changing, IsAdmin, SignedIn, Usable, MayChange
(* The request goes on.                                                    *)
<1>2. ASSUME SameMark(q) PROVE Changing(q)'
  <2>1. /\ q \in Administrating
        /\ req'[q].who = req[q].who /\ req'[q].set = req[q].set
        /\ req'[q].jar = req[q].jar
        /\ req'[q].alone => req[q].alone
    BY <1>2 DEF SameMark, Administrating
  <2>2. Changing(q)
    BY <2>1 DEF AdminInv
  <2>3. req[q].who \in User
    BY <1>a, <2>1 DEF Administrating
  <2>4. ASSUME req'[q].alone PROVE Administrating' = {q}
    <3>1. ASSUME NEW p \in Request, p # q, req'[p].at \in {"role", "active"} PROVE FALSE
      <4>1. CASE SameMark(p)
        BY <2>1, <2>2, <2>4, <3>1, <4>1 DEF SameMark, Changing, Administrating
      <4>2. CASE \E b \in Browser, u \in User, column \in {"role", "active"}, value \in BOOLEAN :
                     StartAdmin(p, b, column, u, value)
        <5>1. req'[q] = [req[q] EXCEPT !.alone = @ /\ q \notin Administrating]
          BY <3>1, <4>2 DEF StartAdmin
        <5>2. QED
          BY <1>a, <2>1, <2>4, <5>1 DEF Requests
      <4>3. CASE \E b \in Browser, u \in User, s \in Subject : StartUnlink(p, b, u, s)
        <5>1. req'[p].at = "unlink"
          BY <1>a, <4>3 DEF StartUnlink, Idle
        <5>2. QED
          BY <3>1, <5>1
      <4>4. QED
        BY <3>1, <4>1, <4>2, <4>3, MarksKept DEF Marked
    <3>2. QED
      BY <3>1 DEF Administrating
  <2>5. ASSUME req'[q].alone
        PROVE  Usable(req[q].jar.user)' /\ row'[req'[q].jar.user].admin
    <3>1. CASE Kept
      BY <2>1, <2>2, <2>5, <3>1 DEF Changing, Usable, Kept
    <3>2. CASE \E r \in Request : FinishAdmin(r)
      <4>1. PICK r \in Request : FinishAdmin(r)
        BY <3>2
      <4>2. r \in Administrating /\ r # q
        BY <1>a, <4>1 DEF FinishAdmin, Administrating, Idle
      <4>3. QED
        BY <2>1, <2>2, <2>5, <4>2 DEF Changing
    <3>3. QED
      BY <3>1, <3>2, RowsKept
  <2>6. QED
    BY <1>b, <2>1, <2>2, <2>3, <2>4, <2>5 DEF Changing, Grows
<1>3. ASSUME NEW b \in Browser, NEW u \in User, NEW s \in Subject, StartUnlink(q, b, u, s)
      PROVE  FALSE
  BY <1>a, <1>3 DEF StartUnlink, Idle
<1>4. QED
  BY <1>1, <1>2, <1>3, MarksKept DEF Marked

LEMMA InvInit == Init => IInv
<1> SUFFICES ASSUME Init PROVE IInv
    OBVIOUS
<1>1. \A r \in Request : req[r].at = "idle"
  BY DEF Init, Idle
<1>2. UnlinkInv /\ AdminInv
  BY <1>1 DEF UnlinkInv, AdminInv, Administrating
<1>3. QED
  BY <1>2, TypeInit, LinkInit DEF IInv

(* An account is made together with a way to sign in.                      *)
LEMMA NewCanSignIn ==
    ASSUME TypeInv, AdminInv, [Next]_vars,
           NEW u \in User, ~row[u].exists, row'[u].exists
    PROVE  CanSignIn(u)'
<1>a. row \in [User -> Rows] /\ identity \in [Subject -> User \cup {None}] /\ TypeOK
  BY DEF TypeInv, TypeOK
<1>1. ASSUME UNCHANGED row PROVE FALSE
  BY <1>1
<1>2. ASSUME NEW r \in Request, row' = Promoted(r) PROVE FALSE
  BY <1>a, <1>2, PromotedRows
<1>3. ASSUME NEW r \in Request, NEW users, Staged(r, users), users = row \/ users = Promoted(r)
      PROVE  CanSignIn(u)'
  <2>1. CASE req[r].at = "provision"
    <3>1. req[r].who \in User /\ req[r].sub \in Subject
      BY <2>1 DEF TypeInv, Holds, Nameless, OfSubject, Claiming
    <3>2. row' = [row EXCEPT ![req[r].who] = NewAccount(req[r].who, FALSE)]
      BY <1>3, <2>1 DEF Staged
    <3>3. u = req[r].who
      BY <1>a, <3>1, <3>2
    <3>4. identity'[req[r].sub] = u
      BY <1>3, <1>a, <2>1, <3>1, <3>3 DEF Staged
    <3>5. QED
      BY <3>1, <3>4 DEF CanSignIn, Identities
  <2>2. CASE req[r].at # "provision"
    BY <1>1, <1>2, <1>3, <2>2 DEF Staged
  <2>3. QED
    BY <2>1, <2>2
<1>4. ASSUME NEW r \in Request, FinishSignup(r) PROVE CanSignIn(u)'
  <2>1. req[r].who \in User
    BY <1>4 DEF FinishSignup, TypeInv, Holds, Nameless
  <2>2. row' = [row EXCEPT ![req[r].who] = NewAccount(req[r].who, TRUE)]
    BY <1>4 DEF FinishSignup
  <2>3. u = req[r].who
    BY <1>a, <2>1, <2>2
  <2>4. QED
    BY <1>a, <2>1, <2>2, <2>3 DEF CanSignIn, NewAccount
<1>5. ASSUME NEW r \in Request, FinishLogin(r) \/ FinishCallback(r) \/ SyncCommits(r)
      PROVE  CanSignIn(u)'
  BY <1>2, <1>3, <1>5 DEF FinishLogin, FinishCallback, SyncCommits
<1>6. ASSUME NEW r \in Request, FinishAdmin(r) PROVE FALSE
  <2>1. req[r].who \in User
    BY <1>6 DEF FinishAdmin, TypeInv, Holds, Nameless
  <2>2. QED
    BY <1>6, <1>a, <2>1 DEF FinishAdmin, Rows
<1>7. ASSUME NEW r \in Request, NEW b \in Browser, Start(r, b) PROVE FALSE
  BY <1>1, <1>7
     DEF Start, StartSignup, StartLogin, Load, StartLink, Redirect, StartAtProvider,
         StartUnlink, StartAdmin, StartCallback, tables
<1>8. ASSUME NEW r \in Request,
             \/ FinishRedirect(r) \/ RefuseCallback(r) \/ BlockDomain(r) \/ ResolveLink(r)
             \/ RefuseLink(r) \/ FinishLink(r) \/ ResolveLogin(r) \/ RefuseLogin(r)
             \/ FinishUnlink(r) \/ Abort(r)
      PROVE  FALSE
  BY <1>1, <1>8
     DEF FinishRedirect, RefuseCallback, BlockDomain, ResolveLink, RefuseLink, FinishLink,
         ResolveLogin, RefuseLogin, FinishUnlink, Abort, Goto, tables
<1>9. QED
  BY <1>1, <1>4, <1>5, <1>6, <1>7, <1>8 DEF Next, Continue, ContinueCallback, Logout, tables, vars

LEMMA SignInNext ==
    ASSUME IInv, [Next]_vars, NEW u \in User,
           row'[u].exists, row[u].exists => CanSignIn(u), ~CanSignIn(u)'
    PROVE  \E r \in Request : req[r].at = "unlink" /\ req[r].who = u /\ ~req[r].alone
<1>1. row[u].exists
  BY NewCanSignIn DEF IInv
<1>2. ~row[u].password
  BY <1>1, RowsGrow DEF IInv, Grows, CanSignIn
<1>3. PICK s \in Subject : identity[s] = u
  BY <1>1, <1>2 DEF CanSignIn, Identities
<1>4. identity'[s] # u
  BY DEF CanSignIn, Identities
<1>5. PICK r \in Request : FinishUnlink(r)
  BY <1>3, <1>4, IdentitiesKept, AccountsAssumption DEF IInv
<1>6. identity' = [identity EXCEPT ![req[r].sub] = None] /\ req[r].at = "unlink"
  BY <1>5 DEF FinishUnlink
<1>7. identity \in [Subject -> User \cup {None}]
  BY DEF IInv, TypeInv, TypeOK
<1>8. req[r].sub = s
  BY <1>3, <1>4, <1>6, <1>7
<1>9. req[r].who = u
  BY <1>3, <1>6, <1>8 DEF IInv, UnlinkInv
<1>10. ASSUME req[r].alone PROVE FALSE
  <2>1. PICK t \in Subject \ {s} : identity[t] = u
    BY <1>2, <1>6, <1>8, <1>9, <1>10 DEF IInv, UnlinkInv, LeavesOne
  <2>2. identity'[t] = u
    BY <1>6, <1>7, <1>8, <2>1
  <2>3. QED
    BY <2>2 DEF CanSignIn, Identities
<1>11. QED
  BY <1>6, <1>9, <1>10

LEMMA AdminStays ==
    ASSUME IInv, [Next]_vars, HasAdmin, ~HasAdmin'
    PROVE  \E r \in Administrating : ~req[r].alone
<1>1. PICK r \in Request : FinishAdmin(r)
  <2>1. ~Kept
    BY DEF HasAdmin, Usable, Kept
  <2>2. QED
    BY <2>1, RowsKept DEF IInv
<1>2. r \in Administrating
  BY <1>1 DEF FinishAdmin, Administrating
<1>3. row \in [User -> Rows]
  BY DEF IInv, TypeInv, TypeOK
<1>4. ASSUME req[r].alone PROVE FALSE
  <2> DEFINE actor == req[r].jar.user
  <2>1. /\ actor \in User /\ Usable(actor) /\ row[actor].admin
        /\ req[r].who = actor => req[r].set
    BY <1>2, <1>4 DEF IInv, AdminInv, Changing
  <2>2. row'[actor].exists /\ row'[actor].active /\ row'[actor].admin
    BY <1>1, <1>3, <2>1 DEF FinishAdmin, Usable, Rows
  <2>3. QED
    BY <2>1, <2>2 DEF HasAdmin, Usable
<1>5. QED
  BY <1>2, <1>4

LEMMA ColumnsNext ==
    ASSUME IInv, [Next]_vars, NEW u \in User, row[u].exists
    PROVE  /\ row'[u].password = row[u].password
           /\ row'[u].active # row[u].active =>
                 \E r \in Request : /\ req[r].at = "active"
                                    /\ req[r].who = u
                                    /\ req[r].set = row'[u].active
           /\ row[u].admin /\ ~row'[u].admin =>
                 \E r \in Request : /\ req[r].at = "role"
                                    /\ req[r].who = u
                                    /\ ~req[r].set
<1>1. row'[u].password = row[u].password
  BY RowsGrow DEF IInv, Grows
<1>2. CASE Kept
  BY <1>1, <1>2 DEF Kept
<1>3. ASSUME NEW r \in Request, FinishAdmin(r)
      PROVE  /\ row'[u].active # row[u].active =>
                    req[r].at = "active" /\ req[r].who = u /\ req[r].set = row'[u].active
             /\ row[u].admin /\ ~row'[u].admin =>
                    req[r].at = "role" /\ req[r].who = u /\ ~req[r].set
  BY <1>3 DEF FinishAdmin, IInv, TypeInv, TypeOK, Rows
<1>4. QED
  BY <1>1, <1>2, <1>3, RowsKept DEF IInv

(* Every variable keeps its type.                                          *)
THEOREM TypeCorrect == Spec => []TypeOK
<1>1. TypeInv => TypeOK
  BY DEF TypeInv
<1>2. QED
  BY <1>1, TypeInit, TypeNext, PTL DEF Spec

(* The invariant that ties accounts, identities, cookies and requests.     *)
THEOREM Invariance == Spec => []IInv
<1>1. IInv /\ [Next]_vars => IInv'
  BY TypeNext, LinkNext, UnlinkNext, AdminNext DEF IInv
<1>2. QED
  BY <1>1, InvInit, PTL DEF Spec

(* An identity has an account whose email the provider asserted with it.   *)
THEOREM MailMatches == Spec => []IdentityMatchesMail
<1>1. IInv => IdentityMatchesMail
  BY DEF IInv, LinkInv, IdentityMatchesMail
<1>2. QED
  BY <1>1, Invariance, PTL

(* An account with a password has identities only after confirming it.     *)
THEOREM PasswordGuards == Spec => []PasswordGuardsIdentities
<1>1. IInv => PasswordGuardsIdentities
  BY AccountsAssumption
     DEF IInv, LinkInv, Linkable, PasswordGuardsIdentities, Identities
<1>2. QED
  BY <1>1, Invariance, PTL

(* Only unlink requests that overlap take an account its last way in.      *)
THEOREM SignInKept == Spec => SignInMethodKept
<1>1. IInv /\ [Next]_vars =>
          [\A u \in User :
              /\ row'[u].exists
              /\ row[u].exists => CanSignIn(u)
              /\ ~CanSignIn(u)'
              => \E r \in Request : req[r].at = "unlink" /\ req[r].who = u /\ ~req[r].alone]_vars
  BY SignInNext
<1>2. QED
  BY <1>1, Invariance, PTL DEF Spec, SignInMethodKept

(* Only requests of administrators that overlap leave no administrator.    *)
THEOREM AdminRemains == Spec => AdministratorRemains
<1>1. IInv /\ [Next]_vars =>
          [HasAdmin /\ ~HasAdmin' => \E r \in Administrating : ~req[r].alone]_vars
  BY AdminStays
<1>2. QED
  BY <1>1, Invariance, PTL DEF Spec, AdministratorRemains

(* No write undoes what another request wrote to another column.           *)
THEOREM ColumnsOwn == Spec => ColumnsAreTheirOwn
<1>1. IInv /\ [Next]_vars =>
          [\A u \in User : row[u].exists =>
              /\ row'[u].password = row[u].password
              /\ row'[u].active # row[u].active =>
                    \E r \in Request : /\ req[r].at = "active"
                                       /\ req[r].who = u
                                       /\ req[r].set = row'[u].active
              /\ row[u].admin /\ ~row'[u].admin =>
                    \E r \in Request : /\ req[r].at = "role"
                                       /\ req[r].who = u
                                       /\ ~req[r].set]_vars
  BY ColumnsNext
<1>2. QED
  BY <1>1, Invariance, PTL DEF Spec, ColumnsAreTheirOwn
=============================================================================
