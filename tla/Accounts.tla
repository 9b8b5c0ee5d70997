------------------------------ MODULE Accounts ------------------------------
(***************************************************************************)
(* Accounts, the identities of single sign-on linked to them, the signed   *)
(* session cookie of each browser, and the requests that change them       *)
(* (web/routes/auth/*.py, web/routes/admin.py, auth.py, services           *)
(* auth_service, oidc_service, oidc_persistence_service, admin_service).   *)
(*                                                                         *)
(* An account is named by its email, which is unique and never changes;    *)
(* accounts are never deleted.  A subject is a pair of provider and sub.   *)
(* A request loads rows and its browser's cookie, awaits, and writes and   *)
(* answers later; what it loaded stays as it was.  Writes that collide on  *)
(* a unique constraint make the later request fail (Abort), so they are    *)
(* one step with their commit.  The answer sets the cookie to the copy     *)
(* the request loaded, with its changes, which req keeps in jar as soon as *)
(* they are known.                                                         *)
(***************************************************************************)
EXTENDS FiniteSets

CONSTANTS
    User,       \* emails, each the name of an account
    Subject,    \* provider and sub pairs
    Claim,      \* <<subject, email>> a provider asserts with a verified email
    Calendar,   \* subjects of the provider whose calendar token is captured
    Bootstrap,  \* the configured administrator's email, or nothing
    Browser,
    Request,    \* requests served at the same time
    None

ASSUME AccountsAssumption ==
    /\ Claim \subseteq Subject \X User
    /\ Calendar \subseteq Subject
    /\ Bootstrap \subseteq User
    /\ None \notin User \cup Subject \cup Browser

VARIABLES
    row,       \* users
    identity,  \* user_id of each subject's external identity
    session,   \* session cookie of each browser
    req,       \* what each request has loaded, and where it is
    proved     \* history: users who typed their password to link

tables == <<row, identity>>
vars == <<row, identity, session, req, proved>>

-----------------------------------------------------------------------------
Absent == [exists |-> FALSE, password |-> FALSE, admin |-> FALSE, active |-> FALSE]
Nobody == [user |-> None, link |-> None]
Idle == [at |-> "idle", in |-> None, jar |-> Nobody, who |-> None,
         sub |-> None, old |-> Absent, set |-> FALSE, alone |-> TRUE]

NewAccount(u, password) ==
    [exists |-> TRUE, password |-> password, admin |-> u \in Bootstrap, active |-> TRUE]

Usable(u) == row[u].exists /\ row[u].active

(* require_user: the account of the cookie, if it is there and active.     *)
SignedIn(b, u) == session[b].user = u /\ Usable(u)

(* require_admin                                                           *)
IsAdmin(b, u) == SignedIn(b, u) /\ row[u].admin

Identities(u) == {s \in Subject : identity[s] = u}

CanSignIn(u) == row[u].password \/ Identities(u) # {}

(* Mutant of Promoted: the UPDATE writes the whole row as it was loaded.   *)
PromotedWhole(r) ==
    LET u == req[r].who IN
    IF u \in Bootstrap /\ ~req[r].old.admin
    THEN [row EXCEPT ![u] = [req[r].old EXCEPT !.admin = TRUE]]
    ELSE row

(* promote_bootstrap_admin_if_needed, maybe_promote_bootstrap_admin_flush_ *)
(* only: by the role as loaded, and the UPDATE writes that column only.    *)
Promoted(r) ==
    LET u == req[r].who IN
    IF u \in Bootstrap /\ ~req[r].old.admin
    THEN [row EXCEPT ![u].admin = TRUE]
    ELSE row

-----------------------------------------------------------------------------
Init ==
    /\ row = [u \in User |-> Absent]
    /\ identity = [s \in Subject |-> None]
    /\ session = [b \in Browser |-> Nobody]
    /\ req = [r \in Request |-> Idle]
    /\ proved = {}

Load(r, b, at, u) ==
    /\ req[r].at = "idle"
    /\ req' = [req EXCEPT ![r] =
           [Idle EXCEPT !.at = at, !.in = b, !.who = u, !.old = row[u],
                        !.jar = [session[b] EXCEPT !.user = u]]]
    /\ UNCHANGED <<tables, session, proved>>

Answer(r, cookie) ==
    /\ session' = [session EXCEPT ![req[r].in] = cookie]
    /\ req' = [req EXCEPT ![r] = Idle]

(* Mutant of AnswerAs: the provider's sub is taken for the user's id.      *)
AnswerAsSubject(r, u) == Answer(r, [req[r].jar EXCEPT !.user = req[r].sub])

AnswerAs(r, u) == Answer(r, [req[r].jar EXCEPT !.user = u])

(* The handler raises, a constraint refuses its write, or the client goes: *)
(* what it has not committed is rolled back.                               *)
Abort(r) ==
    /\ req[r].at # "idle"
    /\ req' = [req EXCEPT ![r] = Idle]
    /\ UNCHANGED <<tables, session, proved>>

-----------------------------------------------------------------------------
(* POST /signup                                                            *)
StartSignup(r, b, u) == ~row[u].exists /\ Load(r, b, "signup", u)

FinishSignup(r) ==
    LET u == req[r].who IN
    /\ req[r].at = "signup"
    /\ ~row[u].exists
    /\ row' = [row EXCEPT ![u] = NewAccount(u, TRUE)]
    /\ AnswerAs(r, u)
    /\ UNCHANGED <<identity, proved>>

(* POST /login with the right password; a wrong one changes nothing here.  *)
StartLogin(r, b, u) ==
    /\ Usable(u)
    /\ row[u].password
    /\ Load(r, b, "login", u)

FinishLogin(r) ==
    /\ req[r].at = "login"
    /\ row' = Promoted(r)
    /\ AnswerAs(r, req[r].who)
    /\ UNCHANGED <<identity, proved>>

(* POST /logout                                                            *)
Logout(b) ==
    /\ session' = [session EXCEPT ![b] = Nobody]
    /\ UNCHANGED <<tables, req, proved>>

-----------------------------------------------------------------------------
(* Mutant of PasswordAsked: an account's password is not asked for.        *)
PasswordNotAsked(u, typed) == TRUE

PasswordAsked(u, typed) == row[u].password => typed

(* A request whose answer only sets the cookie.                            *)
Redirect(r, b, cookie) ==
    /\ req[r].at = "idle"
    /\ req' = [req EXCEPT ![r] = [Idle EXCEPT !.at = "redirect", !.in = b, !.jar = cookie]]
    /\ UNCHANGED <<tables, session>>

(* POST /profile/identities/link/start.  The id stays in the cookie until  *)
(* a callback removes it; only logging out clears it otherwise.            *)
StartLink(r, b, u) ==
    /\ SignedIn(b, u)
    /\ \E typed \in BOOLEAN :
         /\ PasswordAsked(u, typed)
         /\ proved' = IF typed /\ row[u].password THEN proved \cup {u} ELSE proved
    /\ Redirect(r, b, [session[b] EXCEPT !.link = u])

(* GET /auth/oidc/start, /auth/oidc/keycloak/start: the OAuth client keeps *)
(* its state in the cookie.                                                *)
StartAtProvider(r, b) == Redirect(r, b, session[b]) /\ UNCHANGED proved

FinishRedirect(r) ==
    /\ req[r].at = "redirect"
    /\ Answer(r, req[r].jar)
    /\ UNCHANGED <<tables, proved>>

(* GET /auth/oidc/callback, /auth/oidc/keycloak/callback: the token is     *)
(* exchanged after the cookie's link id was read.                          *)
StartCallback(r, b, claim) ==
    /\ req[r].at = "idle"
    /\ req' = [req EXCEPT ![r] =
           [Idle EXCEPT !.at = "callback", !.in = b, !.jar = session[b],
                        !.sub = claim[1], !.who = claim[2]]]
    /\ UNCHANGED <<tables, session, proved>>

(* Refused: the token exchange, the claims or the rate limit.              *)
(* render_link_error takes the link id out of the cookie.                  *)
RefuseCallback(r) ==
    /\ req[r].at = "callback"
    /\ Answer(r, [req[r].jar EXCEPT !.link = None])
    /\ UNCHANGED <<tables, proved>>

(* domain_block_response: the link id stays.  The OAuth client has taken   *)
(* its state out of the cookie, so that this answer sets the cookie too.   *)
BlockDomain(r) ==
    /\ req[r].at = "callback"
    /\ Answer(r, req[r].jar)
    /\ UNCHANGED <<tables, proved>>

Goto(r, at, u, old) ==
    /\ req' = [req EXCEPT ![r].at = at, ![r].who = u, ![r].old = old,
                          ![r].jar = [user |-> u, link |-> None]]
    /\ UNCHANGED <<tables, session, proved>>

(* Mutant of LinkFits: the email of the claims is not compared.            *)
LinkFitsAnyMail(u, s, mail) == identity[s] \in {None, u}

(* resolve_oidc_link_resolution                                            *)
LinkFits(u, s, mail) == identity[s] \in {None, u} /\ mail = u

(* handle_link_callback                                                    *)
ResolveLink(r) ==
    LET u == req[r].jar.link
        s == req[r].sub
    IN  /\ req[r].at = "callback"
        /\ u # None
        /\ Usable(u)
        /\ LinkFits(u, s, req[r].who)
        /\ Goto(r, IF identity[s] = None THEN "link" ELSE "linked", u, Absent)

RefuseLink(r) ==
    LET u == req[r].jar.link IN
    /\ req[r].at = "callback"
    /\ u # None
    /\ ~(Usable(u) /\ LinkFits(u, req[r].sub, req[r].who))
    /\ Answer(r, [req[r].jar EXCEPT !.link = None])
    /\ UNCHANGED <<tables, proved>>

FinishLink(r) ==
    LET u == req[r].who
        s == req[r].sub
    IN  /\ \/ /\ req[r].at = "link"
              /\ identity[s] = None
              /\ identity' = [identity EXCEPT ![s] = u]
           \/ req[r].at = "linked" /\ UNCHANGED identity
        /\ AnswerAs(r, u)
        /\ UNCHANGED <<row, proved>>

-----------------------------------------------------------------------------
(* resolve_oidc_login_resolution: a linked identity, a first login, or an  *)
(* account without password that gets its identity; all others are refused *)
ResolveLogin(r) ==
    LET s == req[r].sub
        mail == req[r].who
    IN  /\ req[r].at = "callback"
        /\ req[r].jar.link = None
        /\ \/ /\ identity[s] # None
              /\ Usable(identity[s])
              /\ Goto(r, "signin", identity[s], row[identity[s]])
           \/ /\ identity[s] = None
              /\ ~row[mail].exists
              /\ Goto(r, "provision", mail, Absent)
           \/ /\ identity[s] = None
              /\ Usable(mail)
              /\ ~row[mail].password
              /\ Goto(r, "adopt", mail, row[mail])

RefuseLogin(r) ==
    LET s == req[r].sub
        mail == req[r].who
    IN  /\ req[r].at = "callback"
        /\ req[r].jar.link = None
        /\ \/ identity[s] # None /\ ~Usable(identity[s])
           \/ /\ identity[s] = None
              /\ row[mail].exists
              /\ ~row[mail].active \/ row[mail].password
        /\ Answer(r, req[r].jar)
        /\ UNCHANGED <<tables, proved>>

(* stage_user_provision_for_oidc, stage_oidc_identity_if_needed: what the  *)
(* session has flushed, if the unique constraints accept it.               *)
Staged(r, users) ==
    LET u == req[r].who
        s == req[r].sub
    IN  \/ req[r].at = "signin" /\ row' = users /\ UNCHANGED identity
        \/ /\ req[r].at = "adopt"
           /\ identity[s] = None
           /\ row' = users
           /\ identity' = [identity EXCEPT ![s] = u]
        \/ /\ req[r].at = "provision"
           /\ ~row[u].exists
           /\ identity[s] = None
           /\ row' = [row EXCEPT ![u] = NewAccount(u, FALSE)]
           /\ identity' = [identity EXCEPT ![s] = u]

(* should_capture_google_calendar_token: at the provider that is asked for *)
(* the calendar's scope, if it is granted.                                 *)
Captured(s) == s \in Calendar

(* The first synchronisation of a captured calendar commits the session    *)
(* in the middle of the login; what fails in it is swallowed.              *)
SyncCommits(r) ==
    /\ Captured(req[r].sub)
    /\ Staged(r, row)
    /\ req' = [req EXCEPT ![r].at = "synced",
                          ![r].old = IF req[r].at = "provision" THEN row'[req[r].who] ELSE @]
    /\ UNCHANGED <<session, proved>>

(* handle_login_callback: promotion and the commit.                        *)
FinishCallback(r) ==
    /\ \/ Staged(r, Promoted(r))
       \/ req[r].at = "synced" /\ row' = Promoted(r) /\ UNCHANGED identity
    /\ AnswerAs(r, req[r].who)
    /\ UNCHANGED proved

-----------------------------------------------------------------------------
(* Mutant of MayUnlink: one identity counts as enough.                     *)
MayUnlinkOne(u, s) == identity[s] = u

(* unlink_oidc_identity_for_user                                           *)
MayUnlink(u, s) ==
    /\ identity[s] = u
    /\ row[u].password \/ \E t \in Subject \ {s} : identity[t] = u

(* History: requests of which none knows of the other.                     *)
Unlinking(u, s) == {q \in Request : req[q].at = "unlink" /\ req[q].who = u /\ req[q].sub # s}

Administrating == {q \in Request : req[q].at \in {"role", "active"}}

(* POST /profile/identities/{id}/unlink                                    *)
StartUnlink(r, b, u, s) ==
    LET others == Unlinking(u, s)
    IN  /\ req[r].at = "idle"
        /\ SignedIn(b, u)
        /\ MayUnlink(u, s)
        /\ req' = [q \in Request |->
               IF q = r THEN [Idle EXCEPT !.at = "unlink", !.in = b, !.who = u, !.sub = s,
                                          !.alone = others = {}]
               ELSE [req[q] EXCEPT !.alone = @ /\ q \notin others]]
        /\ UNCHANGED <<tables, session, proved>>

(* The row is deleted by its id: of several requests for one row the later *)
(* ones delete nothing.                                                    *)
FinishUnlink(r) ==
    /\ req[r].at = "unlink"
    /\ identity' = [identity EXCEPT ![req[r].sub] = None]
    /\ req' = [q \in Request |->
           IF q = r \/ (req[q].at = "unlink" /\ req[q].sub = req[r].sub) THEN Idle
           ELSE req[q]]
    /\ UNCHANGED <<row, session, proved>>

-----------------------------------------------------------------------------
(* Mutant of MayChange: administrators may change themselves.              *)
MayChangeSelf(actor, u, value) == row[u].exists

(* admin_update_user_role, admin_update_user_active: not one's own role or *)
(* activity away.                                                          *)
MayChange(actor, u, value) == row[u].exists /\ (u = actor => value)

(* POST /admin/users/{id}/role and /active                                 *)
StartAdmin(r, b, column, u, value) ==
    LET others == Administrating
    IN  /\ req[r].at = "idle"
        /\ \E actor \in User : IsAdmin(b, actor) /\ MayChange(actor, u, value)
        /\ req' = [q \in Request |->
               IF q = r THEN [Idle EXCEPT !.at = column, !.in = b, !.jar.user = session[b].user,
                                          !.who = u, !.old = row[u], !.set = value,
                                          !.alone = others = {}]
               ELSE [req[q] EXCEPT !.alone = @ /\ q \notin others]]
        /\ UNCHANGED <<tables, session, proved>>

(* update_user_role, update_user_active: nothing is written when the value *)
(* is the one loaded.                                                      *)
FinishAdmin(r) ==
    LET u == req[r].who
        value == req[r].set
    IN  /\ \/ /\ req[r].at = "role"
              /\ row' = IF value = req[r].old.admin THEN row
                        ELSE [row EXCEPT ![u].admin = value]
           \/ /\ req[r].at = "active"
              /\ row' = IF value = req[r].old.active THEN row
                        ELSE [row EXCEPT ![u].active = value]
        /\ req' = [req EXCEPT ![r] = Idle]
        /\ UNCHANGED <<identity, session, proved>>

-----------------------------------------------------------------------------
Start(r, b) ==
    \/ \E u \in User :
         \/ StartSignup(r, b, u)
         \/ StartLogin(r, b, u)
         \/ StartLink(r, b, u)
         \/ \E s \in Subject : StartUnlink(r, b, u, s)
         \/ \E column \in {"role", "active"}, value \in BOOLEAN :
                StartAdmin(r, b, column, u, value)
    \/ StartAtProvider(r, b)
    \/ \E claim \in Claim : StartCallback(r, b, claim)

(* The rest of a callback of either provider, from the token exchange on:  *)
(* a link if the cookie had an id, a login otherwise.                      *)
ContinueCallback(r) ==
    \/ RefuseCallback(r)
    \/ BlockDomain(r)
    \/ ResolveLink(r)
    \/ RefuseLink(r)
    \/ FinishLink(r)
    \/ ResolveLogin(r)
    \/ RefuseLogin(r)
    \/ SyncCommits(r)
    \/ FinishCallback(r)

Continue(r) ==
    \/ FinishRedirect(r)
    \/ FinishSignup(r)
    \/ FinishLogin(r)
    \/ ContinueCallback(r)
    \/ FinishUnlink(r)
    \/ FinishAdmin(r)

Next ==
    \/ \E b \in Browser :
         \/ Logout(b)
         \/ \E r \in Request : Start(r, b)
    \/ \E r \in Request : Continue(r) \/ Abort(r)

Spec == Init /\ [][Next]_vars

-----------------------------------------------------------------------------
Rows == [exists : BOOLEAN, password : BOOLEAN, admin : BOOLEAN, active : BOOLEAN]
Cookies == [user : User \cup {None}, link : User \cup {None}]
Steps == {"idle", "signup", "login", "redirect", "callback", "link", "linked", "signin",
          "provision", "adopt", "synced", "unlink", "role", "active"}
Requests == [at : Steps, in : Browser \cup {None}, jar : Cookies,
             who : User \cup {None}, sub : Subject \cup {None}, old : Rows,
             set : BOOLEAN, alone : BOOLEAN]

TypeOK ==
    /\ row \in [User -> Rows]
    /\ identity \in [Subject -> User \cup {None}]
    /\ session \in [Browser -> Cookies]
    /\ req \in [Request -> Requests]
    /\ proved \subseteq User

(* README.md: "Unlinking is blocked when it would remove the user's only   *)
(* sign-in method."                                                        *)
EveryUserCanSignIn == \A u \in User : row[u].exists => CanSignIn(u)

(* No account is made without a way to sign in, whatever fails in a first  *)
(* login, and an account only loses its last one to unlink requests that   *)
(* overlap.                                                                *)
SignInMethodKept ==
    [][\A u \in User :
          /\ row'[u].exists
          /\ row[u].exists => CanSignIn(u)
          /\ ~CanSignIn(u)'
          => \E r \in Request : req[r].at = "unlink" /\ req[r].who = u /\ ~req[r].alone]_vars

HasAdmin == \E u \in User : Usable(u) /\ row[u].admin

(* Nobody can take the role or activity from themselves, so while requests *)
(* of administrators do not overlap one of them is left.                   *)
AdministratorRemains ==
    [][HasAdmin /\ ~HasAdmin' => \E r \in Administrating : ~req[r].alone]_vars

(* Writes of objects loaded earlier touch the columns they are about: no   *)
(* login or change of role undoes a deactivation made meanwhile, and none  *)
(* takes back a role given meanwhile.                                      *)
ColumnsAreTheirOwn ==
    [][\A u \in User : row[u].exists =>
          /\ row'[u].password = row[u].password
          /\ row'[u].active # row[u].active =>
                \E r \in Request : /\ req[r].at = "active"
                                   /\ req[r].who = u
                                   /\ req[r].set = row'[u].active
          /\ row[u].admin /\ ~row'[u].admin =>
                \E r \in Request : /\ req[r].at = "role"
                                   /\ req[r].who = u
                                   /\ ~req[r].set]_vars

(* An identity belongs to an account whose email the provider asserted     *)
(* with it, also when a link id left in the cookie by an attempt that was  *)
(* given up makes a login of somebody else a link.                         *)
IdentityMatchesMail ==
    \A s \in Subject : identity[s] # None => <<s, identity[s]>> \in Claim

(* README.md: "Password-based accounts must confirm current password       *)
(* before starting the link flow."  No first login, adoption or link of an *)
(* other user gives such an account an identity without it.                *)
PasswordGuardsIdentities ==
    \A u \in User : row[u].password /\ Identities(u) # {} => u \in proved
=============================================================================
