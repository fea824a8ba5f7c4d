--------------------------- MODULE AuthSessions -----------------------------
(***************************************************************************)
(* AuthService (application/auth/service.py): register, login, refresh,    *)
(* request_password_reset and reset_password, one action per awaited       *)
(* database call.  An HTTP call is a member of Call; the session a call    *)
(* issues, and the reset token it offers, carry its name, as the code      *)
(* draws a fresh uuid4 for each.  An access token and a refresh token that *)
(* are issued together are one pair, named by their session.  Nothing here *)
(* makes a handler finish: one that dies, or whose answer is lost, is one  *)
(* that takes no further step.                                             *)
(***************************************************************************)
EXTENDS Naturals, FiniteSets

CONSTANTS
    None,       \* no value
    User,       \* accounts of the company, registered or not
    Call        \* HTTP calls to the /auth endpoints

VARIABLES
    account,    \* users: the status of each account
    session,    \* auth_sessions, by the call that issued them
    resetToken, \* password_reset_tokens, by the call that offered them
    expired,    \* tokens past their lifetime, by kind and by name
    call        \* where each HTTP call stands, and its local variables

authVars == <<account, session, resetToken, expired, call>>

SessionDoc ==
    [status : {"absent", "active", "rotated", "revoked"}, user : User \cup {None},
     from : Call \cup {None}]

NoSession == [status |-> "absent", user |-> None, from |-> None]

TokenDoc == [status : {"absent", "unused", "used"}, user : User \cup {None}]

NoToken == [status |-> "absent", user |-> None]

Endpoint == {"login", "register", "refresh", "forgot", "reset"}

ASSUME AuthAssumption == None \notin User \cup Call \cup Endpoint

AuthRunning == {"sent", "enrol", "rotate", "issue", "retire", "offer", "password", "revoke"}
AuthEnded == {"granted", "done", "unauthorized", "conflict"}

(* token: the session a refresh presents, or the reset token of a reset.   *)
CallDoc ==
    [pc : {"idle"} \cup AuthRunning \cup AuthEnded, kind : Endpoint \cup {None},
     user : User \cup {None}, token : Call \cup {None}]

NoCall == [pc |-> "idle", kind |-> None, user |-> None, token |-> None]

AuthTypeOK ==
    /\ account \in [User -> {"absent", "active", "disabled"}]
    /\ session \in [Call -> SessionDoc]
    /\ resetToken \in [Call -> TokenDoc]
    /\ expired \in SUBSET ({"access", "refresh", "reset"} \X Call)
    /\ call \in [Call -> CallDoc]

AuthInit ==
    /\ account \in [User -> {"absent", "active"}]
    /\ session = [c \in Call |-> NoSession]
    /\ resetToken = [c \in Call |-> NoToken]
    /\ expired = {}
    /\ call = [c \in Call |-> NoCall]

Goto(c, pc) == call' = [call EXCEPT ![c].pc = pc]

(* The account a handler works for, once it has looked it up. *)
Serve(c, pc, u) == call' = [call EXCEPT ![c].pc = pc, ![c].user = u]

Arrived(c, kind) == call[c].pc = "sent" /\ call[c].kind = kind

Past(kind, k) == <<kind, k>> \in expired

(* get_current_principal: the access token is unexpired and its user is    *)
(* looked up, alive.  The session behind it is not consulted.              *)
Authorised(s) ==
    /\ s # None
    /\ ~Past("access", s)
    /\ account[session[s].user] = "active"

-----------------------------------------------------------------------------
(* login, register, refresh, and the tokens they end with. *)

(* The password typed is the account's, or it is not. *)
Login(c) ==
    /\ Arrived(c, "login")
    /\ \/ account[call[c].user] = "active" /\ Goto(c, "issue")
       \/ Goto(c, "unauthorized")
    /\ UNCHANGED <<account, session, resetToken, expired>>

CheckNames(c) ==
    /\ Arrived(c, "register")
    /\ Goto(c, IF account[call[c].user] = "absent" THEN "enrol" ELSE "conflict")
    /\ UNCHANGED <<account, session, resetToken, expired>>

(* uq_users_email and uq_users_username decide between two that saw none. *)
InsertUser(c) ==
    /\ call[c].pc = "enrol"
    /\ IF account[call[c].user] = "absent"
       THEN /\ account' = [account EXCEPT ![call[c].user] = "active"]
            /\ Goto(c, "issue")
       ELSE Goto(c, "conflict") /\ UNCHANGED account
    /\ UNCHANGED <<session, resetToken, expired>>

(* The refresh token has not expired, the session is found active and its  *)
(* user alive.                                                             *)
FindSession(c) ==
    LET s == session[call[c].token] IN
    /\ Arrived(c, "refresh")
    /\ IF ~Past("refresh", call[c].token) /\ s.status = "active" /\ account[s.user] = "active"
       THEN Serve(c, "rotate", s.user)
       ELSE Goto(c, "unauthorized")
    /\ UNCHANGED <<account, session, resetToken, expired>>

(* Mutant: the session is updated whatever became of it since it was found. *)
RotateAnyway(c) ==
    /\ call[c].pc = "rotate"
    /\ session' = [session EXCEPT ![call[c].token].status = "rotated"]
    /\ Goto(c, "issue")
    /\ UNCHANGED <<account, resetToken, expired>>

(* update_one on the session if it is still active. *)
Rotate(c) ==
    LET s == call[c].token IN
    /\ call[c].pc = "rotate"
    /\ IF session[s].status = "active"
       THEN session' = [session EXCEPT ![s].status = "rotated"] /\ Goto(c, "issue")
       ELSE Goto(c, "unauthorized") /\ UNCHANGED session
    /\ UNCHANGED <<account, resetToken, expired>>

(* _issue_tokens.  from: the session this one succeeds, if it is a refresh's. *)
IssueTokens(c) ==
    /\ call[c].pc = "issue"
    /\ session' = [session EXCEPT ![c] =
                     [status |-> "active", user |-> call[c].user, from |-> call[c].token]]
    /\ Goto(c, "granted")
    /\ UNCHANGED <<account, resetToken, expired>>

-----------------------------------------------------------------------------
(* request_password_reset and reset_password. *)

FindUser(c) ==
    /\ Arrived(c, "forgot")
    /\ Goto(c, IF account[call[c].user] = "active" THEN "retire" ELSE "done")
    /\ UNCHANGED <<account, session, resetToken, expired>>

RetireTokens(c) ==
    /\ call[c].pc = "retire"
    /\ resetToken' = [k \in Call |->
                        IF resetToken[k].user = call[c].user /\ resetToken[k].status = "unused"
                        THEN [resetToken[k] EXCEPT !.status = "used"]
                        ELSE resetToken[k]]
    /\ Goto(c, "offer")
    /\ UNCHANGED <<account, session, expired>>

OfferToken(c) ==
    /\ call[c].pc = "offer"
    /\ resetToken' = [resetToken EXCEPT ![c] = [status |-> "unused", user |-> call[c].user]]
    /\ Goto(c, "done")
    /\ UNCHANGED <<account, session, expired>>

(* Mutant: the filter on used_at is missing. *)
RedeemAny(c) ==
    LET k == call[c].token IN
    /\ Arrived(c, "reset")
    /\ ~Past("reset", k)
    /\ resetToken' = [resetToken EXCEPT ![k].status = "used"]
    /\ Serve(c, "password", resetToken[k].user)
    /\ UNCHANGED <<account, session, expired>>

(* find_one_and_update on an unused token that has not expired. *)
Redeem(c) ==
    LET k == call[c].token IN
    /\ Arrived(c, "reset")
    /\ IF ~Past("reset", k) /\ resetToken[k].status = "unused"
       THEN /\ resetToken' = [resetToken EXCEPT ![k].status = "used"]
            /\ Serve(c, "password", resetToken[k].user)
       ELSE Goto(c, "unauthorized") /\ UNCHANGED resetToken
    /\ UNCHANGED <<account, session, expired>>

SetPassword(c) ==
    /\ call[c].pc = "password"
    /\ Goto(c, "revoke")
    /\ UNCHANGED <<account, session, resetToken, expired>>

(* Mutant: the status of the other collections. *)
DeactivateSessions(c) ==
    /\ call[c].pc = "revoke"
    /\ session' = [s \in Call |->
                     IF session[s].user = call[c].user /\ session[s].status = "active"
                     THEN [session[s] EXCEPT !.status = "inactive"]
                     ELSE session[s]]
    /\ Goto(c, "done")
    /\ UNCHANGED <<account, resetToken, expired>>

RevokeSessions(c) ==
    /\ call[c].pc = "revoke"
    /\ session' = [s \in Call |->
                     IF session[s].user = call[c].user /\ session[s].status = "active"
                     THEN [session[s] EXCEPT !.status = "revoked"]
                     ELSE session[s]]
    /\ Goto(c, "done")
    /\ UNCHANGED <<account, resetToken, expired>>

-----------------------------------------------------------------------------
(* EmployeeService.deactivate_employee disables the account. *)
Disable(u) ==
    /\ account[u] = "active"
    /\ account' = [account EXCEPT ![u] = "disabled"]
    /\ UNCHANGED <<session, resetToken, expired, call>>

(* A token reaches the end of its lifetime: its exp claim, and expires_at  *)
(* of its document, which is set to the same time.                         *)
Expires(kind, k) ==
    /\ ~Past(kind, k)
    /\ expired' = expired \cup {<<kind, k>>}
    /\ UNCHANGED <<account, session, resetToken, call>>

ExpireAccess(s) == session[s].status # "absent" /\ Expires("access", s)

(* The settings let no access token outlive its refresh token.  A session  *)
(* that is no longer active is refused whether it has expired or not.      *)
ExpireRefresh(s) ==
    /\ session[s].status = "active"
    /\ Past("access", s)
    /\ Expires("refresh", s)

(* So is a reset token that was used. *)
ExpireReset(k) == resetToken[k].status = "unused" /\ Expires("reset", k)

Expire(c) == ExpireAccess(c) \/ ExpireRefresh(c) \/ ExpireReset(c)

HandlerStep(c) ==
    \/ Login(c) \/ CheckNames(c) \/ InsertUser(c)
    \/ FindSession(c) \/ Rotate(c) \/ IssueTokens(c)
    \/ FindUser(c) \/ RetireTokens(c) \/ OfferToken(c)
    \/ Redeem(c) \/ SetPassword(c) \/ RevokeSessions(c)

AuthNext ==
    \/ \E c \in Call : HandlerStep(c) \/ Expire(c)
    \/ \E u \in User : Disable(u)
=============================================================================
