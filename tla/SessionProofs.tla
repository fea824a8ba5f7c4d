--------------------------- MODULE SessionProofs ----------------------------
(***************************************************************************)
(* A refresh token buys one successor, a reset token one password, a page  *)
(* presents a token once and serves whoever waits, and renewal throws      *)
(* nobody out who works in one tab while the refresh token lasts, for any  *)
(* number of tabs, requests, calls, accounts and page loads.               *)
(***************************************************************************)
EXTENDS SessionSystem, TLAPS

-----------------------------------------------------------------------------
(* What a call is goes with where it stands. *)

Fits(x) ==
    /\ x.pc = "idle" <=> x.kind = None
    /\ x.kind \in {"login", "register"} => x.token = None
    /\ x.kind \in {"login", "register", "forgot"} => x.user \in User
    /\ x.kind \in {"refresh", "reset"} => x.token \in Call
    /\ x.pc = "enrol" => x.kind = "register"
    /\ x.pc = "rotate" => x.kind = "refresh"
    /\ x.pc \in {"issue", "granted"} => x.kind \in {"login", "register", "refresh"}
    /\ x.pc \in {"retire", "offer"} => x.kind = "forgot"
    /\ x.pc \in {"password", "revoke"} => x.kind = "reset"

CallInv == \A c \in Call : Fits(call[c])

(* A request knows its tab, a form what it sends, and only a form that is  *)
(* on its way has a call.                                                  *)
RequestFits(q) ==
    /\ q.pc # "idle" => q.tab \in Tab
    /\ q.kind # "refresh"
    /\ q.pc # "idle" => q.kind # None
    /\ q.kind \in {"login", "register"} => q.token = None
    /\ q.kind \in {"login", "register", "forgot"} => q.user \in User
    /\ q.kind = "reset" => q.token \in Call
    /\ q.call # None => q.pc = "sent" /\ q.kind \in Endpoint

RequestInv == \A r \in Request : RequestFits(request[r])

Base == TypeOK /\ CallInv /\ RequestInv

(* The calls a page begins; one without a company is refused at once. *)
Opened == {x \in CallDoc : x.pc \in {"sent", "conflict"} /\ x.kind # None /\ Fits(x)}

(* A handler's step moves its own call on, and keeps what the call is and  *)
(* presents.                                                               *)
Moved(c) ==
    /\ \A d \in Call \ {c} : call'[d] = call[d]
    /\ call[c].pc \in AuthRunning /\ call'[c].pc \in (AuthRunning \cup AuthEnded) \ {"sent"}
    /\ call'[c].kind = call[c].kind /\ call'[c].token = call[c].token

(* A step of the browser begins calls, and leaves the others alone. *)
Begun ==
    /\ call' = [d \in Call |-> call'[d]]
    /\ \A d \in Call : call'[d] = call[d] \/ (call[d].pc = "idle" /\ call'[d] \in Opened)
    /\ UNCHANGED <<account, session, resetToken, expired>>

(* Goto moves a running call on, and changes nothing else of it. *)
LEMMA GotoMoves ==
    ASSUME AuthTypeOK, NEW c \in Call, call[c].pc \in AuthRunning,
           NEW pc \in (AuthRunning \cup AuthEnded) \ {"sent"}, Goto(c, pc)
    PROVE  Moved(c) /\ call' \in [Call -> CallDoc] /\ call'[c].pc = pc /\ call'[c].user = call[c].user
BY DEF AuthTypeOK, Goto, Moved, CallDoc

(* So does Serve, which also notes the account. *)
LEMMA ServeMoves ==
    ASSUME AuthTypeOK, NEW c \in Call, call[c].pc \in AuthRunning,
           NEW pc \in (AuthRunning \cup AuthEnded) \ {"sent"}, NEW u \in User \cup {None},
           Serve(c, pc, u)
    PROVE  Moved(c) /\ call' \in [Call -> CallDoc] /\ call'[c].pc = pc /\ call'[c].user = u
BY DEF AuthTypeOK, Serve, Moved, CallDoc

(* Every step of a handler moves its call on, within the types. *)
LEMMA HandlerMoves ==
    ASSUME Base, NEW c \in Call, HandlerStep(c)
    PROVE  Moved(c) /\ AuthTypeOK' /\ CallInv' /\ UNCHANGED expired
<1>1. AuthTypeOK /\ Fits(call[c]) /\ call[c] \in CallDoc
  BY DEF Base, TypeOK, CallInv, AuthTypeOK
<1>2. {"enrol", "rotate", "issue", "retire", "offer", "password", "revoke", "granted", "done",
       "unauthorized", "conflict"} = (AuthRunning \cup AuthEnded) \ {"sent"}
      /\ {"sent", "enrol", "rotate", "issue", "retire", "offer", "password", "revoke"} = AuthRunning
  BY DEF AuthRunning, AuthEnded
<1>3. ASSUME Moved(c), call' \in [Call -> CallDoc], Fits(call'[c])
      PROVE  CallInv'
  <2> SUFFICES ASSUME NEW d \in Call PROVE Fits(call'[d])
    BY DEF CallInv
  <2> QED BY <1>3 DEF Moved, Base, CallInv
<1>4. CASE Login(c)
  <2>1. PICK pc \in {"issue", "unauthorized"} : Goto(c, pc)
    BY <1>4 DEF Login
  <2>2. Arrived(c, "login") /\ UNCHANGED <<account, session, resetToken, expired>>
    BY <1>4 DEF Login
  <2>3. Moved(c) /\ call' \in [Call -> CallDoc] /\ call'[c].pc = pc /\ call'[c].user = call[c].user
    BY <1>1, <1>2, <2>1, <2>2, GotoMoves DEF Arrived
  <2>4. Fits(call'[c])
    BY <1>1, <2>2, <2>3 DEF Fits, Moved, Arrived
  <2> QED BY <1>1, <1>3, <2>2, <2>3, <2>4 DEF AuthTypeOK
<1>5. CASE CheckNames(c)
  <2>1. PICK pc \in {"enrol", "conflict"} : Goto(c, pc)
    BY <1>5 DEF CheckNames
  <2>2. Arrived(c, "register") /\ UNCHANGED <<account, session, resetToken, expired>>
    BY <1>5 DEF CheckNames
  <2>3. Moved(c) /\ call' \in [Call -> CallDoc] /\ call'[c].pc = pc /\ call'[c].user = call[c].user
    BY <1>1, <1>2, <2>1, <2>2, GotoMoves DEF Arrived
  <2>4. Fits(call'[c])
    BY <1>1, <2>2, <2>3 DEF Fits, Moved, Arrived
  <2> QED BY <1>1, <1>3, <2>2, <2>3, <2>4 DEF AuthTypeOK
<1>6. CASE InsertUser(c)
  <2>1. PICK pc \in {"issue", "conflict"} : Goto(c, pc)
    BY <1>6 DEF InsertUser
  <2>2. call[c].pc = "enrol" /\ UNCHANGED <<session, resetToken, expired>>
        /\ account' \in [User -> {"absent", "active", "disabled"}]
    BY <1>1, <1>6 DEF InsertUser, AuthTypeOK
  <2>3. Moved(c) /\ call' \in [Call -> CallDoc] /\ call'[c].pc = pc /\ call'[c].user = call[c].user
    BY <1>1, <1>2, <2>1, <2>2, GotoMoves
  <2>4. Fits(call'[c])
    BY <1>1, <2>2, <2>3 DEF Fits, Moved
  <2> QED BY <1>1, <1>3, <2>2, <2>3, <2>4 DEF AuthTypeOK
<1>7. CASE FindSession(c)
  <2>1. Arrived(c, "refresh") /\ UNCHANGED <<account, session, resetToken, expired>>
        /\ \/ Goto(c, "unauthorized")
           \/ Serve(c, "rotate", session[call[c].token].user)
    BY <1>7 DEF FindSession
  <2>2. session[call[c].token].user \in User \cup {None}
    BY <1>1, <2>1 DEF Fits, Arrived, AuthTypeOK, SessionDoc
  <2>3. Moved(c) /\ call' \in [Call -> CallDoc] /\ call'[c].pc \in {"unauthorized", "rotate"}
    BY <1>1, <1>2, <2>1, <2>2, GotoMoves, ServeMoves DEF Arrived
  <2>4. Fits(call'[c])
    BY <1>1, <2>1, <2>3 DEF Fits, Moved, Arrived
  <2> QED BY <1>1, <1>3, <2>1, <2>3, <2>4 DEF AuthTypeOK
<1>8. CASE Rotate(c)
  <2>1. call[c].pc = "rotate" /\ UNCHANGED <<account, resetToken, expired>>
        /\ (session' = session \/ session' = [session EXCEPT ![call[c].token].status = "rotated"])
        /\ (Goto(c, "unauthorized") \/ Goto(c, "issue"))
    BY <1>8 DEF Rotate
  <2>2. session' \in [Call -> SessionDoc]
    BY <1>1, <2>1 DEF AuthTypeOK, SessionDoc
  <2>3. Moved(c) /\ call' \in [Call -> CallDoc] /\ call'[c].pc \in {"unauthorized", "issue"}
    BY <1>1, <1>2, <2>1, GotoMoves
  <2>4. Fits(call'[c])
    BY <1>1, <2>1, <2>3 DEF Fits, Moved
  <2> QED BY <1>1, <1>3, <2>1, <2>2, <2>3, <2>4 DEF AuthTypeOK
<1>9. CASE IssueTokens(c)
  <2>1. call[c].pc = "issue" /\ UNCHANGED <<account, resetToken, expired>> /\ Goto(c, "granted")
        /\ session' = [session EXCEPT ![c] =
                         [status |-> "active", user |-> call[c].user, from |-> call[c].token]]
    BY <1>9 DEF IssueTokens
  <2>2. session' \in [Call -> SessionDoc]
    BY <1>1, <2>1 DEF AuthTypeOK, SessionDoc, CallDoc
  <2>3. Moved(c) /\ call' \in [Call -> CallDoc] /\ call'[c].pc = "granted" /\ call'[c].user = call[c].user
    BY <1>1, <1>2, <2>1, GotoMoves
  <2>4. Fits(call'[c])
    BY <1>1, <2>1, <2>3 DEF Fits, Moved
  <2> QED BY <1>1, <1>3, <2>1, <2>2, <2>3, <2>4 DEF AuthTypeOK
<1>10. CASE FindUser(c)
  <2>1. PICK pc \in {"retire", "done"} : Goto(c, pc)
    BY <1>10 DEF FindUser
  <2>2. Arrived(c, "forgot") /\ UNCHANGED <<account, session, resetToken, expired>>
    BY <1>10 DEF FindUser
  <2>3. Moved(c) /\ call' \in [Call -> CallDoc] /\ call'[c].pc = pc /\ call'[c].user = call[c].user
    BY <1>1, <1>2, <2>1, <2>2, GotoMoves DEF Arrived
  <2>4. Fits(call'[c])
    BY <1>1, <2>2, <2>3 DEF Fits, Moved, Arrived
  <2> QED BY <1>1, <1>3, <2>2, <2>3, <2>4 DEF AuthTypeOK
<1>11. CASE RetireTokens(c)
  <2>1. call[c].pc = "retire" /\ UNCHANGED <<account, session, expired>> /\ Goto(c, "offer")
    BY <1>11 DEF RetireTokens
  <2>2. resetToken' \in [Call -> TokenDoc]
    BY <1>1, <1>11 DEF RetireTokens, AuthTypeOK, TokenDoc
  <2>3. Moved(c) /\ call' \in [Call -> CallDoc] /\ call'[c].pc = "offer" /\ call'[c].user = call[c].user
    BY <1>1, <1>2, <2>1, GotoMoves
  <2>4. Fits(call'[c])
    BY <1>1, <2>1, <2>3 DEF Fits, Moved
  <2> QED BY <1>1, <1>3, <2>1, <2>2, <2>3, <2>4 DEF AuthTypeOK
<1>12. CASE OfferToken(c)
  <2>1. call[c].pc = "offer" /\ UNCHANGED <<account, session, expired>> /\ Goto(c, "done")
    BY <1>12 DEF OfferToken
  <2>2. resetToken' \in [Call -> TokenDoc]
    BY <1>1, <1>12 DEF OfferToken, AuthTypeOK, TokenDoc, CallDoc
  <2>3. Moved(c) /\ call' \in [Call -> CallDoc] /\ call'[c].pc = "done" /\ call'[c].user = call[c].user
    BY <1>1, <1>2, <2>1, GotoMoves
  <2>4. Fits(call'[c])
    BY <1>1, <2>1, <2>3 DEF Fits, Moved
  <2> QED BY <1>1, <1>3, <2>1, <2>2, <2>3, <2>4 DEF AuthTypeOK
<1>13. CASE Redeem(c)
  <2>1. Arrived(c, "reset") /\ UNCHANGED <<account, session, expired>>
        /\ (resetToken' = resetToken \/ resetToken' = [resetToken EXCEPT ![call[c].token].status = "used"])
        /\ (Goto(c, "unauthorized") \/ Serve(c, "password", resetToken[call[c].token].user))
    BY <1>13 DEF Redeem
  <2>2. resetToken' \in [Call -> TokenDoc] /\ resetToken[call[c].token].user \in User \cup {None}
    BY <1>1, <2>1 DEF AuthTypeOK, TokenDoc, Fits, Arrived
  <2>3. Moved(c) /\ call' \in [Call -> CallDoc] /\ call'[c].pc \in {"unauthorized", "password"}
    BY <1>1, <1>2, <2>1, <2>2, GotoMoves, ServeMoves DEF Arrived
  <2>4. Fits(call'[c])
    BY <1>1, <2>1, <2>3 DEF Fits, Moved, Arrived
  <2> QED BY <1>1, <1>3, <2>1, <2>2, <2>3, <2>4 DEF AuthTypeOK
<1>14. CASE SetPassword(c)
  <2>1. call[c].pc = "password" /\ UNCHANGED <<account, session, resetToken, expired>> /\ Goto(c, "revoke")
    BY <1>14 DEF SetPassword
  <2>2. Moved(c) /\ call' \in [Call -> CallDoc] /\ call'[c].pc = "revoke"
    BY <1>1, <1>2, <2>1, GotoMoves
  <2>3. Fits(call'[c])
    BY <1>1, <2>1, <2>2 DEF Fits, Moved
  <2> QED BY <1>1, <1>3, <2>1, <2>2, <2>3 DEF AuthTypeOK
<1>15. CASE RevokeSessions(c)
  <2>1. call[c].pc = "revoke" /\ UNCHANGED <<account, resetToken, expired>> /\ Goto(c, "done")
    BY <1>15 DEF RevokeSessions
  <2>2. session' \in [Call -> SessionDoc]
    BY <1>1, <1>15 DEF RevokeSessions, AuthTypeOK, SessionDoc
  <2>3. Moved(c) /\ call' \in [Call -> CallDoc] /\ call'[c].pc = "done"
    BY <1>1, <1>2, <2>1, GotoMoves
  <2>4. Fits(call'[c])
    BY <1>1, <2>1, <2>3 DEF Fits, Moved
  <2> QED BY <1>1, <1>3, <2>1, <2>2, <2>3, <2>4 DEF AuthTypeOK
<1> QED
  BY <1>4, <1>5, <1>6, <1>7, <1>8, <1>9, <1>10, <1>11, <1>12, <1>13, <1>14, <1>15 DEF HandlerStep

(* The calls a page begins are typed, and fit. *)
LEMMA BegunKeeps ==
    ASSUME Base, Begun
    PROVE  AuthTypeOK' /\ CallInv'
<1>1. \A d \in Call : call'[d] \in CallDoc /\ Fits(call'[d])
  BY DEF Begun, Base, TypeOK, AuthTypeOK, CallInv, Opened
<1>2. call' \in [Call -> CallDoc]
  BY <1>1 DEF Begun
<1> QED BY <1>1, <1>2 DEF Begun, Base, TypeOK, AuthTypeOK, CallInv

(* One request changes, or none. *)
LEMMA OneRequest ==
    ASSUME Base, NEW r \in Request, NEW q \in RequestDoc, RequestFits(q),
           request' = [request EXCEPT ![r] = q]
    PROVE  request' \in [Request -> RequestDoc] /\ RequestInv'
BY DEF Base, TypeOK, ClientTypeOK, RequestInv

(* No request is a request, at rest. *)
LEMMA Unrequested == NoRequest \in RequestDoc /\ RequestFits(NoRequest)
<1>1. None \notin Tab /\ None \notin Endpoint /\ None # "api"
  BY AuthAssumption, BrowserAssumption
<1> QED BY <1>1 DEF NoRequest, RequestDoc, RequestFits, Endpoint

(* What a form sends opens a call. *)
LEMMA FormOpens ==
    ASSUME NEW q, q.kind \in Endpoint, q.kind # "refresh", q.user \in User \cup {None},
           q.token \in Call \cup {None},
           q.kind \in {"login", "register"} => q.token = None,
           q.kind \in {"login", "register", "forgot"} => q.user \in User,
           q.kind = "reset" => q.token \in Call
    PROVE  Sent(q) \in Opened
<1>1. None \notin Endpoint
  BY AuthAssumption
<1> QED BY <1>1 DEF Sent, Opened, CallDoc, AuthRunning, Fits, Endpoint

(* An empty place is a place. *)
LEMMA NothingStored == Nothing \in Place
BY DEF Nothing, Place

(* Where the tokens are put. *)
LEMMA StoreTyped ==
    ASSUME ClientTypeOK, NEW t \in Tab
    PROVE  /\ Clear(t) => local' \in Place /\ own' \in [Tab -> Place]
           /\ StoredPair(t) \in Call \cup {None} /\ StoredCompany(t) \in BOOLEAN
           /\ \A s \in Call, b \in BOOLEAN : SetTokens(t, s, b) =>
                  local' \in Place /\ own' \in [Tab -> Place]
           /\ \A s \in Call, b \in BOOLEAN : SetSession(t, s, b) =>
                  local' \in Place /\ own' \in [Tab -> Place]
                  /\ profile' = [profile EXCEPT ![t] = session[s].user]
<1>1. local \in Place /\ own \in [Tab -> Place]
  BY DEF ClientTypeOK
<1>2. Clear(t) => local' \in Place /\ own' \in [Tab -> Place]
  BY <1>1, NothingStored DEF Clear
<1>3. StoredPair(t) \in Call \cup {None} /\ StoredCompany(t) \in BOOLEAN
  BY <1>1 DEF StoredPair, StoredCompany, Place
<1>4. ASSUME NEW s \in Call, NEW b \in BOOLEAN, SetTokens(t, s, b)
      PROVE  local' \in Place /\ own' \in [Tab -> Place]
  <2>1. local' = [local EXCEPT !.pair = IF b THEN s ELSE None]
        /\ own' = [own EXCEPT ![t].pair = IF b THEN None ELSE s]
    BY <1>4 DEF SetTokens
  <2>2. local' \in Place
    BY <1>1, <2>1 DEF Place
  <2>3. own' \in [Tab -> Place]
    BY <1>1, <2>1 DEF Place
  <2> QED BY <2>2, <2>3
<1>5. ASSUME NEW s \in Call, NEW b \in BOOLEAN, SetSession(t, s, b)
      PROVE  local' \in Place /\ own' \in [Tab -> Place]
             /\ profile' = [profile EXCEPT ![t] = session[s].user]
  <2>1. [pair |-> s, company |-> TRUE] \in Place
    BY DEF Place
  <2> QED BY <1>1, <1>5, <2>1, NothingStored DEF SetSession
<1> QED BY <1>2, <1>3, <1>4, <1>5

-----------------------------------------------------------------------------
(* What the browser's steps keep, one action at a time. *)

(* The client's variables are typed, and its requests fit. *)
Kept == ClientTypeOK' /\ RequestInv' /\ Begun

(* A step that leaves the server alone begins no call. *)
LEMMA AuthStill ==
    ASSUME Base, UNCHANGED authVars
    PROVE  Begun
BY DEF Base, TypeOK, AuthTypeOK, authVars, Begun

(* A page is loaded. *)
LEMMA LoadKeeps ==
    ASSUME Base, NEW t \in Tab, LoadPage(t)
    PROVE  Kept
<1>1. Begun
  BY AuthStill DEF LoadPage
<1>2. loads' \in 0 .. MaxLoads /\ page' \in [Tab -> 0 .. MaxLoads]
  BY BrowserAssumption DEF LoadPage, Base, TypeOK, ClientTypeOK
<1>3. Parsed(StoredPair(t)) \in User \cup {None}
  <2>1. StoredPair(t) \in Call \cup {None}
    BY StoreTyped DEF Base, TypeOK
  <2> QED BY <2>1 DEF Parsed, Base, TypeOK, AuthTypeOK, SessionDoc
<1>4. profile' \in [Tab -> User \cup {None}] /\ promise' \in [Tab -> Call \cup {None}]
  BY <1>3 DEF LoadPage, Base, TypeOK, ClientTypeOK
<1>5. request' \in [Request -> RequestDoc] /\ RequestInv'
  BY Unrequested DEF LoadPage, Base, TypeOK, ClientTypeOK, RequestInv
<1> QED BY <1>1, <1>2, <1>4, <1>5 DEF LoadPage, Kept, Base, TypeOK, ClientTypeOK

(* A screen calls the API. *)
LEMMA StartKeeps ==
    ASSUME Base, NEW t \in Tab, NEW r \in Request, StartRequest(t, r)
    PROVE  Kept
<1> DEFINE q == [pc |-> "sent", tab |-> t, kind |-> "api", call |-> None,
                 token |-> StoredPair(t), company |-> StoredCompany(t),
                 user |-> None, remember |-> FALSE]
<1>1. Begun
  BY AuthStill DEF StartRequest
<1>2. StoredPair(t) \in Call \cup {None} /\ StoredCompany(t) \in BOOLEAN
  BY StoreTyped DEF Base, TypeOK
<1>3. q \in RequestDoc /\ RequestFits(q)
  BY <1>2, BrowserAssumption DEF RequestDoc, RequestFits, Endpoint
<1>4. request' = [request EXCEPT ![r] = q]
  BY DEF StartRequest
<1>5. request' \in [Request -> RequestDoc] /\ RequestInv'
  <2> HIDE DEF q
  <2> QED BY <1>3, <1>4, OneRequest
<1> QED BY <1>1, <1>5 DEF StartRequest, Kept, Base, TypeOK, ClientTypeOK

(* A form names what its endpoint needs. *)
LEMMA FormFits ==
    ASSUME NEW f \in Form
    PROVE  /\ f.kind \in Endpoint \ {"refresh"}
           /\ f.user \in User \cup {None} /\ f.token \in Call \cup {None} /\ f.remember \in BOOLEAN
           /\ f.kind \in {"login", "register"} => f.token = None
           /\ f.kind \in {"login", "register", "forgot"} => f.user \in User
           /\ f.kind = "reset" => f.token \in Call
BY DEF Form, LoginForm, RegisterForm, ForgotForm, ResetForm, Endpoint

(* A form is sent. *)
LEMMA SubmitKeeps ==
    ASSUME Base, NEW t \in Tab, NEW r \in Request, NEW f \in Form, NEW c \in Free,
           Submit(t, r, f, c)
    PROVE  Kept
<1> DEFINE q == [pc |-> "sent", tab |-> t, kind |-> f.kind, call |-> c,
                 token |-> f.token, company |-> TRUE,
                 user |-> f.user, remember |-> f.remember]
<1>1. c \in Call /\ call[c].pc = "idle" /\ Sent(f) \in Opened
  BY FormFits, FormOpens DEF Free
<1>2. Begun
  BY <1>1 DEF Submit, Begun, Base, TypeOK, AuthTypeOK
<1>3. q \in RequestDoc /\ RequestFits(q)
  BY <1>1, FormFits, AuthAssumption DEF RequestDoc, RequestFits
<1>4. request' = [request EXCEPT ![r] = q]
  BY DEF Submit
<1>5. request' \in [Request -> RequestDoc] /\ RequestInv'
  <2> HIDE DEF q
  <2> QED BY <1>3, <1>4, OneRequest
<1>6. sender' \in [Call -> 0 .. MaxLoads]
  BY DEF Submit, Base, TypeOK, ClientTypeOK
<1> QED BY <1>2, <1>5, <1>6 DEF Submit, Kept, Base, TypeOK, ClientTypeOK

(* Signing out keeps the types of what is stored. *)
LEMMA SignedOutTyped ==
    ASSUME ClientTypeOK, NEW t \in Tab, SignedOut(t)
    PROVE  local' \in Place /\ own' \in [Tab -> Place] /\ profile' \in [Tab -> User \cup {None}]
BY StoreTyped DEF SignedOut, ClientTypeOK

(* A request that ends leaves the requests typed. *)
LEMMA FinishKeeps ==
    ASSUME Base, NEW r \in Request, Finish(r)
    PROVE  request' \in [Request -> RequestDoc] /\ RequestInv'
BY Unrequested, OneRequest DEF Finish

(* The user signs out. *)
LEMMA SignOutKeeps ==
    ASSUME Base, NEW t \in Tab, SignOut(t)
    PROVE  Kept
BY AuthStill, SignedOutTyped DEF SignOut, Kept, Base, TypeOK, ClientTypeOK, RequestInv

(* A request is answered, or times out. *)
LEMMA EndKeeps ==
    ASSUME Base, NEW r \in Request, EndRequest(r)
    PROVE  Kept
BY AuthStill, FinishKeeps DEF EndRequest, Kept, Base, TypeOK, ClientTypeOK

(* A login or a registration succeeds. *)
LEMMA SignedInKeeps ==
    ASSUME Base, NEW r \in Request, SignedIn(r)
    PROVE  Kept
<1>1. request[r] \in RequestDoc /\ request[r].tab \in Tab /\ request[r].call \in Call
      /\ request[r].remember \in BOOLEAN
  BY DEF SignedIn, Base, TypeOK, ClientTypeOK, RequestInv, RequestFits, RequestDoc
<1>2. SetSession(request[r].tab, request[r].call, request[r].remember)
  BY DEF SignedIn
<1>3. local' \in Place /\ own' \in [Tab -> Place]
      /\ profile' = [profile EXCEPT ![request[r].tab] = session[request[r].call].user]
  BY <1>1, <1>2, StoreTyped DEF Base, TypeOK
<1>4. profile' \in [Tab -> User \cup {None}]
  BY <1>1, <1>3 DEF Base, TypeOK, ClientTypeOK, AuthTypeOK, SessionDoc
<1>5. Finish(r) /\ UNCHANGED <<authVars, loads, page, promise, sender>>
  BY DEF SignedIn
<1> QED BY <1>3, <1>4, <1>5, AuthStill, FinishKeeps DEF Kept, Base, TypeOK, ClientTypeOK

(* A 401 finds no token to refresh. *)
LEMMA ExpelledKeeps ==
    ASSUME Base, NEW r \in Request, Expelled(r)
    PROVE  Kept
<1>1. request[r].pc = "sent" /\ request[r].tab \in Tab
  BY DEF Expelled, Unauthorized, Base, RequestInv, RequestFits
<1>2. SignedOut(request[r].tab) /\ Finish(r) /\ UNCHANGED <<authVars, loads, page, promise, sender>>
  BY DEF Expelled
<1> QED BY <1>1, <1>2, AuthStill, FinishKeeps, SignedOutTyped DEF Kept, Base, TypeOK, ClientTypeOK

(* A request that starts to wait leaves the requests typed. *)
LEMMA WaitKeeps ==
    ASSUME Base, NEW r \in Request, request[r].pc = "sent",
           request' = [request EXCEPT ![r].pc = "waiting", ![r].call = None]
    PROVE  request' \in [Request -> RequestDoc] /\ RequestInv'
<1> DEFINE q == [request[r] EXCEPT !.pc = "waiting", !.call = None]
<1>1. q \in RequestDoc /\ RequestFits(q)
  BY DEF Base, TypeOK, ClientTypeOK, RequestInv, RequestFits, RequestDoc
<1>2. request' = [request EXCEPT ![r] = q]
  BY DEF Base, TypeOK, ClientTypeOK
<1> QED
  <2> HIDE DEF q
  <2> QED BY <1>1, <1>2, OneRequest

(* A 401 joins the refresh under way. *)
LEMMA JoinKeeps ==
    ASSUME Base, NEW r \in Request, JoinRefresh(r)
    PROVE  Kept
BY AuthStill, WaitKeeps DEF JoinRefresh, Unauthorized, Kept, Base, TypeOK, ClientTypeOK

(* A 401 starts a refresh. *)
LEMMA RefreshKeeps ==
    ASSUME Base, NEW r \in Request, NEW c \in Free, Refresh(r, c)
    PROVE  Kept
<1> DEFINE t == request[r].tab
<1>1. request[r].pc = "sent" /\ t \in Tab /\ StoredPair(t) # None /\ c \in Call /\ call[c].pc = "idle"
  BY DEF Refresh, Unauthorized, Base, RequestInv, RequestFits, Free
<1>2. StoredPair(t) \in Call
  BY <1>1, StoreTyped DEF Base, TypeOK
<1>3. RefreshCall(t) \in Opened
  BY <1>2, AuthAssumption DEF RefreshCall, Opened, CallDoc, Fits, AuthRunning, AuthEnded, Endpoint
<1>4. Begun
  BY <1>1, <1>3 DEF Refresh, Begun, Base, TypeOK, AuthTypeOK
<1>5. request' \in [Request -> RequestDoc] /\ RequestInv'
  BY <1>1, WaitKeeps DEF Refresh
<1>6. sender' \in [Call -> 0 .. MaxLoads] /\ promise' \in [Tab -> Call \cup {None}]
  BY <1>1 DEF Refresh, Base, TypeOK, ClientTypeOK
<1> QED BY <1>4, <1>5, <1>6 DEF Refresh, Kept, Base, TypeOK, ClientTypeOK

(* A refresh fails, or times out. *)
LEMMA FailedKeeps ==
    ASSUME Base, NEW t \in Tab, RefreshFailed(t)
    PROVE  Kept
<1>1. Begun
  BY AuthStill DEF RefreshFailed
<1>2. local' \in Place /\ own' \in [Tab -> Place] /\ profile' \in [Tab -> User \cup {None}]
  BY SignedOutTyped DEF RefreshFailed, Base, TypeOK
<1>3. promise' \in [Tab -> Call \cup {None}]
  BY DEF RefreshFailed, Base, TypeOK, ClientTypeOK
<1>4. request' \in [Request -> RequestDoc] /\ RequestInv'
  BY Unrequested DEF RefreshFailed, Base, TypeOK, ClientTypeOK, RequestInv
<1> QED BY <1>1, <1>2, <1>3, <1>4 DEF RefreshFailed, Kept, Base, TypeOK, ClientTypeOK

Again(t, again) == again \in [Forms(t) -> Free] /\ SendAgain(t, again)

(* What a refresh that succeeds does, part by part. *)
LEMMA RefreshedAgain ==
    ASSUME NEW t \in Tab, Refreshed(t)
    PROVE  /\ promise[t] # None /\ call[promise[t]].pc = "granted"
           /\ SetTokens(t, promise[t], local.pair # None)
           /\ promise' = [promise EXCEPT ![t] = None]
           /\ UNCHANGED <<account, session, resetToken, expired, loads, page, profile>>
           /\ \E again : Again(t, again)
BY DEF Refreshed, Again

(* A waiting form can be sent again. *)
LEMMA FormsAreForms ==
    ASSUME Base, NEW t \in Tab, NEW r \in Forms(t)
    PROVE  r \in Request /\ request[r].pc = "waiting" /\ request[r].tab = t
           /\ request[r].call = None /\ request[r].kind \in Endpoint \ {"refresh"}
           /\ Sent(request[r]) \in Opened
<1>1. r \in Request /\ request[r].pc = "waiting" /\ request[r].tab = t /\ request[r] \in RequestDoc
      /\ RequestFits(request[r]) /\ request[r].kind # "api"
  BY DEF Forms, Waiting, Base, TypeOK, ClientTypeOK, RequestInv
<1>2. request[r].call = None /\ request[r].kind \in Endpoint \ {"refresh"}
  BY <1>1 DEF RequestFits, RequestDoc
<1>3. request[r].user \in User \cup {None} /\ request[r].token \in Call \cup {None}
  BY <1>1 DEF RequestDoc
<1>4. Sent(request[r]) \in Opened
  BY <1>1, <1>2, <1>3, FormOpens DEF RequestFits
<1> QED BY <1>1, <1>2, <1>4

(* What waited is sent again under calls of its own. *)
LEMMA AgainKeeps ==
    ASSUME Base, NEW t \in Tab, NEW again, Again(t, again), promise[t] \in Call,
           UNCHANGED <<account, session, resetToken, expired>>
    PROVE  /\ request' \in [Request -> RequestDoc] /\ RequestInv'
           /\ Begun
           /\ sender' \in [Call -> 0 .. MaxLoads]
<1>1. ASSUME NEW c \in Call
      PROVE  call'[c] = call[c] \/ (call[c].pc = "idle" /\ call'[c] \in Opened)
  <2>1. CASE \E r \in Forms(t) : again[r] = c
    <3> DEFINE o == CHOOSE r \in Forms(t) : again[r] = c
    <3>1. o \in Forms(t) /\ again[o] = c
      BY <2>1
    <3>2. call'[c] = Sent(request[o])
      BY <2>1 DEF Again, SendAgain
    <3> HIDE DEF o
    <3>3. call[c].pc = "idle"
      BY <3>1 DEF Again, SendAgain, Free
    <3> QED BY <3>1, <3>2, <3>3, FormsAreForms
  <2> QED BY <2>1 DEF Again, SendAgain
<1>2. Begun
  <2>1. call' = [d \in Call |-> call'[d]]
    BY DEF Again, SendAgain
  <2> QED BY <1>1, <2>1 DEF Begun
<1>3. ASSUME NEW r \in Request
      PROVE  request'[r] \in RequestDoc /\ RequestFits(request'[r])
  <2>1. request[r] \in RequestDoc /\ RequestFits(request[r])
    BY DEF Base, TypeOK, ClientTypeOK, RequestInv
  <2>2. CASE r \in Forms(t)
    <3>1. request'[r] = [request[r] EXCEPT !.pc = "sent", !.call = again[r]]
      BY <2>2 DEF Again, SendAgain
    <3>2. again[r] \in Call
      BY <2>2 DEF Again, SendAgain, Free
    <3>3. request[r].pc = "waiting" /\ request[r].kind \in Endpoint
      BY <2>2, FormsAreForms
    <3> QED BY <2>1, <3>1, <3>2, <3>3 DEF RequestDoc, RequestFits
  <2>3. CASE r \in Waiting(t) /\ r \notin Forms(t)
    <3>1. request'[r] = [request[r] EXCEPT !.pc = "sent", !.token = promise[t]]
      BY <2>3 DEF Again, SendAgain
    <3>2. request[r].pc = "waiting" /\ request[r].kind = "api"
      BY <2>3 DEF Forms, Waiting
    <3> QED BY <2>1, <3>1, <3>2 DEF RequestDoc, RequestFits
  <2>4. CASE r \notin Waiting(t)
    <3>1. r \notin Forms(t)
      BY <2>4 DEF Forms
    <3> QED BY <2>1, <2>4, <3>1 DEF Again, SendAgain
  <2> QED BY <2>2, <2>3, <2>4
<1>4. request' = [r \in Request |-> request'[r]]
  BY DEF Again, SendAgain
<1>5. request' \in [Request -> RequestDoc] /\ RequestInv'
  BY <1>3, <1>4 DEF RequestInv
<1>6. sender' \in [Call -> 0 .. MaxLoads]
  BY DEF Again, SendAgain, Base, TypeOK, ClientTypeOK
<1> QED BY <1>2, <1>5, <1>6

(* A refresh succeeds. *)
LEMMA RefreshedKeeps ==
    ASSUME Base, NEW t \in Tab, Refreshed(t)
    PROVE  Kept
<1>1. promise[t] \in Call /\ (local.pair # None) \in BOOLEAN
  BY RefreshedAgain DEF Base, TypeOK, ClientTypeOK
<1>2. PICK again : Again(t, again)
  BY RefreshedAgain
<1>3. local' \in Place /\ own' \in [Tab -> Place]
  BY <1>1, RefreshedAgain, StoreTyped DEF Base, TypeOK
<1>4. promise' \in [Tab -> Call \cup {None}]
  BY RefreshedAgain DEF Base, TypeOK, ClientTypeOK
<1>5. request' \in [Request -> RequestDoc] /\ RequestInv' /\ Begun /\ sender' \in [Call -> 0 .. MaxLoads]
  BY <1>1, <1>2, AgainKeeps, RefreshedAgain
<1> QED BY <1>3, <1>4, <1>5, RefreshedAgain DEF Kept, Base, TypeOK, ClientTypeOK

(* Expiry and a disabled account: the calls stay where they are. *)
LEMMA AsideKeeps ==
    ASSUME Base, (\E c \in Call : Expire(c)) \/ (\E u \in User : Disable(u))
    PROVE  AuthTypeOK' /\ UNCHANGED <<call, session, resetToken>>
BY DEF Expire, ExpireAccess, ExpireRefresh, ExpireReset, Expires, Disable, Base, TypeOK, AuthTypeOK

(* The kinds of steps. *)
ClientStep ==
    \/ \E t \in Tab : ScreenStep(t) \/ RefreshStep(t)
    \/ \E r \in Request : RequestStep(r)

(* Every step of the browser keeps its types and begins calls at most. *)
LEMMA ClientKeeps ==
    ASSUME Base, ClientStep
    PROVE  Kept
<1>1. ASSUME NEW t \in Tab, ScreenStep(t) PROVE Kept
  BY <1>1, LoadKeeps, StartKeeps, SubmitKeeps, SignOutKeeps DEF ScreenStep
<1>2. ASSUME NEW t \in Tab, RefreshStep(t) PROVE Kept
  BY <1>2, RefreshedKeeps, FailedKeeps DEF RefreshStep, RefreshRefused, RefreshTimedOut
<1>3. ASSUME NEW r \in Request, RequestStep(r) PROVE Kept
  BY <1>3, EndKeeps, SignedInKeeps, ExpelledKeeps, JoinKeeps, RefreshKeeps
     DEF RequestStep, Answered, AuthAnswered, NoAnswer
<1> QED BY <1>1, <1>2, <1>3 DEF ClientStep

(* The types hold at the start. *)
LEMMA InitBase == Init => Base
<1> SUFFICES ASSUME Init PROVE Base
  OBVIOUS
<1>1. None \notin Endpoint /\ MaxLoads \in Nat
  BY AuthAssumption, BrowserAssumption
<1>2. AuthTypeOK
  BY DEF Init, AuthInit, AuthTypeOK, SessionDoc, NoSession, TokenDoc, NoToken, CallDoc, NoCall
<1>3. CallInv
  BY <1>1 DEF Init, AuthInit, CallInv, Fits, NoCall, Endpoint
<1>4. ClientTypeOK
  BY <1>1, Unrequested, NothingStored DEF Init, ClientInit, ClientTypeOK
<1>5. RequestInv
  BY Unrequested DEF Init, ClientInit, RequestInv
<1> QED BY <1>2, <1>3, <1>4, <1>5 DEF Base, TypeOK

(* The types are kept. *)
LEMMA StepBase ==
    ASSUME Base, [Next]_vars
    PROVE  Base'
<1>1. CASE ServerStep
  <2>1. AuthTypeOK' /\ CallInv'
    BY <1>1, HandlerMoves, AsideKeeps DEF ServerStep, AuthNext, Base, CallInv
  <2> QED BY <1>1, <2>1 DEF ServerStep, clientVars, Base, TypeOK, ClientTypeOK, RequestInv
<1>2. CASE ClientStep
  BY <1>2, ClientKeeps, BegunKeeps DEF Kept, Base, TypeOK
<1>3. CASE UNCHANGED vars
  BY <1>3 DEF vars, authVars, clientVars, Base, TypeOK, AuthTypeOK, ClientTypeOK, CallInv, RequestInv
<1> QED BY <1>1, <1>2, <1>3 DEF Next, ClientStep

(* The documents and the browser's storage keep their types, whatever the  *)
(* tabs send and the handlers do.                                          *)
THEOREM ThmTypeOK == Spec => []TypeOK
<1>1. Base => TypeOK
  BY DEF Base
<1> QED BY <1>1, InitBase, StepBase, PTL DEF Spec

-----------------------------------------------------------------------------
(* A refresh token buys one successor. *)

(* A call that has found the session it presents. *)
Renewing(c) == call[c].kind = "refresh" /\ call[c].pc \in {"rotate", "issue", "granted"}

(* A call that has taken it out of use. *)
Renewed(c) == call[c].kind = "refresh" /\ call[c].pc \in {"issue", "granted"}

(* Sessions are their calls', a refresh works for the account of the       *)
(* session it presents, and has it to itself once it is rotated.           *)
RotInv ==
    /\ \A c \in Call : call[c].pc # "granted" => session[c] = NoSession
    /\ \A c \in Call : call[c].pc = "granted" =>
          session[c].status # "absent" /\ session[c].from = call[c].token
          /\ session[c].user = call[c].user
    /\ \A c \in Call : Renewing(c) =>
          session[call[c].token].status # "absent" /\ session[call[c].token].user = call[c].user
    /\ \A c \in Call : Renewed(c) => session[call[c].token].status = "rotated"
    /\ \A c, d \in Call : Renewed(c) /\ Renewed(d) /\ call[c].token = call[d].token => c = d

(* The invariant on refreshes says that a token buys one successor. *)
LEMMA RotImplies ==
    ASSUME Base, RotInv
    PROVE  RotatedOnce
<1>1. ASSUME NEW d \in Call, session[d].from # None
      PROVE  Renewed(d) /\ session[d].from = call[d].token /\ session[d].user = call[d].user
  <2>1. call[d].pc = "granted"
    BY <1>1 DEF RotInv, NoSession
  <2>2. session[d].from = call[d].token /\ session[d].user = call[d].user
    BY <2>1 DEF RotInv
  <2>3. call[d].kind = "refresh"
    BY <1>1, <2>1, <2>2 DEF Base, CallInv, Fits
  <2> QED BY <2>1, <2>2, <2>3 DEF Renewed
<1>2. ASSUME NEW d \in Call, session[d].from # None
      PROVE  session[session[d].from].status = "rotated" /\ session[session[d].from].user = session[d].user
  <2>1. Renewed(d) /\ Renewing(d) /\ session[d].from = call[d].token /\ session[d].user = call[d].user
    BY <1>1, <1>2 DEF Renewed, Renewing
  <2> QED BY <2>1 DEF RotInv
<1>3. ASSUME NEW s \in Call, NEW d \in Call, session[s].from # None, session[s].from = session[d].from
      PROVE  s = d
  <2>1. Renewed(s) /\ Renewed(d) /\ call[s].token = call[d].token
    BY <1>1, <1>3
  <2> QED BY <2>1 DEF RotInv
<1> QED BY <1>2, <1>3 DEF RotatedOnce

(* A step that leaves the sessions alone and takes no call to "rotate",    *)
(* "issue" as a refresh, or "granted".                                     *)
LEMMA RotStill ==
    ASSUME Base, RotInv, session' = session,
           \A c \in Call :
               \/ call'[c].kind = call[c].kind /\ call'[c].token = call[c].token
                  /\ call'[c].user = call[c].user /\ call'[c].pc = call[c].pc
               \/ call'[c].pc # "granted" /\ call[c].pc # "granted" /\ ~Renewing(c)'
    PROVE  RotInv'
<1>1. \A c \in Call : (Renewing(c)' => Renewing(c)) /\ (Renewed(c)' => Renewed(c))
  BY DEF Renewing, Renewed
<1>2. \A c \in Call : Renewing(c)' => call'[c].token = call[c].token /\ call'[c].user = call[c].user
  BY DEF Renewing
<1>3. \A c \in Call : Renewed(c)' => Renewing(c)'
  BY DEF Renewing, Renewed
<1>4. \A c \in Call : call'[c].pc # "granted" => call[c].pc # "granted"
  OBVIOUS
<1>5. \A c \in Call : call'[c].pc = "granted" =>
         call[c].pc = "granted" /\ call'[c].token = call[c].token /\ call'[c].user = call[c].user
  OBVIOUS
<1>6. \A c \in Call : call'[c].pc # "granted" => session'[c] = NoSession
  BY <1>4 DEF RotInv
<1>7. \A c \in Call : call'[c].pc = "granted" =>
         session'[c].status # "absent" /\ session'[c].from = call'[c].token
         /\ session'[c].user = call'[c].user
  BY <1>5 DEF RotInv
<1>8. \A c \in Call : Renewing(c)' =>
         session'[call'[c].token].status # "absent" /\ session'[call'[c].token].user = call'[c].user
  BY <1>1, <1>2 DEF RotInv
<1>9. \A c \in Call : Renewed(c)' => session'[call'[c].token].status = "rotated"
  BY <1>1, <1>2, <1>3 DEF RotInv
<1>10. \A c, d \in Call : Renewed(c)' /\ Renewed(d)' /\ call'[c].token = call'[d].token => c = d
  BY <1>1, <1>2, <1>3 DEF RotInv
<1> QED BY <1>6, <1>7, <1>8, <1>9, <1>10 DEF RotInv

(* Each handler step keeps it. *)
LEMMA RotHandler ==
    ASSUME Base, RotInv, NEW c \in Call, HandlerStep(c)
    PROVE  RotInv'
<1>1. Moved(c) /\ Fits(call[c]) /\ Fits(call'[c]) /\ call[c] \in CallDoc
  BY HandlerMoves DEF Base, CallInv, TypeOK, AuthTypeOK
<1>2. ASSUME session' = session, call[c].pc # "granted", call'[c].pc # "granted", ~Renewing(c)'
      PROVE  RotInv'
  BY <1>1, <1>2, RotStill DEF Moved
<1>3. call[c].pc # "granted"
  BY <1>1 DEF Moved, AuthRunning
<1>4. CASE Login(c) \/ CheckNames(c) \/ InsertUser(c) \/ FindUser(c) \/ RetireTokens(c)
           \/ OfferToken(c) \/ Redeem(c) \/ SetPassword(c)
  <2>1. session' = session /\ call[c].kind # "refresh"
    BY <1>1, <1>4 DEF Login, CheckNames, InsertUser, FindUser, RetireTokens, OfferToken, Redeem,
                      SetPassword, Arrived, Fits
  <2>2. \A pc \in {"issue", "unauthorized", "enrol", "conflict", "retire", "done", "offer", "revoke"} :
            Goto(c, pc) => call'[c].pc # "granted"
    BY <1>1 DEF Goto, Base, TypeOK, AuthTypeOK, CallDoc
  <2>3. \A u : Serve(c, "password", u) => call'[c].pc # "granted"
    BY <1>1 DEF Serve, Base, TypeOK, AuthTypeOK, CallDoc
  <2>4. call'[c].pc # "granted"
    BY <1>4, <2>2, <2>3 DEF Login, CheckNames, InsertUser, FindUser, RetireTokens, OfferToken, Redeem,
                      SetPassword
  <2>5. ~Renewing(c)'
    BY <1>1, <2>1 DEF Renewing, Moved
  <2> QED BY <1>2, <1>3, <2>1, <2>4, <2>5
<1>5. CASE FindSession(c)
  <2>1. Arrived(c, "refresh") /\ session' = session /\ call[c].token \in Call
    BY <1>1, <1>5 DEF FindSession, Arrived, Fits
  <2>2. CASE Goto(c, "unauthorized")
    <3>1. call'[c].pc = "unauthorized"
      BY <2>2 DEF Goto, Base, TypeOK, AuthTypeOK
    <3> QED BY <1>2, <1>3, <2>1, <3>1 DEF Renewing
  <2>3. CASE session[call[c].token].status = "active"
             /\ Serve(c, "rotate", session[call[c].token].user)
    <3>1. call'[c].pc = "rotate" /\ call'[c].user = session[call[c].token].user
          /\ call'[c].kind = call[c].kind /\ call'[c].token = call[c].token
      BY <1>1, <2>3 DEF Serve, Base, TypeOK, AuthTypeOK, CallDoc
    <3>2. \A d \in Call \ {c} : call'[d] = call[d]
      BY <1>1 DEF Moved
    <3>3. \A d \in Call : (Renewing(d)' => d = c \/ Renewing(d)) /\ (Renewed(d)' => d # c /\ Renewed(d))
      BY <3>1, <3>2 DEF Renewing, Renewed
    <3>4. \A d \in Call : call'[d].pc # "granted" => session'[d] = NoSession
      BY <1>3, <2>1, <3>2 DEF RotInv
    <3>5. \A d \in Call : call'[d].pc = "granted" =>
             session'[d].status # "absent" /\ session'[d].from = call'[d].token
             /\ session'[d].user = call'[d].user
      BY <2>1, <3>1, <3>2 DEF RotInv
    <3>6. \A d \in Call : Renewing(d)' =>
             session'[call'[d].token].status # "absent"
             /\ session'[call'[d].token].user = call'[d].user
      BY <2>1, <2>3, <3>1, <3>2, <3>3 DEF RotInv
    <3>7. \A d \in Call : Renewed(d)' => session'[call'[d].token].status = "rotated"
      BY <2>1, <3>2, <3>3 DEF RotInv
    <3>8. \A d, e \in Call : Renewed(d)' /\ Renewed(e)' /\ call'[d].token = call'[e].token => d = e
      BY <3>2, <3>3 DEF RotInv
    <3> QED BY <3>4, <3>5, <3>6, <3>7, <3>8 DEF RotInv
  <2> QED BY <1>5, <2>2, <2>3 DEF FindSession
<1>6. CASE Rotate(c)
  <2> DEFINE k == call[c].token
  <2>1. call[c].pc = "rotate" /\ call[c].kind = "refresh" /\ k \in Call
    BY <1>1, <1>6 DEF Rotate, Fits
  <2>2. CASE Goto(c, "unauthorized") /\ session' = session
    <3>1. call'[c].pc = "unauthorized"
      BY <2>2 DEF Goto, Base, TypeOK, AuthTypeOK
    <3> QED BY <1>2, <1>3, <2>2, <3>1 DEF Renewing
  <2>3. CASE session[k].status = "active" /\ Goto(c, "issue")
             /\ session' = [session EXCEPT ![k].status = "rotated"]
    <3>1. call'[c].pc = "issue" /\ call'[c].user = call[c].user
          /\ call'[c].kind = call[c].kind /\ call'[c].token = k
      BY <1>1, <2>3 DEF Goto, Base, TypeOK, AuthTypeOK, CallDoc
    <3>2. \A d \in Call \ {c} : call'[d] = call[d]
      BY <1>1 DEF Moved
    <3>3. \A d \in Call : (Renewing(d)' => Renewing(d)) /\ (Renewed(d)' => d = c \/ Renewed(d))
          /\ (Renewed(d)' => Renewing(d)') /\ call'[d].token = call[d].token
          /\ call'[d].user = call[d].user
      BY <2>1, <3>1, <3>2 DEF Renewing, Renewed
    <3>4. /\ \A e \in Call \ {k} : session'[e] = session[e]
          /\ session'[k].status = "rotated" /\ session'[k].user = session[k].user
          /\ session'[k].from = session[k].from
      BY <2>1, <2>3 DEF Base, TypeOK, AuthTypeOK, SessionDoc
    <3>5. k # c /\ call[k].pc = "granted"
      BY <2>1, <2>3 DEF RotInv, NoSession
    <3> HIDE DEF k
    <3>6. \A d \in Call : call'[d].pc # "granted" => session'[d] = NoSession
      BY <1>3, <3>2, <3>4, <3>5 DEF RotInv
    <3>7. \A d \in Call : call'[d].pc = "granted" =>
             session'[d].status # "absent" /\ session'[d].from = call'[d].token
             /\ session'[d].user = call'[d].user
      BY <3>1, <3>2, <3>4 DEF RotInv
    <3>8. \A d \in Call : Renewing(d)' =>
             call[d].token \in Call
      BY <3>3 DEF Base, CallInv, Fits, Renewing
    <3>9. \A d \in Call : Renewing(d)' =>
             session'[call'[d].token].status # "absent"
             /\ session'[call'[d].token].user = call'[d].user
      BY <3>3, <3>4, <3>8 DEF RotInv
    <3>10. \A d \in Call : Renewed(d)' => session'[call'[d].token].status = "rotated"
      BY <3>1, <3>3, <3>4, <3>8 DEF RotInv
    <3>11. \A d \in Call \ {c} : Renewed(d)' => call'[d].token # k
      BY <2>3, <3>3 DEF RotInv
    <3>12. \A d, e \in Call : Renewed(d)' /\ Renewed(e)' /\ call'[d].token = call'[e].token => d = e
      BY <3>1, <3>3, <3>11 DEF RotInv
    <3> QED BY <3>6, <3>7, <3>9, <3>10, <3>12 DEF RotInv
  <2> QED BY <1>6, <2>2, <2>3 DEF Rotate
<1>7. CASE IssueTokens(c)
  <2>1. call[c].pc = "issue" /\ Goto(c, "granted")
        /\ session' = [session EXCEPT ![c] =
                         [status |-> "active", user |-> call[c].user, from |-> call[c].token]]
    BY <1>7 DEF IssueTokens
  <2>2. call'[c].pc = "granted" /\ call'[c].user = call[c].user
        /\ call'[c].kind = call[c].kind /\ call'[c].token = call[c].token
    BY <1>1, <2>1 DEF Goto, Base, TypeOK, AuthTypeOK, CallDoc
  <2>3. \A d \in Call \ {c} : call'[d] = call[d]
    BY <1>1 DEF Moved
  <2>4. \A d \in Call : (Renewing(d)' => Renewing(d)) /\ (Renewed(d)' => Renewed(d))
        /\ call'[d].token = call[d].token /\ call'[d].user = call[d].user
        /\ (Renewed(d)' => Renewing(d)')
    BY <2>1, <2>2, <2>3 DEF Renewing, Renewed
  <2>5. (\A d \in Call \ {c} : session'[d] = session[d])
        /\ session'[c] = [status |-> "active", user |-> call[c].user, from |-> call[c].token]
    BY <2>1 DEF Base, TypeOK, AuthTypeOK
  <2>6. session[c].status = "absent"
    BY <2>1 DEF RotInv, NoSession
  <2>7. \A d \in Call : Renewing(d)' => call[d].token \in Call /\ call[d].token # c
    BY <2>4, <2>6 DEF RotInv, Base, CallInv, Fits, Renewing
  <2>8. \A d \in Call : call'[d].pc # "granted" => session'[d] = NoSession
    BY <2>2, <2>3, <2>5 DEF RotInv
  <2>9. \A d \in Call : call'[d].pc = "granted" =>
           session'[d].status # "absent" /\ session'[d].from = call'[d].token
           /\ session'[d].user = call'[d].user
    BY <2>2, <2>3, <2>5 DEF RotInv
  <2>10. \A d \in Call : Renewing(d)' =>
           session'[call'[d].token].status # "absent"
           /\ session'[call'[d].token].user = call'[d].user
    BY <2>4, <2>5, <2>7 DEF RotInv
  <2>11. \A d \in Call : Renewed(d)' => session'[call'[d].token].status = "rotated"
    BY <2>4, <2>5, <2>7 DEF RotInv
  <2>12. \A d, e \in Call : Renewed(d)' /\ Renewed(e)' /\ call'[d].token = call'[e].token => d = e
    BY <2>4 DEF RotInv
  <2> QED BY <2>8, <2>9, <2>10, <2>11, <2>12 DEF RotInv
<1>8. CASE RevokeSessions(c)
  <2>1. call[c].kind = "reset" /\ Goto(c, "done")
    BY <1>1, <1>8 DEF RevokeSessions, Fits
  <2>2. call'[c].pc = "done"
    BY <2>1 DEF Goto, Base, TypeOK, AuthTypeOK
  <2>3. \A d \in Call \ {c} : call'[d] = call[d]
    BY <1>1 DEF Moved
  <2>4. \A d \in Call : (Renewing(d)' => d # c /\ Renewing(d)) /\ (Renewed(d)' => d # c /\ Renewed(d))
        /\ (Renewed(d)' => Renewing(d)')
    BY <2>2, <2>3 DEF Renewing, Renewed
  <2>5. ASSUME NEW s \in Call
        PROVE  /\ session'[s].user = session[s].user /\ session'[s].from = session[s].from
               /\ session[s].status = "rotated" => session'[s].status = "rotated"
               /\ session[s].status # "absent" => session'[s].status # "absent"
               /\ session[s] = NoSession => session'[s] = NoSession
    BY <1>8 DEF RevokeSessions, Base, TypeOK, AuthTypeOK, SessionDoc, NoSession
  <2>6. \A d \in Call : Renewing(d)' => call[d].token \in Call
    BY <2>4 DEF Base, CallInv, Fits, Renewing
  <2>7. \A d \in Call : call'[d].pc # "granted" => session'[d] = NoSession
    BY <1>3, <2>3, <2>5 DEF RotInv
  <2>8. \A d \in Call : call'[d].pc = "granted" =>
           session'[d].status # "absent" /\ session'[d].from = call'[d].token
           /\ session'[d].user = call'[d].user
    BY <2>2, <2>3, <2>5 DEF RotInv
  <2>9. \A d \in Call : Renewing(d)' =>
           session'[call'[d].token].status # "absent"
           /\ session'[call'[d].token].user = call'[d].user
    BY <2>3, <2>4, <2>5, <2>6 DEF RotInv
  <2>10. \A d \in Call : Renewed(d)' => session'[call'[d].token].status = "rotated"
    BY <2>3, <2>4, <2>5, <2>6 DEF RotInv
  <2>11. \A d, e \in Call : Renewed(d)' /\ Renewed(e)' /\ call'[d].token = call'[e].token => d = e
    BY <2>3, <2>4 DEF RotInv
  <2> QED BY <2>7, <2>8, <2>9, <2>10, <2>11 DEF RotInv
<1> QED BY <1>4, <1>5, <1>6, <1>7, <1>8 DEF HandlerStep

(* Every step keeps it. *)
LEMMA RotStep ==
    ASSUME Base, RotInv, [Next]_vars
    PROVE  RotInv'
<1>1. ASSUME NEW c \in Call, HandlerStep(c) PROVE RotInv'
  BY <1>1, RotHandler
<1>2. CASE (\E c \in Call : Expire(c)) \/ (\E u \in User : Disable(u))
  BY <1>2, AsideKeeps, RotStill
<1>3. CASE ClientStep
  <2>1. Begun
    BY <1>3, ClientKeeps DEF Kept
  <2> QED BY <2>1, RotStill DEF Begun, Opened, Renewing
<1>4. CASE UNCHANGED vars
  BY <1>4, RotStill DEF vars, authVars
<1> QED BY <1>1, <1>2, <1>3, <1>4 DEF Next, ServerStep, AuthNext, ClientStep

(* A refresh token buys one successor, whatever tabs, lost answers and     *)
(* password resets do: auth/service.py rotates the session only while it   *)
(* is active, and issues tokens only when it was the one that did.         *)
THEOREM ThmRotatedOnce == Spec => []RotatedOnce
<1>1. Init => RotInv
  BY DEF Init, AuthInit, RotInv, NoCall, Renewing, Renewed
<1>2. Base /\ RotInv => RotatedOnce
  BY RotImplies
<1> QED BY <1>1, <1>2, InitBase, StepBase, RotStep, PTL DEF Spec

-----------------------------------------------------------------------------
(* A reset token changes one password. *)

Redeeming(c) == call[c].kind = "reset" /\ call[c].pc \in {"password", "revoke", "done"}

(* A reset token is its call's, and whoever redeems one has it to itself. *)
RedInv ==
    /\ \A c \in Call : call[c].pc # "done" => resetToken[c] = NoToken
    /\ \A c \in Call : Redeeming(c) => resetToken[call[c].token].status = "used"
    /\ \A c, d \in Call : Redeeming(c) /\ Redeeming(d) /\ call[c].token = call[d].token => c = d

(* A token that is used stays used, and no call starts to redeem. *)
LEMMA RedStill ==
    ASSUME Base, RedInv,
           \A c \in Call : call'[c].pc # "done" => resetToken'[c] = NoToken,
           \A k \in Call : resetToken[k].status = "used" => resetToken'[k].status = "used",
           \A c \in Call : Redeeming(c)' => Redeeming(c) /\ call'[c].token = call[c].token
    PROVE  RedInv'
<1>1. \A c \in Call : Redeeming(c) => call[c].token \in Call
  BY DEF Base, CallInv, Fits, Redeeming
<1> QED BY <1>1 DEF RedInv

(* Each handler step keeps the invariant on reset tokens. *)
LEMMA RedHandler ==
    ASSUME Base, RedInv, NEW c \in Call, HandlerStep(c)
    PROVE  RedInv'
<1>1. Moved(c) /\ Fits(call[c]) /\ Fits(call'[c]) /\ call[c] \in CallDoc
  BY HandlerMoves DEF Base, CallInv, TypeOK, AuthTypeOK
<1>2. call[c].pc # "done" /\ \A d \in Call : call'[d].pc # "done" => call[d].pc # "done"
  BY <1>1 DEF Moved, AuthRunning
<1>3. \A d \in Call \ {c} : call'[d] = call[d]
  BY <1>1 DEF Moved
<1>4. CASE Login(c) \/ CheckNames(c) \/ InsertUser(c) \/ FindSession(c) \/ Rotate(c)
           \/ IssueTokens(c) \/ FindUser(c)
  <2>1. resetToken' = resetToken /\ call[c].kind # "reset"
    BY <1>1, <1>4 DEF Login, CheckNames, InsertUser, FindSession, Rotate, IssueTokens, FindUser,
                      Arrived, Fits
  <2>2. call'[c].kind # "reset"
    BY <1>1, <2>1 DEF Moved
  <2>3. \A d \in Call : Redeeming(d)' => Redeeming(d) /\ call'[d].token = call[d].token
    BY <1>3, <2>2 DEF Redeeming
  <2>4. \A d \in Call : call'[d].pc # "done" => resetToken'[d] = NoToken
    BY <1>2, <2>1 DEF RedInv
  <2> QED BY <2>1, <2>3, <2>4, RedStill
<1>5. CASE SetPassword(c) \/ RevokeSessions(c)
  <2>1. resetToken' = resetToken /\ Redeeming(c)
    BY <1>1, <1>5 DEF SetPassword, RevokeSessions, Fits, Redeeming
  <2>2. \A d \in Call : Redeeming(d)' => Redeeming(d) /\ call'[d].token = call[d].token
    BY <1>1, <1>3, <2>1 DEF Redeeming, Moved
  <2>3. \A d \in Call : call'[d].pc # "done" => resetToken'[d] = NoToken
    BY <1>2, <2>1 DEF RedInv
  <2> QED BY <2>1, <2>2, <2>3, RedStill
<1>6. CASE RetireTokens(c)
  <2>1. \A k \in Call : /\ resetToken[k].status = "used" => resetToken'[k].status = "used"
                        /\ resetToken[k] = NoToken => resetToken'[k] = NoToken
    BY <1>6 DEF RetireTokens, Base, TypeOK, AuthTypeOK, TokenDoc, NoToken
  <2>2. call'[c].kind # "reset"
    BY <1>1, <1>6 DEF RetireTokens, Fits, Moved
  <2>3. \A d \in Call : Redeeming(d)' => Redeeming(d) /\ call'[d].token = call[d].token
    BY <1>3, <2>2 DEF Redeeming
  <2>4. \A d \in Call : call'[d].pc # "done" => resetToken'[d] = NoToken
    BY <1>2, <2>1 DEF RedInv
  <2> QED BY <2>1, <2>3, <2>4, RedStill
<1>7. CASE OfferToken(c)
  <2>1. \A k \in Call \ {c} : resetToken'[k] = resetToken[k]
    BY <1>7 DEF OfferToken, Base, TypeOK, AuthTypeOK
  <2>2. resetToken[c].status # "used"
    BY <1>2 DEF RedInv, NoToken
  <2>3. call'[c].kind # "reset" /\ call'[c].pc = "done"
    BY <1>1, <1>7 DEF OfferToken, Fits, Moved, Goto, Base, TypeOK, AuthTypeOK
  <2>4. \A d \in Call : Redeeming(d)' => Redeeming(d) /\ call'[d].token = call[d].token
    BY <1>3, <2>3 DEF Redeeming
  <2>5. \A d \in Call : call'[d].pc # "done" => resetToken'[d] = NoToken
    BY <1>2, <2>1, <2>3 DEF RedInv
  <2>6. \A k \in Call : resetToken[k].status = "used" => resetToken'[k].status = "used"
    BY <2>1, <2>2
  <2> QED BY <2>4, <2>5, <2>6, RedStill
<1>8. CASE Redeem(c)
  <2> DEFINE k == call[c].token
  <2>1. call[c].kind = "reset" /\ k \in Call
    BY <1>1, <1>8 DEF Redeem, Arrived, Fits
  <2>2. CASE Goto(c, "unauthorized") /\ resetToken' = resetToken
    <3>1. call'[c].pc = "unauthorized"
      BY <2>2 DEF Goto, Base, TypeOK, AuthTypeOK
    <3>2. \A d \in Call : Redeeming(d)' => Redeeming(d) /\ call'[d].token = call[d].token
      BY <1>3, <3>1 DEF Redeeming
    <3>3. \A d \in Call : call'[d].pc # "done" => resetToken'[d] = NoToken
      BY <1>2, <2>2 DEF RedInv
    <3> QED BY <2>2, <3>2, <3>3, RedStill
  <2>3. CASE resetToken[k].status = "unused" /\ Serve(c, "password", resetToken[k].user)
             /\ resetToken' = [resetToken EXCEPT ![k].status = "used"]
    <3>1. call'[c].pc = "password" /\ call'[c].token = k
      BY <1>1, <2>3 DEF Moved, Serve, Base, TypeOK, AuthTypeOK, CallDoc
    <3>2. (\A e \in Call \ {k} : resetToken'[e] = resetToken[e]) /\ resetToken'[k].status = "used"
      BY <2>1, <2>3 DEF Base, TypeOK, AuthTypeOK, TokenDoc
    <3>3. call[k].pc = "done"
      BY <2>1, <2>3 DEF RedInv, NoToken
    <3> HIDE DEF k
    <3>4. \A d \in Call : Redeeming(d)' => d = c \/ (Redeeming(d) /\ call'[d].token = call[d].token)
      BY <1>3 DEF Redeeming
    <3>5. \A d \in Call : call'[d].pc # "done" => resetToken'[d] = NoToken
      BY <1>2, <1>3, <2>1, <3>1, <3>2, <3>3 DEF RedInv
    <3>6. \A d \in Call : Redeeming(d)' => call'[d].token \in Call
      BY <2>1, <3>1, <3>4 DEF Base, CallInv, Fits, Redeeming
    <3>7. \A d \in Call : Redeeming(d)' => resetToken'[call'[d].token].status = "used"
      BY <3>1, <3>2, <3>4, <3>6 DEF RedInv
    <3>8. \A d \in Call \ {c} : Redeeming(d)' => call'[d].token # k
      BY <2>3, <3>4 DEF RedInv
    <3>9. \A d, e \in Call : Redeeming(d)' /\ Redeeming(e)' /\ call'[d].token = call'[e].token => d = e
      BY <3>1, <3>4, <3>8 DEF RedInv
    <3> QED BY <3>5, <3>7, <3>9 DEF RedInv
  <2> QED BY <1>8, <2>2, <2>3 DEF Redeem
<1> QED BY <1>4, <1>5, <1>6, <1>7, <1>8 DEF HandlerStep

(* Every step keeps it. *)
LEMMA RedStep ==
    ASSUME Base, RedInv, [Next]_vars
    PROVE  RedInv'
<1>1. ASSUME NEW c \in Call, HandlerStep(c) PROVE RedInv'
  BY <1>1, RedHandler
<1>2. CASE UNCHANGED <<call, resetToken>>
  BY <1>2, RedStill DEF RedInv, Redeeming
<1>3. CASE ClientStep
  <2>1. Begun
    BY <1>3, ClientKeeps DEF Kept
  <2>2. resetToken' = resetToken
    BY <2>1 DEF Begun
  <2>3. \A c \in Call : call'[c] = call[c] \/ (call[c].pc = "idle" /\ call'[c].pc \in {"sent", "conflict"})
    BY <2>1 DEF Begun, Opened
  <2>4. \A c \in Call : Redeeming(c)' => Redeeming(c) /\ call'[c].token = call[c].token
    BY <2>3 DEF Redeeming
  <2>5. \A c \in Call : call'[c].pc # "done" => resetToken'[c] = NoToken
    BY <2>2, <2>3 DEF RedInv
  <2> QED BY <2>2, <2>4, <2>5, RedStill
<1> QED BY <1>1, <1>2, <1>3, AsideKeeps DEF Next, ServerStep, AuthNext, ClientStep, vars, authVars

(* A reset token changes one password: auth/service.py marks it used in    *)
(* the call that finds it unused.                                          *)
THEOREM ThmRedeemedOnce == Spec => []RedeemedOnce
<1>1. Init => RedInv
  BY DEF Init, AuthInit, RedInv, NoCall, Redeeming
<1>2. RedInv => RedeemedOnce
  BY DEF RedInv, Redeeming, RedeemedOnce
<1> QED BY <1>1, <1>2, InitBase, StepBase, RedStep, PTL DEF Spec

-----------------------------------------------------------------------------
(* Requests wait for the refresh of their own page. *)

(* Every step keeps waiters and refreshes together. *)
LEMMA WaitStep ==
    ASSUME Base, WaitersAreServed, [Next]_vars
    PROVE  WaitersAreServed'
<1> SUFFICES ASSUME NEW u \in Tab
             PROVE  (promise[u] # None <=> Waiting(u) # {})'
  BY DEF WaitersAreServed
<1>1. promise[u] # None <=> Waiting(u) # {}
  BY DEF WaitersAreServed
<1>2. request \in [Request -> RequestDoc] /\ promise \in [Tab -> Call \cup {None}]
      /\ \A r \in Request : request[r].pc # "idle" => request[r].tab \in Tab
  BY DEF Base, TypeOK, ClientTypeOK, RequestInv, RequestFits
<1>3. NoRequest.pc = "idle" /\ None \notin Call
  BY AuthAssumption DEF NoRequest
<1>4. CASE UNCHANGED <<promise, request>>
  BY <1>1, <1>4 DEF Waiting
<1>5. ASSUME NEW t \in Tab, LoadPage(t)
      PROVE  (promise[u] # None <=> Waiting(u) # {})'
  BY <1>1, <1>2, <1>3, <1>5 DEF LoadPage, Waiting
<1>6. ASSUME NEW r \in Request, request[r].pc # "waiting", promise' = promise,
             NEW q, q.pc # "waiting", request' = [request EXCEPT ![r] = q]
      PROVE  (promise[u] # None <=> Waiting(u) # {})'
  BY <1>1, <1>2, <1>6 DEF Waiting
<1>7. ASSUME NEW t \in Tab, NEW r \in Request, StartRequest(t, r)
      PROVE  (promise[u] # None <=> Waiting(u) # {})'
  BY <1>6, <1>7 DEF StartRequest
<1>8. ASSUME NEW t \in Tab, NEW r \in Request, NEW f, NEW c, Submit(t, r, f, c)
      PROVE  (promise[u] # None <=> Waiting(u) # {})'
  BY <1>6, <1>8 DEF Submit
<1>9. ASSUME NEW r \in Request, EndRequest(r) \/ SignedIn(r) \/ Expelled(r)
      PROVE  (promise[u] # None <=> Waiting(u) # {})'
  BY <1>3, <1>6, <1>9 DEF EndRequest, SignedIn, Expelled, Unauthorized, Finish
<1>10. ASSUME NEW r \in Request, JoinRefresh(r)
       PROVE  (promise[u] # None <=> Waiting(u) # {})'
  <2>1. request[r].pc = "sent" /\ promise[request[r].tab] # None /\ promise' = promise
        /\ request' = [request EXCEPT ![r].pc = "waiting", ![r].call = None]
    BY <1>10 DEF JoinRefresh, Unauthorized
  <2>2. \A o \in Request \ {r} : request'[o] = request[o]
    BY <1>2, <2>1
  <2>3. request'[r].pc = "waiting" /\ request'[r].tab = request[r].tab
    BY <1>2, <2>1 DEF RequestDoc
  <2>4. CASE u = request[r].tab
    <3>1. r \in Waiting(u)'
      BY <2>3, <2>4 DEF Waiting
    <3> QED BY <2>1, <2>4, <3>1
  <2>5. CASE u # request[r].tab
    <3>1. Waiting(u)' = Waiting(u)
      BY <2>1, <2>2, <2>3, <2>5 DEF Waiting
    <3> QED BY <1>1, <2>1, <3>1
  <2> QED BY <2>4, <2>5
<1>11. ASSUME NEW r \in Request, NEW c \in Free, Refresh(r, c)
       PROVE  (promise[u] # None <=> Waiting(u) # {})'
  <2>1. request[r].pc = "sent" /\ promise[request[r].tab] = None
        /\ promise' = [promise EXCEPT ![request[r].tab] = c] /\ c \in Call
        /\ request' = [request EXCEPT ![r].pc = "waiting", ![r].call = None]
    BY <1>11 DEF Refresh, Unauthorized, Free
  <2>2. \A o \in Request \ {r} : request'[o] = request[o]
    BY <1>2, <2>1
  <2>3. request'[r].pc = "waiting" /\ request'[r].tab = request[r].tab
    BY <1>2, <2>1 DEF RequestDoc
  <2>4. CASE u = request[r].tab
    BY <1>2, <1>3, <2>1, <2>3, <2>4 DEF Waiting
  <2>5. CASE u # request[r].tab
    <3>1. promise'[u] = promise[u]
      BY <1>2, <2>1, <2>5
    <3>2. Waiting(u)' = Waiting(u)
      BY <2>1, <2>2, <2>3, <2>5 DEF Waiting
    <3> QED BY <1>1, <3>1, <3>2
  <2> QED BY <2>4, <2>5
<1>12. ASSUME NEW t \in Tab, promise' = [promise EXCEPT ![t] = None],
              \A r \in Request : r \in Waiting(t) => request'[r].pc # "waiting",
              \A r \in Request : r \notin Waiting(t) => request'[r] = request[r]
       PROVE  (promise[u] # None <=> Waiting(u) # {})'
  <2>1. CASE u = t
    BY <1>2, <1>12, <2>1 DEF Waiting
  <2>2. CASE u # t
    <3>1. promise'[u] = promise[u] /\ Waiting(u)' = Waiting(u)
      BY <1>2, <1>12, <2>2 DEF Waiting
    <3> QED BY <1>1, <3>1
  <2> QED BY <2>1, <2>2
<1>13. ASSUME NEW t \in Tab, RefreshFailed(t)
       PROVE  (promise[u] # None <=> Waiting(u) # {})'
  BY <1>3, <1>12, <1>13 DEF RefreshFailed
<1>14. ASSUME NEW t \in Tab, Refreshed(t)
       PROVE  (promise[u] # None <=> Waiting(u) # {})'
  <2>1. PICK again : Again(t, again)
    BY <1>14, RefreshedAgain
  <2>2. promise' = [promise EXCEPT ![t] = None]
    BY <1>14, RefreshedAgain
  <2>3. Forms(t) \subseteq Waiting(t)
    BY DEF Forms
  <2>4. ASSUME NEW r \in Waiting(t)
        PROVE  request'[r].pc = "sent"
    <3>1. r \in Request /\ request[r] \in RequestDoc
      BY <1>2 DEF Waiting
    <3>2. CASE r \in Forms(t)
      <4>1. request'[r] = [request[r] EXCEPT !.pc = "sent", !.call = again[r]]
        BY <2>1, <3>1, <3>2 DEF Again, SendAgain
      <4> QED BY <3>1, <4>1 DEF RequestDoc
    <3>3. CASE r \notin Forms(t)
      <4>1. request'[r] = [request[r] EXCEPT !.pc = "sent", !.token = promise[t]]
        BY <2>1, <3>1, <3>3 DEF Again, SendAgain
      <4> QED BY <3>1, <4>1 DEF RequestDoc
    <3> QED BY <3>2, <3>3
  <2>5. \A r \in Request : r \notin Waiting(t) => request'[r] = request[r]
    BY <2>1, <2>3 DEF Again, SendAgain
  <2> QED BY <1>12, <2>2, <2>4, <2>5
<1>15. CASE ServerStep \/ UNCHANGED vars
  BY <1>4, <1>15 DEF ServerStep, vars, clientVars
<1>16. ASSUME NEW t \in Tab, SignOut(t)
       PROVE  (promise[u] # None <=> Waiting(u) # {})'
  BY <1>4, <1>16 DEF SignOut
<1> QED BY <1>5, <1>7, <1>8, <1>9, <1>10, <1>11, <1>13, <1>14, <1>15, <1>16
        DEF Next, ScreenStep, RequestStep, RefreshStep, RefreshRefused, RefreshTimedOut,
            Answered, AuthAnswered, NoAnswer

(* Whoever waits, waits for a refresh that its own page has under way, and *)
(* apiClient.ts keeps no refreshPromise that has ended.                    *)
THEOREM ThmWaitersAreServed == Spec => []WaitersAreServed
<1>1. Init => WaitersAreServed
  BY DEF Init, ClientInit, WaitersAreServed, Waiting, NoRequest
<1> QED BY <1>1, InitBase, StepBase, WaitStep, PTL DEF Spec

-----------------------------------------------------------------------------
(* A page presents a refresh token once.  A stored token is settled: its   *)
(* call has been answered, and no page still waits for that answer.  A     *)
(* page that presented a token it still finds stored has that refresh      *)
(* under way.                                                              *)

(* Pages are numbered as they are loaded. *)
PageInv ==
    /\ \A t \in Tab : page[t] \leq loads
    /\ \A t, u \in Tab : page[t] > 0 /\ page[t] = page[u] => t = u
    /\ \A c \in Call : sender[c] \leq loads
    /\ \A t \in Tab : profile[t] # None => page[t] > 0
    /\ \A r \in Request : request[r].pc # "idle" => page[request[r].tab] > 0

(* A call is waited for in one place. *)
PendInv ==
    /\ \A r \in Request : request[r].call # None => call[request[r].call].kind \in Endpoint \ {"refresh"}
    /\ \A r, o \in Request : request[r].call # None /\ request[r].call = request[o].call => r = o
    /\ \A t \in Tab : promise[t] # None => call[promise[t]].kind = "refresh"
    /\ \A t, u \in Tab : promise[t] # None /\ promise[t] = promise[u] => t = u

Settled(s) ==
    /\ call[s].pc = "granted"
    /\ \A r \in Request : request[r].call # s
    /\ \A t \in Tab : promise[t] # s

StoreInv ==
    /\ local.pair # None => Settled(local.pair)
    /\ \A t \in Tab : own[t].pair # None => Settled(own[t].pair)
    /\ \A d \in Call : call[d].kind = "refresh" => Settled(call[d].token)

PresInv ==
    /\ \A t \in Tab, d \in Call :
          /\ call[d].kind = "refresh"
          /\ page[t] > 0 /\ sender[d] = page[t]
          /\ call[d].token \in {local.pair, own[t].pair}
          => promise[t] = d
    /\ PresentedOnce

(* What a call is and presents never changes, nor that it was granted. *)
Steady(c) ==
    /\ call[c].kind # None => call'[c].kind = call[c].kind /\ call'[c].token = call[c].token
    /\ call[c].pc = "granted" => call'[c].pc = "granted"

(* Every step of the system is steady. *)
LEMMA CallsSteady ==
    ASSUME Base, [Next]_vars, NEW c \in Call
    PROVE  Steady(c)
<1>1. ASSUME NEW d \in Call, HandlerStep(d) PROVE Steady(c)
  BY <1>1, HandlerMoves DEF Moved, Steady, AuthRunning
<1>2. CASE call' = call
  BY <1>2 DEF Steady
<1>3. CASE ClientStep
  <2>1. Begun
    BY <1>3, ClientKeeps DEF Kept
  <2> QED BY <2>1 DEF Begun, Steady, Base, CallInv, Fits
<1> QED BY <1>1, <1>2, <1>3, AsideKeeps DEF Next, ServerStep, AuthNext, ClientStep, vars, authVars

(* Every step keeps the numbering of the pages. *)
LEMMA PageStep ==
    ASSUME Base, PageInv, [Next]_vars
    PROVE  PageInv'
<1>1. /\ page \in [Tab -> 0 .. MaxLoads] /\ loads \in 0 .. MaxLoads /\ MaxLoads \in Nat
      /\ sender \in [Call -> 0 .. MaxLoads] /\ profile \in [Tab -> User \cup {None}]
      /\ request \in [Request -> RequestDoc]
      /\ \A r \in Request : request[r].pc # "idle" => request[r].tab \in Tab
      /\ NoRequest.pc = "idle" /\ None \notin Tab
  BY BrowserAssumption DEF Base, TypeOK, ClientTypeOK, RequestInv, RequestFits, NoRequest
<1>2. ASSUME UNCHANGED <<loads, page>>,
             \A c \in Call : sender'[c] = sender[c] \/ \E t \in Tab : sender'[c] = page[t],
             \A t \in Tab : profile'[t] = profile[t] \/ page[t] > 0 \/ profile'[t] = None,
             \A r \in Request : request'[r].pc = "idle" \/ page[request'[r].tab] > 0
      PROVE  PageInv'
  BY <1>1, <1>2 DEF PageInv
<1>3. ASSUME UNCHANGED request
      PROVE  \A r \in Request : request'[r].pc = "idle" \/ page[request'[r].tab] > 0
  BY <1>3 DEF PageInv
<1>4. CASE ServerStep \/ UNCHANGED vars
  BY <1>2, <1>3, <1>4 DEF ServerStep, vars, clientVars
<1>5. ASSUME NEW t \in Tab, LoadPage(t) PROVE PageInv'
  <2>1. loads' = loads + 1 /\ page' = [page EXCEPT ![t] = loads + 1] /\ sender' = sender
        /\ (\A u \in Tab \ {t} : profile'[u] = profile[u])
        /\ request' = [r \in Request |-> IF request[r].tab = t THEN NoRequest ELSE request[r]]
    BY <1>1, <1>5 DEF LoadPage
  <2>2. page'[t] = loads + 1 /\ \A u \in Tab \ {t} : page'[u] = page[u]
    BY <1>1, <2>1
  <2>3. \A u \in Tab : page'[u] \leq loads'
    BY <1>1, <2>1, <2>2 DEF PageInv
  <2>4. \A u, v \in Tab : page'[u] > 0 /\ page'[u] = page'[v] => u = v
    BY <1>1, <2>2 DEF PageInv
  <2>5. \A c \in Call : sender'[c] \leq loads'
    BY <1>1, <2>1 DEF PageInv
  <2>6. \A u \in Tab : profile'[u] # None => page'[u] > 0
    BY <1>1, <2>1, <2>2 DEF PageInv
  <2>7. \A r \in Request : request'[r].pc # "idle" => page'[request'[r].tab] > 0
    BY <1>1, <2>1, <2>2 DEF PageInv
  <2> QED BY <2>3, <2>4, <2>5, <2>6, <2>7 DEF PageInv
<1>6. ASSUME NEW r \in Request, NEW q, request' = [request EXCEPT ![r] = q],
             q.pc = "idle" \/ page[q.tab] > 0
      PROVE  \A o \in Request : request'[o].pc = "idle" \/ page[request'[o].tab] > 0
  BY <1>1, <1>6 DEF PageInv
<1>7. ASSUME NEW r \in Request, Finish(r)
      PROVE  \A o \in Request : request'[o].pc = "idle" \/ page[request'[o].tab] > 0
  BY <1>1, <1>6, <1>7 DEF Finish
<1>8. ASSUME NEW t \in Tab, NEW r \in Request, StartRequest(t, r) PROVE PageInv'
  <2>1. page[t] > 0
    BY <1>8 DEF StartRequest, PageInv
  <2> QED BY <1>2, <1>6, <1>8, <2>1 DEF StartRequest
<1>9. ASSUME NEW t \in Tab, NEW r \in Request, NEW f, NEW c, Submit(t, r, f, c) PROVE PageInv'
  <2>1. \A d \in Call : sender'[d] = sender[d] \/ sender'[d] = page[t]
    BY <1>1, <1>9 DEF Submit
  <2> QED BY <1>2, <1>6, <1>9, <2>1 DEF Submit
<1>10. ASSUME NEW t \in Tab, SignedOut(t)
       PROVE  \A u \in Tab : profile'[u] = profile[u] \/ profile'[u] = None
  BY <1>1, <1>10 DEF SignedOut
<1>11. ASSUME NEW t \in Tab, SignOut(t) PROVE PageInv'
  BY <1>2, <1>3, <1>10, <1>11 DEF SignOut
<1>12. ASSUME NEW r \in Request, EndRequest(r) PROVE PageInv'
  BY <1>2, <1>7, <1>12 DEF EndRequest
<1>13. ASSUME NEW r \in Request, SignedIn(r) PROVE PageInv'
  <2>1. page[request[r].tab] > 0 /\ request[r].tab \in Tab
    BY <1>1, <1>13 DEF SignedIn, PageInv
  <2>2. \A u \in Tab : profile'[u] = profile[u] \/ page[u] > 0
    BY <1>1, <1>13, <2>1 DEF SignedIn, SetSession
  <2> QED BY <1>2, <1>7, <1>13, <2>2 DEF SignedIn
<1>14. ASSUME NEW r \in Request, Expelled(r) PROVE PageInv'
  <2>1. request[r].tab \in Tab
    BY <1>1, <1>14 DEF Expelled, Unauthorized
  <2> QED BY <1>2, <1>7, <1>10, <1>14, <2>1 DEF Expelled
<1>15. ASSUME NEW r \in Request, request[r].pc = "sent",
              request' = [request EXCEPT ![r].pc = "waiting", ![r].call = None]
       PROVE  \A o \in Request : request'[o].pc = "idle" \/ page[request'[o].tab] > 0
  BY <1>1, <1>15 DEF PageInv, RequestDoc
<1>16. ASSUME NEW r \in Request, JoinRefresh(r) PROVE PageInv'
  BY <1>2, <1>15, <1>16 DEF JoinRefresh, Unauthorized
<1>17. ASSUME NEW r \in Request, NEW c \in Free, Refresh(r, c) PROVE PageInv'
  <2>1. request[r].pc = "sent" /\ request[r].tab \in Tab
    BY <1>1, <1>17 DEF Refresh, Unauthorized
  <2>2. \A d \in Call : sender'[d] = sender[d] \/ sender'[d] = page[request[r].tab]
    BY <1>1, <1>17 DEF Refresh
  <2> QED BY <1>2, <1>15, <1>17, <2>1, <2>2 DEF Refresh
<1>18. ASSUME NEW t \in Tab, RefreshFailed(t) PROVE PageInv'
  <2>1. \A o \in Request : request'[o].pc = "idle" \/ page[request'[o].tab] > 0
    BY <1>1, <1>18 DEF RefreshFailed, PageInv
  <2> QED BY <1>2, <1>10, <1>18, <2>1 DEF RefreshFailed
<1>19. ASSUME NEW t \in Tab, Refreshed(t) PROVE PageInv'
  <2>1. PICK again : Again(t, again)
    BY <1>19, RefreshedAgain
  <2>2. \A d \in Call : sender'[d] = sender[d] \/ sender'[d] = page[t]
    BY <2>1 DEF Again, SendAgain
  <2>3. ASSUME NEW o \in Request
        PROVE  request'[o].pc = "idle" \/ page[request'[o].tab] > 0
    <3>1. request[o] \in RequestDoc /\ (request[o].pc = "idle" \/ page[request[o].tab] > 0)
      BY <1>1 DEF PageInv
    <3>2. CASE o \in Forms(t)
      <4>1. request'[o] = [request[o] EXCEPT !.pc = "sent", !.call = again[o]]
            /\ request[o].pc = "waiting"
        BY <2>1, <3>2 DEF Again, SendAgain, Forms, Waiting
      <4> QED BY <3>1, <4>1 DEF RequestDoc
    <3>3. CASE o \notin Forms(t) /\ o \in Waiting(t)
      <4>1. request'[o] = [request[o] EXCEPT !.pc = "sent", !.token = promise[t]]
            /\ request[o].pc = "waiting"
        BY <2>1, <3>3 DEF Again, SendAgain, Waiting
      <4> QED BY <3>1, <4>1 DEF RequestDoc
    <3>4. CASE o \notin Forms(t) /\ o \notin Waiting(t)
      BY <2>1, <3>1, <3>4 DEF Again, SendAgain
    <3> QED BY <3>2, <3>3, <3>4
  <2>4. UNCHANGED <<loads, page, profile>>
    BY <1>19, RefreshedAgain
  <2> QED BY <1>2, <2>2, <2>3, <2>4
<1> QED BY <1>4, <1>5, <1>8, <1>9, <1>11, <1>12, <1>13, <1>14, <1>16, <1>17, <1>18, <1>19
        DEF Next, ScreenStep, RequestStep, RefreshStep, RefreshRefused, RefreshTimedOut,
            Answered, AuthAnswered, NoAnswer

(* What a step may do to the calls that are waited for: stop waiting, or   *)
(* wait for one it begins, in one place.                                   *)
AwaitsForm(r) ==
    /\ request'[r].call \in Call /\ call[request'[r].call].kind = None
    /\ call'[request'[r].call].kind \in Endpoint \ {"refresh"}

AwaitsRefresh(t) ==
    /\ promise'[t] \in Call /\ call[promise'[t]].kind = None
    /\ call'[promise'[t]].kind = "refresh"

Awaits ==
    /\ \A r \in Request : request'[r].call \in {request[r].call, None} \/ AwaitsForm(r)
    /\ \A r, o \in Request : AwaitsForm(r) /\ request'[r].call = request'[o].call => r = o
    /\ \A t \in Tab : promise'[t] \in {promise[t], None} \/ AwaitsRefresh(t)
    /\ \A t, u \in Tab : AwaitsRefresh(t) /\ promise'[t] = promise'[u] => t = u

(* Settled, after the step. *)
Settles(s) ==
    /\ call'[s].pc = "granted"
    /\ \A r \in Request : request'[r].call # s
    /\ \A t \in Tab : promise'[t] # s

(* Such a step keeps the calls waited for in one place, and settled        *)
(* calls settled.                                                          *)
LEMMA AwaitsKeeps ==
    ASSUME Base, PendInv, Awaits, \A c \in Call : Steady(c)
    PROVE  PendInv' /\ \A s \in Call : Settled(s) => Settles(s)
<1>1. None \notin Call /\ None \notin Endpoint
      /\ (\A r \in Request : request[r].call \in Call \cup {None})
      /\ (\A t \in Tab : promise[t] \in Call \cup {None})
  BY AuthAssumption DEF Base, TypeOK, ClientTypeOK, RequestDoc
<1>2. ASSUME NEW r \in Request, request'[r].call # None
      PROVE  call'[request'[r].call].kind \in Endpoint \ {"refresh"}
  <2>1. CASE AwaitsForm(r)
    BY <2>1 DEF AwaitsForm
  <2>2. CASE request'[r].call = request[r].call
    BY <1>1, <1>2, <2>2 DEF PendInv, Steady
  <2> QED BY <1>2, <2>1, <2>2 DEF Awaits
<1>3. ASSUME NEW r \in Request, NEW o \in Request,
             request'[r].call # None, request'[r].call = request'[o].call
      PROVE  r = o
  <2>1. CASE AwaitsForm(r) \/ AwaitsForm(o)
    BY <1>3, <2>1 DEF Awaits
  <2>2. CASE request'[r].call = request[r].call /\ request'[o].call = request[o].call
    BY <1>3, <2>2 DEF PendInv
  <2> QED BY <1>3, <2>1, <2>2 DEF Awaits
<1>4. ASSUME NEW t \in Tab, promise'[t] # None
      PROVE  call'[promise'[t]].kind = "refresh"
  <2>1. CASE AwaitsRefresh(t)
    BY <2>1 DEF AwaitsRefresh
  <2>2. CASE promise'[t] = promise[t]
    <3>1. call[promise[t]].kind = "refresh" /\ promise[t] \in Call
      BY <1>1, <1>4, <2>2 DEF PendInv
    <3>2. "refresh" # None
      BY <1>1 DEF Endpoint
    <3> QED BY <2>2, <3>1, <3>2 DEF Steady
  <2> QED BY <1>4, <2>1, <2>2 DEF Awaits
<1>5. ASSUME NEW t \in Tab, NEW u \in Tab, promise'[t] # None, promise'[t] = promise'[u]
      PROVE  t = u
  <2>1. CASE AwaitsRefresh(t) \/ AwaitsRefresh(u)
    BY <1>5, <2>1 DEF Awaits
  <2>2. CASE promise'[t] = promise[t] /\ promise'[u] = promise[u]
    BY <1>5, <2>2 DEF PendInv
  <2> QED BY <1>5, <2>1, <2>2 DEF Awaits
<1>6. ASSUME NEW s \in Call, Settled(s)
      PROVE  Settles(s)
  <2>1. call[s].pc = "granted" /\ call'[s].pc = "granted" /\ call[s].kind # None
    BY <1>6 DEF Settled, Steady, Base, CallInv, Fits
  <2>2. \A r \in Request : request'[r].call # s
    BY <1>1, <1>6, <2>1 DEF Settled, Awaits, AwaitsForm
  <2>3. \A t \in Tab : promise'[t] # s
    BY <1>1, <1>6, <2>1 DEF Settled, Awaits, AwaitsRefresh
  <2> QED BY <2>1, <2>2, <2>3 DEF Settles
<1> QED BY <1>2, <1>3, <1>4, <1>5, <1>6 DEF PendInv

(* No call is begun. *)
LEMMA AwaitsLess ==
    ASSUME \A r \in Request : request'[r].call \in {request[r].call, None},
           \A t \in Tab : promise'[t] \in {promise[t], None},
           \A r \in Request : ~AwaitsForm(r),
           \A t \in Tab : ~AwaitsRefresh(t)
    PROVE  Awaits
BY DEF Awaits

(* A call that is waited for has a kind. *)
LEMMA KindsKnown ==
    ASSUME Base, PendInv
    PROVE  /\ None \notin Call /\ None \notin Endpoint
           /\ \A r \in Request : request[r].call # None => call[request[r].call].kind # None
           /\ \A t \in Tab : promise[t] # None => call[promise[t]].kind # None
BY AuthAssumption DEF PendInv, Endpoint

(* A step that only stops waiting awaits nothing new. *)
LEMMA AwaitsDropped ==
    ASSUME Base, PendInv,
           \A r \in Request : request'[r].call \in {request[r].call, None},
           \A t \in Tab : promise'[t] \in {promise[t], None}
    PROVE  Awaits
<1>1. \A r \in Request : ~AwaitsForm(r)
  BY KindsKnown DEF AwaitsForm
<1>2. \A t \in Tab : ~AwaitsRefresh(t)
  BY KindsKnown DEF AwaitsRefresh
<1> QED BY <1>1, <1>2, AwaitsLess

(* One request, one promise. *)
LEMMA OneCall ==
    ASSUME Base, NEW r \in Request, NEW q, request' = [request EXCEPT ![r] = q]
    PROVE  request'[r] = q /\ \A o \in Request \ {r} : request'[o] = request[o]
BY DEF Base, TypeOK, ClientTypeOK

(* A request that starts to wait gives up its call. *)
LEMMA WaitCall ==
    ASSUME Base, NEW r \in Request,
           request' = [request EXCEPT ![r].pc = "waiting", ![r].call = None]
    PROVE  request'[r].call = None /\ \A o \in Request \ {r} : request'[o] = request[o]
BY DEF Base, TypeOK, ClientTypeOK, RequestDoc

(* A step of the browser that begins no call. *)
Quiet ==
    \/ \E t \in Tab : LoadPage(t) \/ SignOut(t) \/ RefreshFailed(t)
    \/ \E t \in Tab, r \in Request : StartRequest(t, r)
    \/ \E r \in Request : EndRequest(r) \/ SignedIn(r) \/ Expelled(r) \/ JoinRefresh(r)

(* Those steps only stop waiting. *)
LEMMA QuietAwaits ==
    ASSUME Base, PendInv, Quiet
    PROVE  Awaits
<1>1. promise \in [Tab -> Call \cup {None}] /\ request \in [Request -> RequestDoc]
      /\ NoRequest.call = None
  BY DEF Base, TypeOK, ClientTypeOK, NoRequest
<1>2. ASSUME NEW t \in Tab, LoadPage(t) PROVE Awaits
  BY <1>1, <1>2, AwaitsDropped DEF LoadPage
<1>3. ASSUME NEW t \in Tab, SignOut(t) PROVE Awaits
  BY <1>1, <1>3, AwaitsDropped DEF SignOut
<1>4. ASSUME NEW t \in Tab, RefreshFailed(t) PROVE Awaits
  BY <1>1, <1>4, AwaitsDropped DEF RefreshFailed
<1>5. ASSUME NEW t \in Tab, NEW r \in Request, StartRequest(t, r) PROVE Awaits
  <2> DEFINE q == [pc |-> "sent", tab |-> t, kind |-> "api", call |-> None,
                   token |-> StoredPair(t), company |-> StoredCompany(t),
                   user |-> None, remember |-> FALSE]
  <2>1. request' = [request EXCEPT ![r] = q] /\ promise' = promise
    BY <1>5 DEF StartRequest
  <2>2. q.call = None
    OBVIOUS
  <2> HIDE DEF q
  <2>3. request'[r].call = None /\ (\A o \in Request \ {r} : request'[o] = request[o])
    BY <2>1, <2>2, OneCall
  <2> QED BY <2>1, <2>3, AwaitsDropped
<1>6. ASSUME NEW r \in Request, Finish(r), promise' = promise PROVE Awaits
  <2>1. request'[r].call = None /\ \A o \in Request \ {r} : request'[o] = request[o]
    BY <1>1, <1>6, OneCall DEF Finish
  <2> QED BY <1>6, <2>1, AwaitsDropped
<1>7. ASSUME NEW r \in Request, EndRequest(r) \/ SignedIn(r) \/ Expelled(r) PROVE Awaits
  BY <1>6, <1>7 DEF EndRequest, SignedIn, Expelled
<1>8. ASSUME NEW r \in Request, JoinRefresh(r) PROVE Awaits
  <2>1. request'[r].call = None /\ (\A o \in Request \ {r} : request'[o] = request[o])
        /\ promise' = promise
    BY <1>8, WaitCall DEF JoinRefresh
  <2> QED BY <2>1, AwaitsDropped
<1> QED BY <1>2, <1>3, <1>4, <1>5, <1>7, <1>8 DEF Quiet

(* A form waits for the call it begins. *)
LEMMA SubmitAwaits ==
    ASSUME Base, PendInv, NEW t \in Tab, NEW r \in Request, NEW f \in Form, NEW c \in Free,
           Submit(t, r, f, c)
    PROVE  Awaits
<1>1. c \in Call /\ call[c].kind = None /\ promise' = promise
  BY DEF Free, Submit, Base, CallInv, Fits
<1>2. call'[c].kind \in Endpoint \ {"refresh"}
  BY <1>1, FormFits DEF Submit, Sent, Base, TypeOK, AuthTypeOK
<1>3. request'[r].call = c /\ \A o \in Request \ {r} : request'[o] = request[o]
  <2> DEFINE q == [pc |-> "sent", tab |-> t, kind |-> f.kind, call |-> c,
                   token |-> f.token, company |-> TRUE,
                   user |-> f.user, remember |-> f.remember]
  <2>1. request' = [request EXCEPT ![r] = q] /\ q.call = c
    BY DEF Submit
  <2> HIDE DEF q
  <2> QED BY <2>1, OneCall
<1>4. \A o \in Request : AwaitsForm(o) <=> o = r
  BY <1>1, <1>2, <1>3, KindsKnown DEF AwaitsForm
<1>5. \A o \in Request \ {r} : request'[o].call # c
  BY <1>1, <1>3, KindsKnown
<1>6. \A u \in Tab : ~AwaitsRefresh(u)
  BY <1>1, KindsKnown DEF AwaitsRefresh
<1> QED BY <1>1, <1>3, <1>4, <1>5, <1>6 DEF Awaits

(* A page waits for the refresh it begins. *)
LEMMA RefreshAwaits ==
    ASSUME Base, PendInv, NEW r \in Request, NEW c \in Free, Refresh(r, c)
    PROVE  Awaits
<1> DEFINE t == request[r].tab
<1>1. c \in Call /\ call[c].kind = None /\ request[r].pc = "sent" /\ t \in Tab
  BY DEF Free, Refresh, Unauthorized, Base, CallInv, Fits, RequestInv, RequestFits
<1>2. call'[c].kind = "refresh"
  BY <1>1 DEF Refresh, RefreshCall, Base, TypeOK, AuthTypeOK
<1>3. promise'[t] = c /\ \A u \in Tab \ {t} : promise'[u] = promise[u]
  BY <1>1 DEF Refresh, Base, TypeOK, ClientTypeOK
<1>4. request'[r].call = None /\ \A o \in Request \ {r} : request'[o] = request[o]
  BY WaitCall DEF Refresh
<1> HIDE DEF t
<1>5. \A u \in Tab : AwaitsRefresh(u) <=> u = t
  BY <1>1, <1>2, <1>3, KindsKnown DEF AwaitsRefresh
<1>6. \A u \in Tab \ {t} : promise'[u] # c
  BY <1>1, <1>3, KindsKnown
<1>7. \A o \in Request : ~AwaitsForm(o)
  BY <1>1, <1>4, KindsKnown DEF AwaitsForm
<1> QED BY <1>1, <1>3, <1>4, <1>5, <1>6, <1>7 DEF Awaits

(* The calls what waited is sent again under. *)
LEMMA AgainCalls ==
    ASSUME Base, NEW t \in Tab, NEW again, Again(t, again)
    PROVE  /\ \A r \in Forms(t) :
                 /\ again[r] \in Call /\ call[again[r]].pc = "idle" /\ call[again[r]].kind = None
                 /\ request'[r].call = again[r]
                 /\ call'[again[r]].kind \in Endpoint \ {"refresh"}
           /\ \A r \in Request \ Forms(t) : request'[r].call = request[r].call
           /\ \A c \in Call : (\A r \in Forms(t) : again[r] # c) =>
                 call'[c] = call[c] /\ sender'[c] = sender[c]
<1>1. ASSUME NEW r \in Forms(t)
      PROVE  again[r] \in Call /\ call[again[r]].pc = "idle" /\ call[again[r]].kind = None
  BY <1>1 DEF Again, Free, Base, CallInv, Fits
<1>2. ASSUME NEW r \in Forms(t)
      PROVE  request'[r].call = again[r]
  <2>1. r \in Request /\ request[r] \in RequestDoc
    BY <1>2 DEF Forms, Waiting, Base, TypeOK, ClientTypeOK
  <2>2. request'[r] = [request[r] EXCEPT !.pc = "sent", !.call = again[r]]
    BY <1>2, <2>1 DEF Again, SendAgain
  <2> QED BY <2>1, <2>2 DEF RequestDoc
<1>3. ASSUME NEW r \in Forms(t)
      PROVE  call'[again[r]].kind \in Endpoint \ {"refresh"}
  <2> DEFINE o == CHOOSE o \in Forms(t) : again[o] = again[r]
  <2>1. o \in Forms(t) /\ again[o] = again[r]
    BY <1>3
  <2>2. call'[again[r]] = Sent(request[o])
    BY <1>1, <1>3, <2>1 DEF Again, SendAgain
  <2> HIDE DEF o
  <2>3. request[o].kind \in Endpoint \ {"refresh"}
    BY <2>1, FormsAreForms
  <2> QED BY <2>2, <2>3 DEF Sent
<1>4. ASSUME NEW r \in Request \ Forms(t)
      PROVE  request'[r].call = request[r].call
  <2>1. request[r] \in RequestDoc
    BY DEF Base, TypeOK, ClientTypeOK
  <2>2. CASE r \in Waiting(t)
    <3>1. request'[r] = [request[r] EXCEPT !.pc = "sent", !.token = promise[t]]
      BY <1>4, <2>2 DEF Again, SendAgain
    <3> QED BY <2>1, <3>1 DEF RequestDoc
  <2>3. CASE r \notin Waiting(t)
    BY <1>4, <2>3 DEF Again, SendAgain
  <2> QED BY <2>2, <2>3
<1>5. ASSUME NEW c \in Call, \A r \in Forms(t) : again[r] # c
      PROVE  call'[c] = call[c] /\ sender'[c] = sender[c]
  BY <1>5 DEF Again, SendAgain
<1> QED BY <1>1, <1>2, <1>3, <1>4, <1>5

(* Forms that are sent again wait for a call each. *)
LEMMA RefreshedAwaits ==
    ASSUME Base, PendInv, NEW t \in Tab, Refreshed(t)
    PROVE  Awaits
<1>1. PICK again : Again(t, again)
  BY RefreshedAgain
<1>2. promise' = [promise EXCEPT ![t] = None]
  BY RefreshedAgain
<1>3. \A u \in Tab : promise'[u] \in {promise[u], None}
  BY <1>2 DEF Base, TypeOK, ClientTypeOK
<1>4. \A u \in Tab : ~AwaitsRefresh(u)
  BY <1>3, KindsKnown DEF AwaitsRefresh
<1>5. \A r \in Forms(t) : AwaitsForm(r) /\ r \in Request
  BY <1>1, AgainCalls, FormsAreForms DEF AwaitsForm
<1>6. \A r \in Request \ Forms(t) : request'[r].call = request[r].call /\ ~AwaitsForm(r)
  BY <1>1, AgainCalls, KindsKnown DEF AwaitsForm
<1>7. ASSUME NEW r \in Request, NEW o \in Request, AwaitsForm(r), request'[r].call = request'[o].call
      PROVE  r = o
  <2>1. r \in Forms(t)
    BY <1>6, <1>7
  <2>2. AwaitsForm(o)
    BY <1>7 DEF AwaitsForm
  <2>3. o \in Forms(t)
    BY <1>6, <2>2
  <2>4. again[r] = again[o]
    BY <1>1, <1>7, <2>1, <2>3, AgainCalls
  <2> QED BY <1>1, <2>1, <2>3, <2>4 DEF Again, SendAgain
<1> QED BY <1>3, <1>4, <1>5, <1>6, <1>7 DEF Awaits

(* Every step of the system is such a step. *)
LEMMA StepAwaits ==
    ASSUME Base, PendInv, [Next]_vars
    PROVE  Awaits
<1>1. CASE ServerStep \/ UNCHANGED vars
  BY <1>1, AwaitsDropped DEF ServerStep, vars, clientVars
<1>2. CASE ~(ServerStep \/ UNCHANGED vars)
  BY <1>2, QuietAwaits, SubmitAwaits, RefreshAwaits, RefreshedAwaits
     DEF Next, ScreenStep, RequestStep, RefreshStep, RefreshRefused, RefreshTimedOut,
         Answered, AuthAnswered, NoAnswer, Quiet
<1> QED BY <1>1, <1>2

-----------------------------------------------------------------------------
(* What is stored. *)

All == Base /\ PageInv /\ PendInv /\ StoreInv /\ PresInv

(* The stored tokens are the ones that were stored, or go. *)
StoredLess ==
    /\ local'.pair \in {local.pair, None}
    /\ \A t \in Tab : own'[t].pair \in {own[t].pair, None}

(* A refresh was one before, and was sent by the same page. *)
NoneNew == \A d \in Call : call'[d].kind = "refresh" => call[d].kind = "refresh" /\ sender'[d] = sender[d]

(* A page that stops a refresh no longer finds a token that it presented. *)
Forgotten ==
    \A t \in Tab, d \in Call :
        call[d].kind = "refresh" /\ call[d].token \in {local'.pair, own'[t].pair}
        => call[d].token \in {local.pair, own[t].pair} /\ promise'[t] = promise[t]

(* Types, in the form the steps below use them. *)
LEMMA Facts ==
    ASSUME Base
    PROVE  /\ None \notin Call /\ None \notin Endpoint
           /\ \A d \in Call : call[d].kind = "refresh" => call[d].token \in Call /\ call[d].kind # None
           /\ local \in Place /\ own \in [Tab -> Place] /\ promise \in [Tab -> Call \cup {None}]
           /\ page \in [Tab -> 0 .. MaxLoads] /\ loads \in 0 .. MaxLoads /\ MaxLoads \in Nat
           /\ local.pair \in Call \cup {None} /\ \A t \in Tab : own[t].pair \in Call \cup {None}
BY AuthAssumption, BrowserAssumption DEF Base, TypeOK, ClientTypeOK, CallInv, Fits, Place, Endpoint

(* A step that stores nothing but settled tokens keeps the stored ones     *)
(* settled.                                                                *)
LEMMA StoreKept ==
    ASSUME All, NoneNew, \A c \in Call : Steady(c),
           \A s \in Call : Settled(s) => Settles(s),
           local'.pair \in {local.pair, None} \/ (local'.pair \in Call /\ Settles(local'.pair)),
           \A t \in Tab : \/ own'[t].pair \in {own[t].pair, None}
                          \/ own'[t].pair \in Call /\ Settles(own'[t].pair)
    PROVE  StoreInv'
<1>1. ASSUME NEW s \in Call \cup {None}, s # None => Settled(s), s # None
      PROVE  Settles(s)
  BY <1>1
<1>2. local'.pair # None => Settles(local'.pair)
  BY <1>1, Facts DEF All, StoreInv
<1>3. \A t \in Tab : own'[t].pair # None => Settles(own'[t].pair)
  BY <1>1, Facts DEF All, StoreInv
<1>4. ASSUME NEW d \in Call, call'[d].kind = "refresh"
      PROVE  Settles(call'[d].token)
  <2>1. call[d].kind = "refresh" /\ call'[d].token = call[d].token /\ call[d].token \in Call
    BY <1>4, Facts DEF All, NoneNew, Steady
  <2> QED BY <2>1 DEF All, StoreInv
<1> QED BY <1>2, <1>3, <1>4 DEF StoreInv, Settled, Settles

(* A step that starts no refresh, and forgets what it stops, keeps a       *)
(* token presented once.                                                   *)
LEMMA PresKept ==
    ASSUME All, NoneNew, \A c \in Call : Steady(c), Forgotten, page' = page
    PROVE  PresInv'
<1>1. ASSUME NEW d \in Call, call'[d].kind = "refresh"
      PROVE  call[d].kind = "refresh" /\ call'[d].token = call[d].token /\ sender'[d] = sender[d]
  BY <1>1, Facts DEF All, NoneNew, Steady
<1>2. ASSUME NEW t \in Tab, NEW d \in Call, call'[d].kind = "refresh", page'[t] > 0,
             sender'[d] = page'[t], call'[d].token \in {local'.pair, own'[t].pair}
      PROVE  promise'[t] = d
  <2>1. call[d].kind = "refresh" /\ call[d].token \in {local'.pair, own'[t].pair}
        /\ page[t] > 0 /\ sender[d] = page[t]
    BY <1>1, <1>2
  <2>2. call[d].token \in {local.pair, own[t].pair} /\ promise'[t] = promise[t]
    BY <2>1 DEF Forgotten
  <2> QED BY <2>1, <2>2 DEF All, PresInv
<1>3. PresentedOnce'
  BY <1>1 DEF All, PresInv, PresentedOnce
<1> QED BY <1>2, <1>3 DEF PresInv

(* Nothing is stored, and no refresh stops with its token still stored. *)
LEMMA LessForgets ==
    ASSUME All, StoredLess,
           \A t \in Tab : promise'[t] = promise[t] \/ (local'.pair = None /\ own'[t].pair = None)
    PROVE  Forgotten
BY Facts DEF All, StoredLess, Forgotten

(* Clearing the storage leaves less stored. *)
LEMMA ClearLess ==
    ASSUME Base, NEW t \in Tab, Clear(t)
    PROVE  StoredLess /\ local'.pair = None /\ own'[t].pair = None
BY Facts DEF Clear, StoredLess, Nothing

(* Every step keeps what is stored settled, and presented once. *)
LEMMA StoreStep ==
    ASSUME All, [Next]_vars
    PROVE  StoreInv' /\ PresInv'
<1>1. (\A c \in Call : Steady(c)) /\ \A s \in Call : Settled(s) => Settles(s)
  BY CallsSteady, StepAwaits, AwaitsKeeps DEF All
<1>2. Base /\ PageInv /\ PendInv /\ StoreInv /\ PresInv
  BY DEF All
<1>3. ASSUME NoneNew, StoredLess PROVE StoreInv'
  BY <1>1, <1>3, StoreKept DEF StoredLess
<1>4. ASSUME NoneNew, StoredLess, page' = page,
             \A t \in Tab : promise'[t] = promise[t] \/ (local'.pair = None /\ own'[t].pair = None)
      PROVE  StoreInv' /\ PresInv'
  BY <1>1, <1>3, <1>4, LessForgets, PresKept
<1>6. UNCHANGED <<local, own>> => StoredLess
  BY DEF StoredLess
<1>7. CASE ServerStep
  <2>1. NoneNew
    <3>1. ASSUME NEW c \in Call, HandlerStep(c) PROVE \A d \in Call : call'[d].kind = call[d].kind
      BY <1>2, <3>1, HandlerMoves DEF Moved
    <3> QED BY <1>2, <1>7, <3>1, AsideKeeps DEF ServerStep, AuthNext, clientVars, NoneNew
  <2> QED BY <1>4, <1>6, <1>7, <2>1 DEF ServerStep, clientVars
<1>8. CASE UNCHANGED vars
  BY <1>4, <1>6, <1>8 DEF vars, authVars, clientVars, NoneNew
<1>9. ASSUME NEW t \in Tab, LoadPage(t) PROVE StoreInv' /\ PresInv'
  <2>1. call' = call /\ sender' = sender /\ local' = local /\ own' = own
        /\ page'[t] = loads + 1 /\ promise'[t] = None
        /\ \A u \in Tab \ {t} : page'[u] = page[u] /\ promise'[u] = promise[u]
    BY <1>2, <1>9, Facts DEF LoadPage, authVars
  <2>2. StoreInv'
    BY <1>3, <1>6, <2>1 DEF NoneNew
  <2>3. \A d \in Call : sender'[d] # page'[t]
    <3>1. \A d \in Call : sender[d] \in 0 .. MaxLoads /\ sender[d] \leq loads
      BY <1>2 DEF PageInv, Base, TypeOK, ClientTypeOK
    <3> QED BY <1>2, <2>1, <3>1, Facts
  <2>4. ASSUME NEW u \in Tab, NEW d \in Call, call'[d].kind = "refresh", page'[u] > 0,
               sender'[d] = page'[u], call'[d].token \in {local'.pair, own'[u].pair}
        PROVE  promise'[u] = d
    BY <1>2, <2>1, <2>3, <2>4 DEF PresInv
  <2>5. PresentedOnce'
    BY <1>2, <2>1 DEF PresInv, PresentedOnce
  <2> QED BY <2>2, <2>4, <2>5 DEF PresInv
<1>10. ASSUME NEW t \in Tab, NEW r \in Request, StartRequest(t, r) PROVE StoreInv' /\ PresInv'
  BY <1>4, <1>6, <1>10 DEF StartRequest, authVars, NoneNew
<1>11. ASSUME NEW t \in Tab, SignOut(t) PROVE StoreInv' /\ PresInv'
  <2>1. StoredLess
    BY <1>2, <1>11, ClearLess DEF SignOut, SignedOut
  <2> QED BY <1>4, <1>11, <2>1 DEF SignOut, authVars, NoneNew
<1>12. ASSUME NEW r \in Request, EndRequest(r) \/ JoinRefresh(r) PROVE StoreInv' /\ PresInv'
  BY <1>4, <1>6, <1>12 DEF EndRequest, JoinRefresh, authVars, NoneNew
<1>13. ASSUME NEW r \in Request, Expelled(r) PROVE StoreInv' /\ PresInv'
  <2>1. request[r].tab \in Tab
    BY <1>2, <1>13 DEF Expelled, Unauthorized, Base, RequestInv, RequestFits
  <2>2. StoredLess
    BY <1>2, <1>13, <2>1, ClearLess DEF Expelled, SignedOut
  <2> QED BY <1>4, <1>13, <2>2 DEF Expelled, authVars, NoneNew
<1>14. ASSUME NEW t \in Tab, RefreshFailed(t) PROVE StoreInv' /\ PresInv'
  <2>1. StoredLess /\ local'.pair = None /\ own'[t].pair = None
    BY <1>2, <1>14, ClearLess DEF RefreshFailed, SignedOut
  <2>2. \A u \in Tab : promise'[u] = promise[u] \/ u = t
    BY <1>2, <1>14, Facts DEF RefreshFailed
  <2> QED BY <1>4, <1>14, <2>1, <2>2 DEF RefreshFailed, authVars, NoneNew
(* The tokens that arrive were stored nowhere, so nobody presented them. *)
<1>15. ASSUME NEW t \in Tab, NEW s \in Call, Settles(s), NoneNew, page' = page,
              \A d \in Call : call[d].kind = "refresh" => call[d].token # s,
              local'.pair \in {s, None}, own'[t].pair \in {s, None},
              \A u \in Tab \ {t} : own'[u] = own[u] /\ promise'[u] = promise[u]
       PROVE  StoreInv' /\ PresInv'
  <2>1. StoreInv'
    BY <1>1, <1>15, StoreKept
  <2>2. Forgotten
    <3> SUFFICES ASSUME NEW u \in Tab, NEW d \in Call, call[d].kind = "refresh",
                        call[d].token \in {local'.pair, own'[u].pair}
                 PROVE  call[d].token \in {local.pair, own[u].pair} /\ promise'[u] = promise[u]
      BY DEF Forgotten
    <3>1. call[d].token \notin {s, None}
      BY <1>2, <1>15, Facts
    <3>2. u # t
      BY <1>15, <3>1
    <3> QED BY <1>15, <3>1, <3>2
  <2> QED BY <1>1, <1>15, <2>1, <2>2, PresKept
<1>16. ASSUME NEW r \in Request, SignedIn(r) PROVE StoreInv' /\ PresInv'
  <2> DEFINE s == request[r].call
  <2>1. request[r].tab \in Tab /\ s \in Call /\ call[s].pc = "granted"
    BY <1>2, <1>16 DEF SignedIn, Base, TypeOK, ClientTypeOK, RequestInv, RequestFits, RequestDoc
  <2>2. call' = call /\ sender' = sender /\ page' = page /\ promise' = promise
        /\ request' = [request EXCEPT ![r] = NoRequest]
    BY <1>16 DEF SignedIn, authVars, Finish
  <2>3. /\ local'.pair \in {s, None} /\ own'[request[r].tab].pair \in {s, None}
        /\ \A u \in Tab \ {request[r].tab} : own'[u] = own[u]
    BY <1>2, <1>16, <2>1, Facts DEF SignedIn, SetSession, Nothing
  <2>4. \A d \in Call : call[d].kind = "refresh" => call[d].token # s
    BY <1>2 DEF StoreInv, Settled
  <2>5. Settles(s)
    <3>1. \A o \in Request : request'[o].call # s
      <4> NoRequest.call = None
        BY DEF NoRequest
      <4>1. request'[r].call = None /\ \A o \in Request \ {r} : request'[o] = request[o]
        BY <1>2, <2>2, OneCall
      <4> QED BY <1>2, <2>1, <4>1, Facts DEF PendInv
    <3>2. \A u \in Tab : promise'[u] # s
      BY <1>2, <2>1, <2>2, Facts DEF PendInv
    <3> QED BY <2>1, <2>2, <3>1, <3>2 DEF Settles
  <2>6. NoneNew
    BY <2>2 DEF NoneNew
  <2> HIDE DEF s
  <2> QED BY <1>15, <2>1, <2>2, <2>3, <2>4, <2>5, <2>6
<1>17. ASSUME NEW t \in Tab, Refreshed(t) PROVE StoreInv' /\ PresInv'
  <2> DEFINE s == promise[t]
  <2>1. PICK again : Again(t, again)
    BY <1>17, RefreshedAgain
  <2>2. s \in Call /\ call[s].pc = "granted" /\ call[s].kind = "refresh"
    BY <1>2, <1>17, RefreshedAgain, Facts DEF PendInv
  <2>3. SetTokens(t, s, local.pair # None) /\ promise' = [promise EXCEPT ![t] = None] /\ page' = page
    BY <1>17, RefreshedAgain
  <2>4. /\ local'.pair \in {s, None} /\ own'[t].pair \in {s, None}
        /\ \A u \in Tab \ {t} : own'[u] = own[u]
    BY <1>2, <2>3, Facts DEF SetTokens, Place
  <2>5. promise'[t] = None /\ \A u \in Tab \ {t} : promise'[u] = promise[u]
    BY <1>2, <2>3, Facts
  <2>6. \A d \in Call : call[d].kind = "refresh" => call[d].token # s
    BY <1>2 DEF StoreInv, Settled
  <2>7. NoneNew
    <3> SUFFICES ASSUME NEW d \in Call, call'[d].kind = "refresh"
                 PROVE  call[d].kind = "refresh" /\ sender'[d] = sender[d]
      BY DEF NoneNew
    <3>1. \A r \in Forms(t) : again[r] # d
      BY <1>2, <2>1, AgainCalls
    <3> QED BY <1>2, <2>1, <3>1, AgainCalls
  <2>8. Settles(s)
    <3>1. call'[s].pc = "granted"
      BY <1>1, <2>2 DEF Steady
    <3>2. \A r \in Forms(t) : again[r] # s
      BY <1>2, <2>1, <2>2, AgainCalls
    <3>3. \A r \in Request : request[r].call # s
      BY <1>2, <2>2, Facts DEF PendInv
    <3>4. \A r \in Request : request'[r].call # s
      BY <1>2, <2>1, <3>2, <3>3, AgainCalls
    <3>5. \A u \in Tab : promise'[u] # s
      BY <1>2, <2>2, <2>5, Facts DEF PendInv
    <3> QED BY <3>1, <3>4, <3>5 DEF Settles
  <2> HIDE DEF s
  <2> QED BY <1>15, <2>2, <2>3, <2>4, <2>5, <2>6, <2>7, <2>8
<1>18. ASSUME NEW t \in Tab, NEW r \in Request, NEW f \in Form, NEW c \in Free, Submit(t, r, f, c)
       PROVE  StoreInv' /\ PresInv'
  <2>1. c \in Call /\ call'[c].kind # "refresh"
        /\ \A d \in Call \ {c} : call'[d] = call[d] /\ sender'[d] = sender[d]
    BY <1>2, <1>18, FormFits DEF Submit, Free, Sent, Base, TypeOK, AuthTypeOK, ClientTypeOK
  <2>2. NoneNew
    BY <2>1 DEF NoneNew
  <2> QED BY <1>4, <1>6, <1>18, <2>2 DEF Submit
<1>19. ASSUME NEW r \in Request, NEW c \in Free, Refresh(r, c) PROVE StoreInv' /\ PresInv'
  <2> DEFINE t == request[r].tab
             k == StoredPair(request[r].tab)
  <2>1. c \in Call /\ call[c].kind = None /\ request[r].pc = "sent" /\ t \in Tab /\ page[t] > 0
        /\ k # None /\ promise[t] = None
    BY <1>2, <1>19 DEF Free, Refresh, Unauthorized, Base, CallInv, Fits, RequestInv, RequestFits, PageInv
  <2>2. k \in {local.pair, own[t].pair} /\ k \in Call /\ Settled(k)
    BY <1>2, <2>1, Facts DEF StoredPair, StoreInv
  <2>3. /\ call'[c].kind = "refresh" /\ call'[c].token = k
        /\ \A d \in Call \ {c} : call'[d] = call[d] /\ sender'[d] = sender[d]
        /\ sender'[c] = page[t] /\ promise'[t] = c
        /\ \A u \in Tab \ {t} : promise'[u] = promise[u]
    BY <1>2, <1>19, <2>1, Facts DEF Refresh, RefreshCall, Base, TypeOK, AuthTypeOK, ClientTypeOK
  <2>4. UNCHANGED <<local, own, page>>
    BY <1>19 DEF Refresh
  <2> HIDE DEF t, k
  <2>5. \A d \in Call \ {c} : call'[d].kind = "refresh" => call[d].token \in Call
    BY <1>2, <2>3, Facts
  <2>6. StoreInv'
    <3>1. local'.pair # None => Settles(local'.pair)
      BY <1>1, <1>2, <2>4, Facts DEF StoreInv
    <3>2. \A u \in Tab : own'[u].pair # None => Settles(own'[u].pair)
      BY <1>1, <1>2, <2>4, Facts DEF StoreInv
    <3>3. ASSUME NEW d \in Call, call'[d].kind = "refresh" PROVE Settles(call'[d].token)
      BY <1>1, <1>2, <2>2, <2>3, <2>5, <3>3 DEF StoreInv
    <3> QED BY <3>1, <3>2, <3>3 DEF StoreInv, Settled, Settles
  (* The page had no refresh under way, so it never presented this token. *)
  <2>7. ASSUME NEW d \in Call \ {c}, call'[d].kind = "refresh", sender'[d] = page[t]
        PROVE  call[d].token \notin {local.pair, own[t].pair}
    <3>1. promise[t] # d
      BY <1>2, <2>1, Facts
    <3> QED BY <1>2, <2>1, <2>3, <2>7, <3>1 DEF PresInv
  <2>8. PresentedOnce'
    <3> SUFFICES ASSUME NEW d \in Call, NEW e \in Call, call'[d].kind = "refresh",
                        call'[e].kind = "refresh", call'[d].token = call'[e].token,
                        sender'[d] = sender'[e]
                 PROVE  d = e
      BY DEF PresentedOnce
    <3>1. CASE d # c /\ e # c
      BY <1>2, <2>3, <3>1 DEF PresInv, PresentedOnce
    <3>2. CASE d = c \/ e = c
      BY <2>2, <2>3, <2>7, <3>2
    <3> QED BY <3>1, <3>2
  <2>9. ASSUME NEW u \in Tab, NEW d \in Call, call'[d].kind = "refresh", page'[u] > 0,
               sender'[d] = page'[u], call'[d].token \in {local'.pair, own'[u].pair}
        PROVE  promise'[u] = d
    <3>1. CASE d = c
      BY <1>2, <2>1, <2>3, <2>4, <2>9, <3>1 DEF PageInv
    <3>2. CASE d # c
      <4>1. u # t
        BY <2>3, <2>4, <2>7, <2>9, <3>2
      <4> QED BY <1>2, <2>3, <2>4, <2>9, <3>2, <4>1 DEF PresInv
    <3> QED BY <3>1, <3>2
  <2> QED BY <2>6, <2>8, <2>9 DEF PresInv
<1> QED BY <1>7, <1>8, <1>9, <1>10, <1>11, <1>12, <1>13, <1>14, <1>16, <1>17, <1>18, <1>19
        DEF Next, ScreenStep, RequestStep, RefreshStep, RefreshRefused, RefreshTimedOut,
            Answered, AuthAnswered, NoAnswer

(* The whole invariant holds at the start. *)
LEMMA AllInit == Init => All
<1> SUFFICES ASSUME Init PROVE All
  OBVIOUS
<1>1. None \notin Endpoint /\ MaxLoads \in Nat
  BY AuthAssumption, BrowserAssumption
<1>2. \A c \in Call : call[c].kind # "refresh"
  BY <1>1 DEF Init, AuthInit, NoCall, Endpoint
<1>3. PageInv
  BY <1>1 DEF Init, ClientInit, PageInv, NoRequest
<1>4. PendInv
  BY DEF Init, ClientInit, PendInv, NoRequest
<1>5. StoreInv
  BY <1>2 DEF Init, ClientInit, StoreInv, Nothing
<1>6. PresInv
  BY <1>2 DEF PresInv, PresentedOnce
<1> QED BY <1>3, <1>4, <1>5, <1>6, InitBase DEF All

(* The whole invariant is kept. *)
LEMMA AllStep ==
    ASSUME All, [Next]_vars
    PROVE  All'
<1>1. PendInv'
  BY CallsSteady, StepAwaits, AwaitsKeeps DEF All
<1> QED BY <1>1, StepBase, PageStep, StoreStep DEF All

(* A page presents a refresh token once, however many requests find their  *)
(* access token expired: apiClient.ts shares refreshPromise, and what was  *)
(* presented is replaced or removed before the promise is dropped.         *)
THEOREM ThmPresentedOnce == Spec => []PresentedOnce
<1>1. All => PresentedOnce
  BY DEF All, PresInv
<1> QED BY <1>1, AllInit, AllStep, PTL DEF Spec
-----------------------------------------------------------------------------
(* Nobody is thrown out.  With one page and no reset, what a page presents *)
(* is presented by nobody else, so that its session is still active when   *)
(* the handler looks; and whoever is signed in has tokens and a company    *)
(* stored.                                                                 *)

Exists(u) == u \in User /\ account[u] # "absent"

Stays(u) == u \in User /\ account'[u] # "absent"

(* Sessions are those of accounts, and so are the ones about to be issued. *)
UserInv ==
    /\ \A c \in Call : call[c].pc = "issue" => Exists(call[c].user)
    /\ \A c \in Call : session[c].status # "absent" => Exists(session[c].user)

(* A refresh was sent by a page, and a session that was rotated was        *)
(* rotated by one.                                                         *)
OriginInv ==
    /\ \A d \in Call : call[d].kind = "refresh" => sender[d] > 0
    /\ \A s \in Call : session[s].status = "rotated" =>
          \E d \in Call : Renewed(d) /\ call[d].token = s

(* One page at most was loaded, and nothing has ended a session. *)
Calm ==
    /\ loads \leq 1
    /\ \A u \in User : account[u] # "disabled"
    /\ \A s \in Call : session[s].status # "revoked"

CalmInv ==
    /\ loads = 0 => local.pair = None /\ \A t \in Tab : own[t].pair = None
    /\ Calm =>
          /\ \A d \in Call : call[d].kind = "refresh" /\ call[d].pc = "unauthorized" => Past("refresh", call[d].token)
          /\ \A t \in Tab : profile[t] # None => StoredPair(t) # None /\ StoredCompany(t)
          /\ \A t \in Tab : profile[t] # None /\ promise[t] # None /\ call[promise[t]].pc = "conflict" =>
                call[promise[t]].token # StoredPair(t)

StayInv == All /\ RotInv /\ WaitersAreServed /\ UserInv /\ OriginInv /\ CalmInv

(* Accounts that exist go on to exist. *)
LEMMA AccountsStay ==
    ASSUME Base, [Next]_vars, NEW u \in User, account[u] # "absent"
    PROVE  account'[u] # "absent" /\ (account[u] = "disabled" => account'[u] = "disabled")
<1>1. account \in [User -> {"absent", "active", "disabled"}]
  BY DEF Base, TypeOK, AuthTypeOK
<1>2. ASSUME NEW c \in Call, HandlerStep(c)
      PROVE  account' = account \/ (\E v \in User : account[v] = "absent" /\ account' = [account EXCEPT ![v] = "active"])
  <2>1. CASE InsertUser(c)
    <3>1. call[c].user \in User
      BY <2>1 DEF InsertUser, Base, CallInv, Fits
    <3> QED BY <2>1, <3>1 DEF InsertUser
  <2>2. CASE ~InsertUser(c)
    BY <1>2, <2>2 DEF HandlerStep, Login, CheckNames, FindSession, Rotate, IssueTokens, FindUser, RetireTokens,
                      OfferToken, Redeem, SetPassword, RevokeSessions
  <2> QED BY <2>1, <2>2
<1>3. CASE ServerStep
  BY <1>1, <1>2, <1>3 DEF ServerStep, AuthNext, Expire, ExpireAccess, ExpireRefresh, ExpireReset, Expires, Disable
<1>4. CASE ClientStep \/ UNCHANGED vars
  BY <1>4, ClientKeeps DEF Kept, Begun, vars, authVars
<1> QED BY <1>3, <1>4 DEF Next, ClientStep

(* Each handler step keeps sessions those of accounts. *)
LEMMA UserHandler ==
    ASSUME Base, RotInv, UserInv, NEW c \in Call, HandlerStep(c),
           \A u \in User : account[u] # "absent" => account'[u] # "absent"
    PROVE  UserInv'
<1>1. /\ Moved(c) /\ Fits(call[c]) /\ call[c] \in CallDoc
      /\ session \in [Call -> SessionDoc] /\ call \in [Call -> CallDoc] /\ account \in [User -> {"absent", "active", "disabled"}]
  BY HandlerMoves DEF Base, CallInv, TypeOK, AuthTypeOK
<1>2. \A u : Exists(u) => Stays(u)
  BY DEF Exists, Stays
<1>3. ASSUME \A s \in Call : session'[s].status # "absent" => Stays(session'[s].user),
             call'[c].pc = "issue" => Stays(call'[c].user)
      PROVE  UserInv'
  BY <1>1, <1>2, <1>3 DEF UserInv, Exists, Stays, Moved
<1>4. ASSUME session' = session
      PROVE  \A s \in Call : session'[s].status # "absent" => Stays(session'[s].user)
  BY <1>2, <1>4 DEF UserInv
<1>5. ASSUME NEW pc, Goto(c, pc)
      PROVE  call'[c].pc = pc /\ call'[c].user = call[c].user
  BY <1>1, <1>5 DEF Goto, CallDoc
<1>6. CASE Login(c)
  <2>1. call[c].user \in User
    BY <1>1, <1>6 DEF Login, Arrived, Fits
  <2> QED BY <1>3, <1>4, <1>5, <1>6, <2>1 DEF Login, Stays
<1>7. CASE InsertUser(c)
  <2>1. call[c].user \in User
    BY <1>1, <1>7 DEF InsertUser, Fits
  <2>2. call'[c].pc = "issue" => account'[call[c].user] = "active" /\ call'[c].user = call[c].user
    BY <1>1, <1>5, <1>7, <2>1 DEF InsertUser
  <2> QED BY <1>3, <1>4, <1>7, <2>1, <2>2 DEF InsertUser, Stays
<1>8. CASE Rotate(c)
  <2> DEFINE s == call[c].token
  <2>1. s \in Call /\ Renewing(c)
    BY <1>1, <1>8 DEF Rotate, Fits, Renewing
  <2>2. Exists(call[c].user)
    BY <2>1 DEF RotInv, UserInv
  <2>3. session' = session \/ (session[s].status = "active" /\ session' = [session EXCEPT ![s].status = "rotated"])
    BY <1>8 DEF Rotate
  <2>4. \A k \in Call : session'[k].status # "absent" => Stays(session'[k].user)
    BY <1>1, <1>2, <2>1, <2>3 DEF UserInv, SessionDoc
  <2>5. call'[c].user = call[c].user
    BY <1>5, <1>8 DEF Rotate
  <2> QED BY <1>2, <1>3, <2>2, <2>4, <2>5
<1>9. CASE IssueTokens(c)
  <2>1. /\ session' = [session EXCEPT ![c] = [status |-> "active", user |-> call[c].user, from |-> call[c].token]]
        /\ Exists(call[c].user) /\ call'[c].pc = "granted"
    BY <1>5, <1>9 DEF IssueTokens, UserInv
  <2> QED BY <1>1, <1>2, <1>3, <2>1 DEF UserInv
<1>10. CASE RevokeSessions(c)
  <2>1. \A s \in Call : session'[s].user = session[s].user /\ (session'[s].status # "absent" => session[s].status # "absent")
    BY <1>1, <1>10 DEF RevokeSessions, SessionDoc
  <2>2. call'[c].pc = "done"
    BY <1>5, <1>10 DEF RevokeSessions
  <2> QED BY <1>2, <1>3, <2>1, <2>2 DEF UserInv
<1>11. CASE FindSession(c) \/ Redeem(c)
  <2>1. \A u : Serve(c, "rotate", u) \/ Serve(c, "password", u) => call'[c].pc # "issue"
    BY <1>1 DEF Serve, CallDoc
  <2>2. session' = session /\ call'[c].pc # "issue"
    BY <1>5, <1>11, <2>1 DEF FindSession, Redeem
  <2> QED BY <1>3, <1>4, <2>2
<1>12. CASE CheckNames(c) \/ FindUser(c) \/ RetireTokens(c) \/ OfferToken(c) \/ SetPassword(c)
  <2>1. session' = session /\ call'[c].pc # "issue"
    BY <1>1, <1>5, <1>12 DEF CheckNames, FindUser, RetireTokens, OfferToken, SetPassword
  <2> QED BY <1>3, <1>4, <2>1
<1> QED BY <1>6, <1>7, <1>8, <1>9, <1>10, <1>11, <1>12 DEF HandlerStep

(* Every step does. *)
LEMMA UserStep ==
    ASSUME Base, RotInv, UserInv, [Next]_vars
    PROVE  UserInv'
<1>1. \A u \in User : account[u] # "absent" => account'[u] # "absent"
  BY AccountsStay
<1>2. ASSUME session' = session, \A c \in Call : call'[c] = call[c] \/ call'[c].pc # "issue" PROVE UserInv'
  BY <1>1, <1>2 DEF UserInv, Exists
<1>3. CASE ServerStep
  BY <1>1, <1>2, <1>3, UserHandler DEF ServerStep, AuthNext, Expire, ExpireAccess, ExpireRefresh, ExpireReset, Expires, Disable
<1>4. CASE ClientStep
  <2>1. Begun
    BY <1>4, ClientKeeps DEF Kept
  <2> QED BY <1>2, <2>1 DEF Begun, Opened
<1>5. CASE UNCHANGED vars
  BY <1>2, <1>5 DEF vars, authVars
<1> QED BY <1>3, <1>4, <1>5 DEF Next, ClientStep

(* A refresh under way stays as it is, but for its handler.                *)
LEMMA RefreshFate ==
    ASSUME Base, [Next]_vars, NEW d \in Call, call[d].kind = "refresh"
    PROVE  call'[d] = call[d] \/ FindSession(d) \/ Rotate(d) \/ IssueTokens(d)
<1>1. call[d].pc # "idle"
  BY AuthAssumption DEF Base, CallInv, Fits, Endpoint
<1>2. ASSUME NEW c \in Call, HandlerStep(c)
      PROVE  call'[d] = call[d] \/ FindSession(d) \/ Rotate(d) \/ IssueTokens(d)
  <2>1. CASE c # d
    BY <1>2, <2>1, HandlerMoves DEF Moved
  <2>2. CASE c = d
    BY <1>2, <2>2 DEF HandlerStep, Login, CheckNames, InsertUser, FindUser, RetireTokens, OfferToken, Redeem,
                      SetPassword, RevokeSessions, Arrived, Base, CallInv, Fits
  <2> QED BY <2>1, <2>2
<1>3. CASE ServerStep
  BY <1>2, <1>3, AsideKeeps DEF ServerStep, AuthNext
<1>4. CASE ClientStep
  BY <1>1, <1>4, ClientKeeps DEF Kept, Begun
<1>5. CASE UNCHANGED vars
  BY <1>5 DEF vars, authVars
<1> QED BY <1>3, <1>4, <1>5 DEF Next, ClientStep

(* A refresh was one before, or begins. *)
LEMMA RefreshSource ==
    ASSUME Base, [Next]_vars, NEW d \in Call, call'[d].kind = "refresh"
    PROVE  \/ call[d].kind = "refresh" /\ sender'[d] = sender[d]
           \/ d \in Free /\ \E r \in Request : Refresh(r, d)
<1>1. ASSUME UNCHANGED <<call, sender>> PROVE call[d].kind = "refresh" /\ sender'[d] = sender[d]
  BY <1>1
<1>2. CASE ServerStep
  <2>1. ASSUME NEW c \in Call, HandlerStep(c) PROVE call'[d].kind = call[d].kind
    BY <2>1, HandlerMoves DEF Moved
  <2>2. call'[d].kind = call[d].kind
    BY <1>2, <2>1, AsideKeeps DEF ServerStep, AuthNext
  <2> QED BY <1>2, <2>2 DEF ServerStep, clientVars
<1>3. CASE Quiet
  BY <1>1, <1>3 DEF Quiet, LoadPage, SignOut, RefreshFailed, StartRequest, EndRequest, SignedIn, Expelled,
                    JoinRefresh, authVars
<1>4. ASSUME NEW t \in Tab, NEW r \in Request, NEW f \in Form, NEW c \in Free, Submit(t, r, f, c)
      PROVE  call[d].kind = "refresh" /\ sender'[d] = sender[d]
  <2>1. c \in Call /\ call'[c].kind # "refresh"
        /\ \A e \in Call \ {c} : call'[e] = call[e] /\ sender'[e] = sender[e]
    BY <1>4, FormFits DEF Submit, Free, Sent, Base, TypeOK, AuthTypeOK, ClientTypeOK
  <2> QED BY <2>1
<1>5. ASSUME NEW t \in Tab, Refreshed(t)
      PROVE  call[d].kind = "refresh" /\ sender'[d] = sender[d]
  <2>1. PICK again : Again(t, again)
    BY <1>5, RefreshedAgain
  <2>2. \A r \in Forms(t) : again[r] # d
    BY <2>1, AgainCalls
  <2> QED BY <2>1, <2>2, AgainCalls
<1>6. ASSUME NEW r \in Request, NEW c \in Free, Refresh(r, c)
      PROVE  \/ call[d].kind = "refresh" /\ sender'[d] = sender[d]
             \/ d \in Free /\ Refresh(r, d)
  <2>1. c = d \/ (call'[d] = call[d] /\ sender'[d] = sender[d])
    BY <1>6 DEF Refresh, Base, TypeOK, AuthTypeOK, ClientTypeOK
  <2> QED BY <1>6, <2>1
<1>7. CASE UNCHANGED vars
  BY <1>1, <1>7 DEF vars, authVars, clientVars
<1> QED BY <1>2, <1>3, <1>4, <1>5, <1>6, <1>7
        DEF Next, ScreenStep, RequestStep, RefreshStep, RefreshRefused, RefreshTimedOut,
            Answered, AuthAnswered, NoAnswer, Quiet

(* A session becomes rotated by the step of that name, and one that was    *)
(* revoked stays so.                                                       *)
LEMMA SessionFate ==
    ASSUME Base, RotInv, [Next]_vars, NEW s \in Call
    PROVE  /\ session[s].status = "revoked" => session'[s].status = "revoked"
           /\ session'[s].status = "rotated" /\ session[s].status # "rotated" =>
                 \E c \in Call : call[c].kind = "refresh" /\ call[c].token = s
                                 /\ call'[c].kind = "refresh" /\ call'[c].token = s /\ call'[c].pc = "issue"
<1>1. session \in [Call -> SessionDoc] /\ call \in [Call -> CallDoc]
  BY DEF Base, TypeOK, AuthTypeOK
<1>2. ASSUME NEW c \in Call, Rotate(c), session' # session
      PROVE  /\ session[s].status = "revoked" => session'[s].status = "revoked"
             /\ session'[s].status = "rotated" /\ session[s].status # "rotated" =>
                   /\ call[c].kind = "refresh" /\ call[c].token = s
                   /\ call'[c].kind = "refresh" /\ call'[c].token = s /\ call'[c].pc = "issue"
  <2>1. /\ session[call[c].token].status = "active"
        /\ session' = [session EXCEPT ![call[c].token].status = "rotated"] /\ Goto(c, "issue")
        /\ call[c].kind = "refresh"
    BY <1>2 DEF Rotate, Base, CallInv, Fits
  <2>2. call'[c].kind = call[c].kind /\ call'[c].token = call[c].token /\ call'[c].pc = "issue"
    BY <1>1, <2>1 DEF Goto, CallDoc
  <2>3. s # call[c].token => session'[s] = session[s]
    BY <1>1, <2>1
  <2> QED BY <2>1, <2>2, <2>3
<1>3. ASSUME NEW c \in Call, IssueTokens(c)
      PROVE  /\ session[s].status = "revoked" => session'[s].status = "revoked"
             /\ session'[s].status = "rotated" => session[s].status = "rotated"
  <2>1. session[c].status = "absent"
    BY <1>3 DEF IssueTokens, RotInv, NoSession
  <2>2. session'[c].status = "active" /\ (s # c => session'[s] = session[s])
    BY <1>1, <1>3 DEF IssueTokens
  <2> QED BY <2>1, <2>2
<1>4. ASSUME NEW c \in Call, RevokeSessions(c)
      PROVE  /\ session[s].status = "revoked" => session'[s].status = "revoked"
             /\ session'[s].status = "rotated" => session[s].status = "rotated"
  BY <1>1, <1>4 DEF RevokeSessions, SessionDoc
<1>5. CASE ServerStep
  <2>1. ASSUME NEW c \in Call, HandlerStep(c)
        PROVE  session' = session \/ Rotate(c) \/ IssueTokens(c) \/ RevokeSessions(c)
    BY <2>1 DEF HandlerStep, Login, CheckNames, InsertUser, FindSession, FindUser, RetireTokens, OfferToken,
                Redeem, SetPassword
  <2>2. session' = session \/ \E c \in Call : Rotate(c) \/ IssueTokens(c) \/ RevokeSessions(c)
    BY <1>5, <2>1, AsideKeeps DEF ServerStep, AuthNext
  <2>3. CASE session' = session
    BY <2>3
  <2>4. CASE session' # session
    BY <1>2, <1>3, <1>4, <2>2, <2>4
  <2> QED BY <2>3, <2>4
<1>6. CASE ClientStep \/ UNCHANGED vars
  <2>1. session' = session
    BY <1>6, ClientKeeps DEF Kept, Begun, vars, authVars
  <2> QED BY <2>1
<1> QED BY <1>5, <1>6 DEF Next, ClientStep

(* Every step keeps where refreshes and rotated sessions come from. *)
LEMMA OriginStep ==
    ASSUME All, RotInv, OriginInv, [Next]_vars
    PROVE  OriginInv'
<1>a. Base /\ PageInv /\ call \in [Call -> CallDoc] /\ sender \in [Call -> 0 .. MaxLoads] /\ page \in [Tab -> 0 .. MaxLoads]
  BY DEF All, Base, TypeOK, AuthTypeOK, ClientTypeOK
<1>1. ASSUME NEW d \in Call, call'[d].kind = "refresh"
      PROVE  sender'[d] > 0
  <2>1. CASE call[d].kind = "refresh" /\ sender'[d] = sender[d]
    BY <2>1 DEF OriginInv
  <2>2. ASSUME NEW r \in Request, Refresh(r, d) PROVE sender'[d] > 0
    <3>1. request[r].tab \in Tab /\ page[request[r].tab] > 0
      BY <1>a, <2>2 DEF Refresh, Unauthorized, PageInv, Base, RequestInv, RequestFits
    <3> QED BY <1>a, <2>2, <3>1 DEF Refresh
  <2> QED BY <1>a, <1>1, <2>1, <2>2, RefreshSource
<1>2. ASSUME NEW s \in Call, session'[s].status = "rotated"
      PROVE  \E d \in Call : Renewed(d)' /\ call'[d].token = s
  <2>1. CASE session[s].status = "rotated"
    <3>1. PICK d \in Call : Renewed(d) /\ call[d].token = s
      BY <2>1 DEF OriginInv
    <3>2. call'[d] = call[d] \/ IssueTokens(d)
      BY <1>a, <3>1, RefreshFate DEF Renewed, FindSession, Arrived, Rotate
    <3>3. CASE IssueTokens(d)
      BY <1>a, <3>1, <3>3 DEF IssueTokens, Goto, CallDoc, Renewed
    <3> QED BY <3>1, <3>2, <3>3 DEF Renewed
  <2>2. CASE session[s].status # "rotated"
    BY <1>2, <1>a, <2>2, SessionFate DEF Renewed
  <2> QED BY <2>1, <2>2
<1> QED BY <1>1, <1>2 DEF OriginInv

(* What is stored and who is signed in changes on a page that was loaded.  *)
LEMMA LoadedPage ==
    ASSUME Base, PageInv, WaitersAreServed, NEW t \in Tab,
           profile[t] # None \/ promise[t] # None
           \/ \E r \in Request : request[r].pc # "idle" /\ request[r].tab = t
    PROVE  page[t] > 0
BY DEF PageInv, WaitersAreServed, Waiting

(* With one page at most, nobody is signed in elsewhere. *)
LEMMA OnePage ==
    ASSUME Base, PageInv, loads \leq 1, NEW t \in Tab, page[t] > 0, NEW u \in Tab \ {t}
    PROVE  profile[u] = None
<1>1. page \in [Tab -> 0 .. MaxLoads] /\ loads \in 0 .. MaxLoads /\ MaxLoads \in Nat
  BY BrowserAssumption DEF Base, TypeOK, ClientTypeOK
<1>2. page[t] = 1 /\ page[u] \in {0, 1}
  BY <1>1 DEF PageInv
<1>3. page[u] = 0
  BY <1>2 DEF PageInv
<1> QED BY <1>3 DEF PageInv

(* With one page, a session whose token is presented is active until the   *)
(* call that presents it takes it out of use.                              *)
LEMMA Unspent ==
    ASSUME StayInv, Calm, NEW d \in Call, call[d].kind = "refresh", call[d].pc \in {"sent", "rotate"}
    PROVE  /\ call[d].token \in Call /\ session[call[d].token].status = "active"
           /\ account[session[call[d].token].user] = "active"
<1> DEFINE s == call[d].token
<1>1. /\ Base /\ s \in Call /\ session \in [Call -> SessionDoc] /\ account \in [User -> {"absent", "active", "disabled"}]
      /\ sender \in [Call -> 0 .. MaxLoads] /\ MaxLoads \in Nat /\ loads \in Nat
  BY BrowserAssumption DEF StayInv, All, Base, CallInv, Fits, TypeOK, AuthTypeOK, ClientTypeOK
<1>2. session[s].status # "absent"
  BY <1>1 DEF StayInv, All, StoreInv, Settled, RotInv
<1>3. session[s].status # "rotated"
  <2> SUFFICES ASSUME session[s].status = "rotated" PROVE FALSE
    OBVIOUS
  <2>1. PICK e \in Call : Renewed(e) /\ call[e].token = s
    BY <1>1 DEF StayInv, OriginInv
  <2>2. \A c \in Call : call[c].kind = "refresh" => sender[c] = 1
    <3> SUFFICES ASSUME NEW c \in Call, call[c].kind = "refresh" PROVE sender[c] = 1
      OBVIOUS
    <3>1. sender[c] \in Nat /\ sender[c] \leq loads /\ sender[c] # 0 /\ loads \leq 1
      BY <1>1 DEF StayInv, All, PageInv, OriginInv, Calm
    <3> QED BY <1>1, <3>1
  <2>3. e = d
    BY <2>1, <2>2 DEF StayInv, All, PresInv, PresentedOnce, Renewed
  <2> QED BY <2>1, <2>3 DEF Renewed
<1>4. session[s].status = "active"
  BY <1>1, <1>2, <1>3 DEF SessionDoc, Calm
<1>5. session[s].user \in User /\ account[session[s].user] # "absent"
  BY <1>1, <1>2 DEF StayInv, UserInv, Exists
<1> QED BY <1>1, <1>4, <1>5 DEF Calm

(* What disturbs stays. *)
LEMMA CalmBefore ==
    ASSUME Base, RotInv, [Next]_vars, Calm'
    PROVE  Calm
<1>1. loads \in Nat /\ (loads' = loads \/ loads' = loads + 1)
  <2>1. loads \in Nat
    BY BrowserAssumption DEF Base, TypeOK, ClientTypeOK
  <2>2. loads' = loads \/ loads' = loads + 1
    BY DEF Next, ServerStep, ScreenStep, RequestStep, RefreshStep, LoadPage, SignOut, StartRequest, Submit,
           Answered, AuthAnswered, NoAnswer, EndRequest, SignedIn, Expelled, JoinRefresh, Refresh, Refreshed,
           RefreshRefused, RefreshTimedOut, RefreshFailed, vars, clientVars
  <2> QED BY <2>1, <2>2
<1>2. loads \leq 1
  BY <1>1 DEF Calm
<1>3. \A u \in User : account[u] # "disabled"
  BY AccountsStay DEF Calm
<1>4. \A s \in Call : session[s].status # "revoked"
  BY SessionFate DEF Calm
<1> QED BY <1>2, <1>3, <1>4 DEF Calm

(* Time goes on: what has expired stays so. *)
LEMMA ExpiryStays ==
    ASSUME Base, [Next]_vars
    PROVE  expired \subseteq expired'
<1>1. CASE ServerStep
  <2>1. ASSUME NEW c \in Call, HandlerStep(c) PROVE expired' = expired
    BY <2>1, HandlerMoves
  <2> QED BY <1>1, <2>1 DEF ServerStep, AuthNext, Expire, ExpireAccess, ExpireRefresh, ExpireReset, Expires, Disable
<1>2. CASE ClientStep \/ UNCHANGED vars
  BY <1>2, ClientKeeps DEF Kept, Begun, vars, authVars
<1> QED BY <1>1, <1>2 DEF Next, ClientStep

(* The handler of a refresh refuses it in calm only if its token has       *)
(* expired.                                                                *)
LEMMA RefreshServed ==
    ASSUME StayInv, [Next]_vars, Calm, NEW d \in Call, call'[d].kind = "refresh", call'[d].pc = "unauthorized"
    PROVE  <<"refresh", call'[d].token>> \in expired'
<1>1. Base /\ call \in [Call -> CallDoc]
  BY DEF StayInv, All, Base, TypeOK, AuthTypeOK
<1>2. CASE call[d].kind = "refresh"
  <2>1. CASE call'[d] = call[d]
    <3>1. <<"refresh", call[d].token>> \in expired
      BY <2>1 DEF StayInv, CalmInv, Past
    <3> QED BY <1>1, <2>1, <3>1, ExpiryStays
  <2>2. CASE FindSession(d)
    <3>1. CASE Serve(d, "rotate", session[call[d].token].user)
      BY <1>1, <3>1 DEF Serve, CallDoc
    <3>2. CASE Past("refresh", call[d].token) /\ Goto(d, "unauthorized")
      <4>1. call'[d].token = call[d].token
        BY <1>1, <3>2 DEF Goto, CallDoc
      <4> QED BY <1>1, <3>2, <4>1, ExpiryStays DEF Past
    <3> QED BY <1>2, <2>2, <3>1, <3>2, Unspent DEF FindSession, Arrived
  <2>3. CASE Rotate(d)
    <3>1. Goto(d, "issue")
      BY <1>2, <2>3, Unspent DEF Rotate
    <3> QED BY <1>1, <3>1 DEF Goto, CallDoc
  <2>4. CASE IssueTokens(d)
    BY <1>1, <2>4 DEF IssueTokens, Goto, CallDoc
  <2> QED BY <1>1, <1>2, <2>1, <2>2, <2>3, <2>4, RefreshFate
<1>3. ASSUME NEW r \in Request, Refresh(r, d) PROVE call'[d].pc # "unauthorized"
  BY <1>1, <1>3 DEF Refresh, RefreshCall
<1> QED BY <1>1, <1>2, <1>3, RefreshSource

(* No handler turns a refresh away for want of a company. *)
LEMMA ConflictBefore ==
    ASSUME Base, [Next]_vars, NEW d \in Call, call[d].kind = "refresh", call'[d].pc = "conflict"
    PROVE  call[d].pc = "conflict" /\ call'[d].token = call[d].token
<1>1. call \in [Call -> CallDoc]
  BY DEF Base, TypeOK, AuthTypeOK
<1>2. ~(FindSession(d) \/ Rotate(d) \/ IssueTokens(d))
  BY <1>1 DEF FindSession, Rotate, IssueTokens, Goto, Serve, CallDoc
<1> QED BY <1>2, RefreshFate

(* Before the first page is loaded nothing is stored. *)
LEMMA EmptyStep ==
    ASSUME StayInv, [Next]_vars, loads' = 0
    PROVE  local'.pair = None /\ \A t \in Tab : own'[t].pair = None
<1>1. /\ Base /\ PageInv /\ WaitersAreServed
      /\ page \in [Tab -> 0 .. MaxLoads] /\ loads \in 0 .. MaxLoads /\ MaxLoads \in Nat
  BY BrowserAssumption DEF StayInv, All, Base, TypeOK, ClientTypeOK
<1>2. loads = 0 /\ ~\E t \in Tab : LoadPage(t)
  <2>1. \A t \in Tab : ~LoadPage(t)
    BY <1>1 DEF LoadPage
  <2>2. loads' = loads
    BY <2>1 DEF Next, ServerStep, ScreenStep, RequestStep, RefreshStep, SignOut, StartRequest, Submit,
           Answered, AuthAnswered, NoAnswer, EndRequest, SignedIn, Expelled, JoinRefresh, Refresh, Refreshed,
           RefreshRefused, RefreshTimedOut, RefreshFailed, vars, clientVars
  <2> QED BY <2>1, <2>2
<1>3. \A t \in Tab : page[t] = 0
  BY <1>1, <1>2 DEF PageInv
<1>4. \A t \in Tab : profile[t] = None /\ promise[t] = None
  BY <1>1, <1>3, LoadedPage
<1>5. \A r \in Request : request[r].pc = "idle"
  BY <1>1, <1>3 DEF Base, RequestInv, RequestFits, PageInv
<1>6. UNCHANGED <<local, own>>
  BY <1>2, <1>4, <1>5 DEF Next, ServerStep, ScreenStep, RequestStep, RefreshStep, SignOut, StartRequest, Submit,
           Answered, AuthAnswered, NoAnswer, EndRequest, SignedIn, Expelled, JoinRefresh, Unauthorized, Refresh,
           Refreshed, RefreshRefused, RefreshTimedOut, RefreshFailed, vars, clientVars
<1> QED BY <1>2, <1>6 DEF StayInv, CalmInv

(* What whoever is signed in has, besides a profile. *)
Provided(t) ==
    /\ StoredPair(t) # None /\ StoredCompany(t)
    /\ promise[t] # None /\ call[promise[t]].pc = "conflict" => call[promise[t]].token # StoredPair(t)

(* In calm, whoever is signed in stays provided. *)
LEMMA ProvidedStep ==
    ASSUME StayInv, [Next]_vars, Calm, Calm', NEW t \in Tab, profile'[t] # None
    PROVE  Provided(t)'
<1>1. /\ Base /\ PageInv /\ WaitersAreServed /\ PendInv /\ StoreInv /\ None \notin Call
      /\ page \in [Tab -> 0 .. MaxLoads] /\ loads \in 0 .. MaxLoads /\ MaxLoads \in Nat
      /\ profile \in [Tab -> User \cup {None}] /\ promise \in [Tab -> Call \cup {None}]
      /\ local \in Place /\ own \in [Tab -> Place] /\ loads \leq 1
  BY BrowserAssumption, AuthAssumption DEF StayInv, All, Base, TypeOK, ClientTypeOK, Calm
<1>2. profile[t] # None => Provided(t)
  BY DEF StayInv, CalmInv, Provided
<1>3. \A u \in Tab : page[u] > 0 /\ u # t => profile[t] = None
  BY <1>1, OnePage
<1>4. promise[t] # None => promise[t] \in Call /\ call[promise[t]].kind = "refresh"
  BY <1>1 DEF PendInv
<1>5. promise[t] # None /\ call'[promise[t]].pc = "conflict" =>
          call[promise[t]].pc = "conflict" /\ call'[promise[t]].token = call[promise[t]].token
  BY <1>1, <1>4, ConflictBefore
<1>6. ASSUME UNCHANGED <<local, own, profile, promise>> PROVE Provided(t)'
  BY <1>2, <1>5, <1>6 DEF Provided, StoredPair, StoredCompany
<1>7. ASSUME NEW u \in Tab, LoadPage(u) PROVE FALSE
  <2>1. loads = 0
    BY <1>1, <1>7 DEF LoadPage, Calm
  <2>2. profile[t] = None /\ StoredPair(u) = None
    BY <1>1, <2>1 DEF PageInv, StayInv, CalmInv, StoredPair
  <2> QED BY <1>1, <1>7, <2>2 DEF LoadPage, Parsed
<1>8. ASSUME NEW u \in Tab, SignedOut(u), page[u] > 0 PROVE FALSE
  BY <1>1, <1>3, <1>8 DEF SignedOut
<1>9. CASE ServerStep \/ UNCHANGED vars
  BY <1>6, <1>9 DEF ServerStep, vars, clientVars
<1>10. ASSUME NEW u \in Tab, ScreenStep(u) PROVE Provided(t)'
  <2>1. SignOut(u) => FALSE
    BY <1>1, <1>8, LoadedPage DEF SignOut
  <2> QED BY <1>6, <1>7, <1>10, <2>1 DEF ScreenStep, StartRequest, Submit
<1>11. ASSUME NEW r \in Request, request[r].pc # "idle"
       PROVE  request[r].tab \in Tab /\ page[request[r].tab] > 0
  BY <1>1, <1>11 DEF Base, RequestInv, RequestFits, PageInv
<1>12. ASSUME NEW r \in Request, EndRequest(r) \/ JoinRefresh(r) PROVE Provided(t)'
  BY <1>6, <1>12 DEF EndRequest, JoinRefresh
<1>13. ASSUME NEW r \in Request, Expelled(r) PROVE FALSE
  BY <1>8, <1>11, <1>13 DEF Expelled, Unauthorized
<1>14. ASSUME NEW r \in Request, SignedIn(r) PROVE Provided(t)'
  <2> DEFINE u == request[r].tab
             s == request[r].call
  <2>1. u \in Tab /\ page[u] > 0 /\ s \in Call
    BY <1>11, <1>14 DEF SignedIn, Base, TypeOK, ClientTypeOK, RequestDoc, StayInv, All
  <2>2. SetSession(u, s, request[r].remember) /\ UNCHANGED <<promise, call>>
    BY <1>14 DEF SignedIn, authVars
  <2>3. u = t
    BY <1>1, <1>3, <2>1, <2>2 DEF SetSession
  <2>4. StoredPair(t)' = s /\ StoredCompany(t)' = TRUE
    BY <1>1, <2>1, <2>2, <2>3 DEF SetSession, StoredPair, StoredCompany, Nothing
  <2>5. promise[t] # None => call[promise[t]].token # s
    BY <1>1, <1>4 DEF StoreInv, Settled
  <2> HIDE DEF s, u
  <2> QED BY <1>1, <2>1, <2>2, <2>4, <2>5 DEF Provided
<1>15. ASSUME NEW r \in Request, NEW c \in Free, Refresh(r, c) PROVE Provided(t)'
  <2> DEFINE u == request[r].tab
  <2>1. u \in Tab /\ page[u] > 0 /\ c \in Call
    BY <1>11, <1>15 DEF Refresh, Unauthorized, Free
  <2>2. /\ UNCHANGED <<local, own, profile>> /\ promise' = [promise EXCEPT ![u] = c]
        /\ call' = [call EXCEPT ![c] = RefreshCall(u)]
    BY <1>15 DEF Refresh
  <2>3. u = t /\ Provided(t)
    BY <1>2, <1>3, <2>1, <2>2
  <2>4. promise'[t] = c /\ call'[c].pc = "sent"
    BY <1>1, <2>1, <2>2, <2>3 DEF RefreshCall, Provided, Base, TypeOK, AuthTypeOK
  <2> HIDE DEF u
  <2> QED BY <2>2, <2>3, <2>4 DEF Provided, StoredPair, StoredCompany
<1>16. ASSUME NEW u \in Tab, RefreshFailed(u) PROVE FALSE
  BY <1>1, <1>8, <1>16, LoadedPage DEF RefreshFailed
<1>17. ASSUME NEW u \in Tab, Refreshed(u) PROVE Provided(t)'
  <2>1. /\ promise[u] # None /\ SetTokens(u, promise[u], local.pair # None)
        /\ promise' = [promise EXCEPT ![u] = None] /\ profile' = profile
    BY <1>17, RefreshedAgain
  <2>2. u = t /\ Provided(t)
    BY <1>1, <1>2, <1>3, <2>1, LoadedPage
  <2>3. StoredPair(t)' = promise[t] /\ StoredCompany(t)' = StoredCompany(t)
    BY <1>1, <2>1, <2>2 DEF SetTokens, StoredPair, StoredCompany, Place
  <2> QED BY <1>1, <2>1, <2>2, <2>3 DEF Provided
<1> QED BY <1>9, <1>10, <1>12, <1>13, <1>14, <1>15, <1>16, <1>17
        DEF Next, RequestStep, RefreshStep, RefreshRefused, RefreshTimedOut, Answered, AuthAnswered, NoAnswer

(* The invariant holds at the start. *)
LEMMA InitStayInv == Init => StayInv
<1> SUFFICES ASSUME Init PROVE StayInv
  OBVIOUS
<1>1. Base /\ All
  BY InitBase, AllInit
<1>2. RotInv
  BY DEF Init, AuthInit, RotInv, NoCall, Renewing, Renewed
<1>3. WaitersAreServed
  BY BrowserAssumption DEF Init, ClientInit, WaitersAreServed, Waiting, NoRequest
<1>4. UserInv /\ OriginInv
  BY AuthAssumption DEF Init, AuthInit, UserInv, OriginInv, NoCall, NoSession, Endpoint
<1>5. CalmInv
  BY AuthAssumption DEF Init, AuthInit, ClientInit, CalmInv, NoCall, Nothing, Endpoint
<1> QED BY <1>1, <1>2, <1>3, <1>4, <1>5 DEF StayInv

(* Every step preserves it. *)
LEMMA NextStayInv == StayInv /\ [Next]_vars => StayInv'
<1> SUFFICES ASSUME StayInv, [Next]_vars PROVE StayInv'
  OBVIOUS
<1>1. Base /\ All /\ RotInv /\ WaitersAreServed /\ UserInv /\ OriginInv
  BY DEF StayInv, All
<1>2. All' /\ RotInv' /\ WaitersAreServed' /\ UserInv' /\ OriginInv'
  BY <1>1, AllStep, RotStep, WaitStep, UserStep, OriginStep
<1>3. CalmInv'
  <2>1. loads' = 0 => local'.pair = None /\ \A t \in Tab : own'[t].pair = None
    BY EmptyStep
  <2>2. ASSUME Calm' PROVE Calm
    BY <1>1, <2>2, CalmBefore
  <2>3. ASSUME Calm', NEW d \in Call, call'[d].kind = "refresh", call'[d].pc = "unauthorized"
        PROVE  <<"refresh", call'[d].token>> \in expired'
    BY <2>2, <2>3, RefreshServed
  <2>4. ASSUME Calm', NEW t \in Tab, profile'[t] # None PROVE Provided(t)'
    BY <2>2, <2>4, ProvidedStep
  <2> QED BY <2>1, <2>3, <2>4 DEF CalmInv, Provided, Past
<1> QED BY <1>2, <1>3 DEF StayInv

(* Somebody who works in one tab, with a refresh token that has not        *)
(* expired, is never thrown out by the renewal of tokens: apiClient.ts     *)
(* signs out when a refresh is refused or no token is stored, and neither  *)
(* happens.                                                                *)
THEOREM ThmStaysSignedIn == Spec => StaysSignedIn
<1> DEFINE Thrown(t) == ~(profile'[t] # None \/ SignOut(t) \/ LoadPage(t) \/ RefreshTimedOut(t))
           Stay == \A t \in Tab : profile[t] # None /\ Undisturbed(t) =>
                     profile'[t] # None \/ SignOut(t) \/ LoadPage(t) \/ RefreshTimedOut(t)
<1>1. StayInv /\ [Next]_vars => [Stay]_vars
  <2> SUFFICES ASSUME StayInv, [Next]_vars, NEW t \in Tab, profile[t] # None, Undisturbed(t), Thrown(t)
               PROVE  FALSE
    OBVIOUS
  <2>1. /\ Base /\ PendInv /\ UserInv /\ RotInv /\ None \notin User /\ None \notin Call
        /\ profile \in [Tab -> User \cup {None}]
    BY AuthAssumption DEF StayInv, All, Base, TypeOK, ClientTypeOK
  <2>2. Calm /\ Provided(t)
    BY DEF Undisturbed, Calm, StayInv, CalmInv, Provided
  <2>3. ASSUME NEW u \in Tab, SignedOut(u) PROVE u = t
    BY <2>1, <2>3 DEF SignedOut
  <2>4. CASE \E u \in Tab : ScreenStep(u)
    BY <2>1, <2>3, <2>4 DEF ScreenStep, LoadPage, SignOut, StartRequest, Submit
  <2>5. ASSUME NEW r \in Request, SignedIn(r) PROVE FALSE
    <3>1. request[r].call \in Call /\ call[request[r].call].pc = "granted"
      BY <2>1, <2>5 DEF SignedIn, Base, TypeOK, ClientTypeOK, RequestDoc
    <3>2. session[request[r].call].user \in User
      BY <3>1 DEF StayInv, RotInv, UserInv, Exists
    <3> QED BY <2>1, <2>5, <3>2 DEF SignedIn, SetSession
  <2>6. ASSUME NEW r \in Request, Expelled(r) PROVE FALSE
    <3>1. request[r].tab \in Tab
      BY <2>1, <2>6 DEF Expelled, Unauthorized, Base, RequestInv, RequestFits
    <3>2. request[r].tab = t
      BY <2>3, <2>6, <3>1 DEF Expelled
    <3> QED BY <2>2, <2>6, <3>2 DEF Expelled, Provided
  <2>7. ASSUME NEW u \in Tab, RefreshRefused(u) PROVE FALSE
    <3>1. u = t /\ Refused(t)
      BY <2>3, <2>7 DEF RefreshRefused, RefreshFailed
    <3>2. promise[t] \in Call /\ call[promise[t]].kind = "refresh"
      BY <2>1, <3>1 DEF Refused, PendInv, Base, TypeOK, ClientTypeOK
    <3>3. call[promise[t]].pc # "unauthorized"
      BY <2>2, <3>1, <3>2 DEF StayInv, CalmInv, Undisturbed, Refused
    <3>4. call[promise[t]].pc # "conflict"
      BY <2>1, <2>2, <3>2 DEF Provided, Undisturbed
    <3> QED BY <3>1, <3>3, <3>4 DEF Refused
  <2>8. ASSUME NEW u \in Tab, RefreshTimedOut(u) PROVE FALSE
    BY <2>3, <2>8 DEF RefreshTimedOut, RefreshFailed
  <2>9. CASE profile' = profile
    BY <2>9
  <2> QED BY <2>4, <2>5, <2>6, <2>7, <2>8, <2>9
          DEF Next, ServerStep, RequestStep, RefreshStep, Refreshed, Answered, AuthAnswered, NoAnswer, EndRequest,
              JoinRefresh, Refresh, vars, clientVars
<1>2. Spec => [][Stay]_vars
  BY <1>1, InitStayInv, NextStayInv, PTL DEF Spec
<1> QED BY <1>2 DEF StaysSignedIn
=============================================================================
