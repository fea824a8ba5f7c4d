-------------------------- MODULE BrowserSession ----------------------------
(***************************************************************************)
(* The web client's session (frontend/src/services/apiClient.ts,           *)
(* tokenStorage.ts, companyStorage.ts, features/auth): tabs of one browser *)
(* that share localStorage, each with a sessionStorage of its own, and the *)
(* interceptor that renews the tokens when the API answers 401.  One       *)
(* action per event the page reacts to; JavaScript runs a reaction, with   *)
(* the microtasks it queues, to its end.                                   *)
(***************************************************************************)
EXTENDS AuthSessions

CONSTANTS
    Tab,        \* tabs of the browser
    Request,    \* requests a page makes through apiClient
    MaxLoads    \* bound: page loads

ASSUME BrowserAssumption == None \notin Tab \cup {"api"} /\ MaxLoads \in Nat

VARIABLES
    loads,      \* pages loaded so far
    page,       \* the page a tab shows, by number; 0 before it is opened
    local,      \* localStorage: the token pair and whether the company's id is there
    own,        \* sessionStorage of each tab
    profile,    \* AuthContext's user, in each tab
    promise,    \* refreshPromise: the refresh call a page has under way
    request,    \* the requests under way
    sender      \* the page that sent each call

clientVars == <<loads, page, local, own, profile, promise, request, sender>>

Place == [pair : Call \cup {None}, company : BOOLEAN]

Nothing == [pair |-> None, company |-> FALSE]

(* token: the access token an API request carries, or the reset token the  *)
(* user typed.  company: whether X-Company-ID is set.                      *)
RequestDoc ==
    [pc : {"idle", "sent", "waiting"}, tab : Tab \cup {None},
     kind : Endpoint \cup {"api", None}, call : Call \cup {None}, token : Call \cup {None},
     company : BOOLEAN, user : User \cup {None}, remember : BOOLEAN]

NoRequest ==
    [pc |-> "idle", tab |-> None, kind |-> None, call |-> None, token |-> None,
     company |-> FALSE, user |-> None, remember |-> FALSE]

ClientTypeOK ==
    /\ loads \in 0 .. MaxLoads
    /\ page \in [Tab -> 0 .. MaxLoads]
    /\ local \in Place
    /\ own \in [Tab -> Place]
    /\ profile \in [Tab -> User \cup {None}]
    /\ promise \in [Tab -> Call \cup {None}]
    /\ request \in [Request -> RequestDoc]
    /\ sender \in [Call -> 0 .. MaxLoads]

ClientInit ==
    /\ loads = 0
    /\ page = [t \in Tab |-> 0]
    /\ local = Nothing
    /\ own = [t \in Tab |-> Nothing]
    /\ profile = [t \in Tab |-> None]
    /\ promise = [t \in Tab |-> None]
    /\ request = [r \in Request |-> NoRequest]
    /\ sender = [c \in Call |-> 0]

-----------------------------------------------------------------------------
(* tokenStorage and companyStorage. *)

StoredPair(t) == IF local.pair # None THEN local.pair ELSE own[t].pair

StoredCompany(t) == local.company \/ own[t].company

Clear(t) ==
    /\ local' = Nothing
    /\ own' = [own EXCEPT ![t] = Nothing]

(* Mutant: the renewed tokens are used and not stored. *)
UseTokens(t, s, remember) == UNCHANGED <<local, own>>

(* setTokens: the company's id stays where it is. *)
SetTokens(t, s, remember) ==
    /\ local' = [local EXCEPT !.pair = IF remember THEN s ELSE None]
    /\ own' = [own EXCEPT ![t].pair = IF remember THEN None ELSE s]

(* AuthContext.setSession. *)
SetSession(t, s, remember) ==
    LET stored == [pair |-> s, company |-> TRUE] IN
    /\ local' = IF remember THEN stored ELSE Nothing
    /\ own' = [own EXCEPT ![t] = IF remember THEN Nothing ELSE stored]
    /\ profile' = [profile EXCEPT ![t] = session[s].user]

(* AuthContext.signOut, also what a session-expired event runs. *)
SignedOut(t) == Clear(t) /\ profile' = [profile EXCEPT ![t] = None]

-----------------------------------------------------------------------------
(* The screens. *)

Free == {c \in Call : call[c].pc = "idle"}

(* parseAccessToken: the user a token names, unless it is expired. *)
Parsed(s) == IF s = None \/ Past("access", s) THEN None ELSE session[s].user

(* A tab is opened or reloaded: its requests and its refresh are gone, and *)
(* the user is read from the stored access token.                          *)
LoadPage(t) ==
    LET s == StoredPair(t) IN
    /\ loads < MaxLoads
    /\ loads' = loads + 1
    /\ page' = [page EXCEPT ![t] = loads + 1]
    /\ profile' = [profile EXCEPT ![t] = Parsed(s)]
    /\ promise' = [promise EXCEPT ![t] = None]
    /\ request' = [r \in Request |-> IF request[r].tab = t THEN NoRequest ELSE request[r]]
    /\ UNCHANGED <<authVars, local, own, sender>>

(* A screen behind ProtectedRoute, or the profile's refresh, calls the API *)
(* through the request interceptor.                                        *)
StartRequest(t, r) ==
    /\ profile[t] # None
    /\ request[r].pc = "idle"
    /\ request' = [request EXCEPT ![r] =
                     [pc |-> "sent", tab |-> t, kind |-> "api", call |-> None,
                      token |-> StoredPair(t), company |-> StoredCompany(t),
                      user |-> None, remember |-> FALSE]]
    /\ UNCHANGED <<authVars, loads, page, local, own, profile, promise, sender>>

(* What the pages send to /auth, naming the company. *)

LoginForm == [kind : {"login"}, user : User, token : {None}, remember : BOOLEAN]

RegisterForm == [kind : {"register"}, user : User, token : {None}, remember : BOOLEAN]

ForgotForm == [kind : {"forgot"}, user : User, token : {None}, remember : {FALSE}]

ResetForm == [kind : {"reset"}, user : {None}, token : Call, remember : {FALSE}]

Form == LoginForm \cup RegisterForm \cup ForgotForm \cup ResetForm

Sent(f) == [pc |-> "sent", kind |-> f.kind, user |-> f.user, token |-> f.token]

Submit(t, r, f, c) ==
    /\ page[t] > 0
    /\ request[r].pc = "idle"
    /\ f.kind = "reset" => resetToken[f.token].status # "absent"
    /\ c \in Free
    /\ call' = [call EXCEPT ![c] = Sent(f)]
    /\ sender' = [sender EXCEPT ![c] = page[t]]
    /\ request' = [request EXCEPT ![r] =
                     [pc |-> "sent", tab |-> t, kind |-> f.kind, call |-> c,
                      token |-> f.token, company |-> TRUE,
                      user |-> f.user, remember |-> f.remember]]
    /\ UNCHANGED <<account, session, resetToken, expired, loads, page, local, own, profile, promise>>

SignOut(t) ==
    /\ profile[t] # None
    /\ SignedOut(t)
    /\ UNCHANGED <<authVars, loads, page, promise, request, sender>>

-----------------------------------------------------------------------------
(* Answers. *)

Finish(r) == request' = [request EXCEPT ![r] = NoRequest]

(* The API has answered, with a result, with a 400 for want of a company,  *)
(* or with a refusal other than 401; or apiClient's timeout has passed.    *)
EndRequest(r) ==
    /\ request[r].pc = "sent"
    /\ Finish(r)
    /\ UNCHANGED <<authVars, loads, page, local, own, profile, promise, sender>>

Answered(r) ==
    /\ request[r].kind = "api"
    /\ request[r].company => Authorised(request[r].token)
    /\ EndRequest(r)

NoAnswer(r) == EndRequest(r)

AuthAnswered(r) ==
    /\ request[r].call # None
    /\ call[request[r].call].pc \in {"done", "conflict"}
    /\ EndRequest(r)

(* login and register succeed. *)
SignedIn(r) ==
    LET q == request[r] IN
    /\ q.pc = "sent" /\ q.call # None
    /\ call[q.call].pc = "granted"
    /\ SetSession(q.tab, q.call, q.remember)
    /\ Finish(r)
    /\ UNCHANGED <<authVars, loads, page, promise, sender>>

(* A 401: of a protected endpoint, or of an /auth form. *)
Unauthorized(r) ==
    /\ request[r].pc = "sent"
    /\ IF request[r].call = None
       THEN request[r].company /\ ~Authorised(request[r].token)
       ELSE call[request[r].call].pc = "unauthorized"

(* No refresh token is stored: the session is over. *)
Expelled(r) ==
    LET t == request[r].tab IN
    /\ Unauthorized(r)
    /\ StoredPair(t) = None
    /\ SignedOut(t)
    /\ Finish(r)
    /\ UNCHANGED <<authVars, loads, page, promise, sender>>

(* A call without a company is refused before it reaches refresh. *)
RefreshCall(t) ==
    [pc |-> IF StoredCompany(t) THEN "sent" ELSE "conflict",
     kind |-> "refresh", user |-> None, token |-> StoredPair(t)]

(* Mutant: a second request that is answered 401 refreshes on its own. *)
RefreshAlone(r, c) ==
    LET t == request[r].tab IN
    /\ Unauthorized(r)
    /\ StoredPair(t) # None
    /\ c \in Free
    /\ call' = [call EXCEPT ![c] = RefreshCall(t)]
    /\ sender' = [sender EXCEPT ![c] = page[t]]
    /\ promise' = [promise EXCEPT ![t] = c]
    /\ request' = [request EXCEPT ![r].pc = "waiting", ![r].call = None]
    /\ UNCHANGED <<account, session, resetToken, expired, loads, page, local, own, profile>>

(* The stored refresh token is sent to /auth/refresh, and the request waits. *)
Refresh(r, c) ==
    LET t == request[r].tab IN
    /\ Unauthorized(r)
    /\ StoredPair(t) # None
    /\ promise[t] = None
    /\ c \in Free
    /\ call' = [call EXCEPT ![c] = RefreshCall(t)]
    /\ sender' = [sender EXCEPT ![c] = page[t]]
    /\ promise' = [promise EXCEPT ![t] = c]
    /\ request' = [request EXCEPT ![r].pc = "waiting", ![r].call = None]
    /\ UNCHANGED <<account, session, resetToken, expired, loads, page, local, own, profile>>

(* refreshPromise ??= ...: a refresh under way is shared. *)
JoinRefresh(r) ==
    LET t == request[r].tab IN
    /\ Unauthorized(r)
    /\ StoredPair(t) # None
    /\ promise[t] # None
    /\ request' = [request EXCEPT ![r].pc = "waiting", ![r].call = None]
    /\ UNCHANGED <<authVars, loads, page, local, own, profile, promise, sender>>

Waiting(t) == {r \in Request : request[r].tab = t /\ request[r].pc = "waiting"}

Forms(t) == {r \in Waiting(t) : request[r].kind # "api"}

(* Everything that waited is sent again, an API request with the new       *)
(* access token and an /auth form under a new call.                        *)
SendAgain(t, again) ==
    /\ \A r, o \in Forms(t) : again[r] = again[o] => r = o
    /\ request' = [r \in Request |->
                     IF r \in Forms(t)
                     THEN [request[r] EXCEPT !.pc = "sent", !.call = again[r]]
                     ELSE IF r \in Waiting(t)
                          THEN [request[r] EXCEPT !.pc = "sent", !.token = promise[t]]
                          ELSE request[r]]
    /\ call' = [c \in Call |->
                  IF \E r \in Forms(t) : again[r] = c
                  THEN Sent(request[CHOOSE r \in Forms(t) : again[r] = c])
                  ELSE call[c]]
    /\ sender' = [c \in Call |->
                    IF \E r \in Forms(t) : again[r] = c THEN page[t] ELSE sender[c]]

(* The new tokens arrive, and are stored where tokens are. *)
Refreshed(t) ==
    /\ promise[t] # None
    /\ call[promise[t]].pc = "granted"
    /\ SetTokens(t, promise[t], local.pair # None)
    /\ promise' = [promise EXCEPT ![t] = None]
    /\ \E again \in [Forms(t) -> Free] : SendAgain(t, again)
    /\ UNCHANGED <<account, session, resetToken, expired, loads, page, profile>>

(* Mutant: refreshPromise is only reset when the refresh succeeds. *)
RefreshKept(t) ==
    /\ promise[t] # None
    /\ SignedOut(t)
    /\ request' = [r \in Request |-> IF r \in Waiting(t) THEN NoRequest ELSE request[r]]
    /\ UNCHANGED <<authVars, loads, page, promise, sender>>

(* The refresh is refused, or not answered in time: whatever waited is     *)
(* rejected and the session is over.                                       *)
RefreshFailed(t) ==
    /\ promise[t] # None
    /\ SignedOut(t)
    /\ promise' = [promise EXCEPT ![t] = None]
    /\ request' = [r \in Request |-> IF r \in Waiting(t) THEN NoRequest ELSE request[r]]
    /\ UNCHANGED <<authVars, loads, page, sender>>

Refused(t) == promise[t] # None /\ call[promise[t]].pc \in {"unauthorized", "conflict"}

RefreshRefused(t) == Refused(t) /\ RefreshFailed(t)

RefreshTimedOut(t) == ~Refused(t) /\ RefreshFailed(t)
=============================================================================
