--------------------------- MODULE SessionSystem ----------------------------
(***************************************************************************)
(* The tabs of a browser and the /auth endpoints together.                 *)
(***************************************************************************)
EXTENDS BrowserSession

vars == <<authVars, clientVars>>

Init == AuthInit /\ ClientInit

ServerStep == AuthNext /\ UNCHANGED clientVars

ScreenStep(t) ==
    \/ LoadPage(t)
    \/ SignOut(t)
    \/ \E r \in Request : StartRequest(t, r)
    \/ \E r \in Request, f \in Form, c \in Free : Submit(t, r, f, c)

(* A request's answer, or the timeout, reaches the page. *)
RequestStep(r) ==
    \/ Answered(r) \/ AuthAnswered(r) \/ NoAnswer(r)
    \/ SignedIn(r) \/ Expelled(r) \/ JoinRefresh(r)
    \/ \E c \in Free : Refresh(r, c)

RefreshStep(t) == Refreshed(t) \/ RefreshRefused(t) \/ RefreshTimedOut(t)

Next ==
    \/ ServerStep
    \/ \E t \in Tab : ScreenStep(t) \/ RefreshStep(t)
    \/ \E r \in Request : RequestStep(r)

Spec == Init /\ [][Next]_vars

(* The server's documents and the browser's storage hold values of the     *)
(* types the code gives them; nothing but a session's name is stored as a  *)
(* token.                                                                  *)
TypeOK == AuthTypeOK /\ ClientTypeOK

(* A refresh token buys one successor: two sessions never succeed the same *)
(* one, and a session with a successor is rotated, so that each sign-in    *)
(* has one live session whatever tabs, retries and lost answers do.  A     *)
(* session a password reset has revoked never has a successor.             *)
RotatedOnce ==
    \A s, d \in Call :
        /\ session[d].from # None =>
              session[session[d].from].status = "rotated" /\ session[session[d].from].user = session[d].user
        /\ session[s].from # None /\ session[s].from = session[d].from => s = d

(* A reset token changes the password once: of the calls that redeem one   *)
(* token, one gets as far as the password.                                 *)
RedeemedOnce ==
    \A c, d \in Call :
        /\ call[c].kind = "reset" /\ call[c].pc \in {"password", "revoke", "done"}
        /\ call[d].kind = "reset" /\ call[d].pc \in {"password", "revoke", "done"}
        /\ call[c].token = call[d].token
        => c = d

(* A page presents a refresh token once: the requests that find their      *)
(* access token expired at the same time share one refresh, and a token    *)
(* that was presented is replaced or removed, whatever the answer.         *)
PresentedOnce ==
    \A c, d \in Call :
        /\ call[c].kind = "refresh" /\ call[d].kind = "refresh"
        /\ call[c].token = call[d].token
        /\ sender[c] = sender[d]
        => c = d

(* Somebody who works in one tab is never thrown out by the renewal of     *)
(* tokens, however many requests expire together and whatever forms are    *)
(* sent meanwhile, unless the account is disabled, the password is reset,  *)
(* a refresh is not answered or the page is reloaded; or the refresh token *)
(* itself has expired, as that of a page left alone for longer than its 7  *)
(* or 30 days has; or a refresh is still under way that an earlier sign-   *)
(* out left behind: the session-expired event that follows its refusal     *)
(* meets whoever is signed in.                                             *)
Undisturbed(t) ==
    /\ loads = 1 /\ page[t] = 1
    /\ \A u \in User : account[u] # "disabled"
    /\ \A s \in Call : session[s].status # "revoked"
    /\ ~Past("refresh", StoredPair(t))
    /\ promise[t] # None => call[promise[t]].token = StoredPair(t)

StaysSignedIn ==
    [][\A t \in Tab : profile[t] # None /\ Undisturbed(t) =>
          profile'[t] # None \/ SignOut(t) \/ LoadPage(t) \/ RefreshTimedOut(t)]_vars

(* A request that waits, waits for the refresh its own page has under way, *)
(* and no page holds a refresh that nothing waits for: a promise that ended*)
(* is never joined, or its stale tokens would be stored again.             *)
WaitersAreServed ==
    \A t \in Tab : promise[t] # None <=> Waiting(t) # {}
=============================================================================
