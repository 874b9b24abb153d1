---------------------------- MODULE CloudSession ----------------------------
(***************************************************************************)
(* FusionSolarClient: its login in five requests, the test of a session,    *)
(* and get_json and post_json, which log in once and repeat the request     *)
(* once when the cloud refuses it.  The outermost call sets one time budget *)
(* that everything below it shares.  The cloud may end a session at any     *)
(* time; a session is known by its number, which is both its cookie and its *)
(* CSRF token.                                                              *)
(***************************************************************************)
EXTENDS Integers

CONSTANTS
    Budget,        \* operation_timeout_seconds, in units of the model
    MaxRedirects,  \* redirects followed after the login, 12 in the code
    MaxSession     \* bound: sessions the cloud opens

SessionAssumption ==
    Budget \in Nat \ {0} /\ MaxRedirects \in Nat /\ MaxSession \in Nat

VARIABLES
    call,     \* the public method that is running, or "none"
    step,     \* the request it makes next
    left,     \* what remains of the budget, NoBudget outside an operation
    cookie,   \* session of the cookie jar, 0 before the first
    token,    \* csrf_token
    sent,     \* the roarand header of the running request
    hops,     \* redirects followed so far
    live,     \* the session the cloud accepts, 0 if none
    result    \* how the last call ended

client == <<call, step, left, cookie, token, sent, hops, result>>
vars == <<call, step, left, cookie, token, sent, hops, live, result>>

NoBudget == -1
DataCalls == {"get_json", "post_json"}
LoginSteps == {"page", "key", "validate", "transition", "session"}
Session == 0..MaxSession
Errors == {"timeout", "unavailable", "rejected", "invalid_response",
           "authentication_failed", "authentication_required", "outside"}

TypeOK ==
    /\ call \in DataCalls \cup {"none", "login", "is_session_active"}
    /\ step \in LoginSteps \cup {"idle", "request", "repeat"}
    /\ left \in {NoBudget} \cup 0..Budget
    /\ cookie \in Session /\ token \in Session /\ sent \in Session
    /\ hops \in 0..MaxRedirects
    /\ live \in Session
    /\ result \in Errors \cup {"none", "done", "data", "active", "inactive"}
    /\ (call = "none") = (step = "idle")

Init ==
    /\ call = "none" /\ step = "idle" /\ left = NoBudget
    /\ cookie = 0 /\ token = 0 /\ sent = 0
    /\ hops = 0 /\ live = 0 /\ result = "none"

-----------------------------------------------------------------------------
\* The decorator of a public method: an outermost call sets the deadline ...
Begin(method, first) ==
    /\ call = "none"
    /\ call' = method
    /\ step' = first
    /\ left' = Budget
    /\ UNCHANGED <<cookie, token, hops, live, result>>

\* ... and clears it however it ends.  is_session_active turns every error
\* into False.
End(outcome) ==
    /\ call' = "none"
    /\ step' = "idle"
    /\ left' = NoBudget
    /\ result' = IF call = "is_session_active" /\ outcome \in Errors
                 THEN "inactive" ELSE outcome

\* A request starts only while something is left, and its timeouts keep it
\* within that.
Elapse == left > 0 /\ left' \in 0..left

Login == Begin("login", "page") /\ UNCHANGED sent
IsSessionActive == Begin("is_session_active", "session") /\ UNCHANGED sent

\* The headers are made before the first request.
StartData ==
    \E method \in DataCalls : Begin(method, "request") /\ sent' = token

-----------------------------------------------------------------------------
(* The requests of a login *)

Proceed(from, to) ==
    /\ step = from
    /\ Elapse
    /\ step' = to
    /\ UNCHANGED <<call, token, live, result>>

GetLoginPage == Proceed("page", "key") /\ UNCHANGED <<cookie, sent, hops>>

\* Encrypted (v3) or not (v2): both go on to the validation.
GetPublicKey == Proceed("key", "validate") /\ UNCHANGED <<cookie, sent, hops>>

ValidateUser ==
    /\ Proceed("validate", "transition")
    /\ hops' = 0
    /\ UNCHANGED <<cookie, sent>>

\* Variant: the count starts again at its limit, redirects are followed as
\* long as they come.
FollowRedirectAlways ==
    /\ Proceed("transition", "transition")
    /\ hops' = (hops + 1) % (MaxRedirects + 1)
    /\ UNCHANGED <<cookie, sent>>

\* Variant: the limit is compared the wrong way.
FollowRedirectOneMore ==
    /\ hops <= MaxRedirects
    /\ Proceed("transition", "transition")
    /\ hops' = hops + 1
    /\ UNCHANGED <<cookie, sent>>

FollowRedirect ==
    /\ hops < MaxRedirects
    /\ Proceed("transition", "transition")
    /\ hops' = hops + 1
    /\ UNCHANGED <<cookie, sent>>

\* The last redirect is not one: the cloud has opened a session.
Arrive ==
    /\ cookie < MaxSession
    /\ step = "transition"
    /\ Elapse
    /\ step' = "session"
    /\ cookie' = cookie + 1
    /\ live' = cookie + 1
    /\ UNCHANGED <<call, token, sent, hops, result>>

\* Variant: the repeated request goes out with the headers of the first.
RepeatRequestAsSent ==
    /\ step' = "repeat"
    /\ Elapse
    /\ UNCHANGED <<call, sent, result>>

\* A nested login returns: the deadline stays, the header is renewed.
RepeatRequest ==
    /\ step' = "repeat"
    /\ Elapse
    /\ sent' = token'
    /\ UNCHANGED <<call, result>>

\* _get_session_data answers with the token of the cookie's session.
GetSessionData ==
    /\ step = "session"
    /\ left > 0
    /\ cookie # 0 /\ cookie = live
    /\ token' = cookie
    /\ \/ call \in DataCalls /\ RepeatRequest
       \/ call = "login" /\ End("done") /\ UNCHANGED sent
       \/ call = "is_session_active" /\ End("active") /\ UNCHANGED sent
    /\ UNCHANGED <<cookie, hops, live>>

\* Errors each request may end with, and the whole call with it: transport
\* and status errors, unreadable answers, and what the step itself refuses
\* (a challenge, no transition, a redirect too many, no valid token).  Only a
\* data request that is refused for the first time logs in again instead.
StepErrors ==
    {"timeout", "unavailable", "rejected"}
        \cup (IF step \in {"key", "validate", "session"} THEN {"invalid_response"} ELSE {})
        \cup (IF step \in {"page", "key", "validate", "transition", "session", "repeat"}
              THEN {"authentication_failed"} ELSE {})
        \cup (IF step \in {"validate", "transition"} THEN {"authentication_required"} ELSE {})

RequestFails ==
    /\ step # "idle"
    /\ left > 0
    /\ \E error \in StepErrors : End(error)
    /\ UNCHANGED <<cookie, token, sent, hops, live>>

\* _request_timeout raises before the request is made.
NothingLeft ==
    /\ step # "idle"
    /\ left <= 0
    /\ End(IF left = NoBudget THEN "outside" ELSE "timeout")
    /\ UNCHANGED <<cookie, token, sent, hops, live>>

-----------------------------------------------------------------------------
(* The data request *)

Accepted == sent # 0 /\ sent = cookie /\ cookie = live

DataAnswered ==
    /\ step \in {"request", "repeat"}
    /\ left > 0
    /\ Accepted
    /\ \E outcome \in {"data", "invalid_response"} : End(outcome)
    /\ UNCHANGED <<cookie, token, sent, hops, live>>

\* A redirect, 401, 403 or a page of HTML.  The cloud may give it for a live
\* session, too.  The second one is the authentication_failed of RequestFails.
DataRefused ==
    /\ Proceed("request", "page")
    /\ UNCHANGED <<cookie, sent, hops>>

\* The cloud ends the session.
Expire ==
    /\ live # 0
    /\ live' = 0
    /\ UNCHANGED client

ClientStep ==
    \/ GetLoginPage
    \/ GetPublicKey
    \/ ValidateUser
    \/ FollowRedirect
    \/ Arrive
    \/ GetSessionData
    \/ RequestFails
    \/ NothingLeft
    \/ DataAnswered
    \/ DataRefused

Next ==
    \/ Login
    \/ IsSessionActive
    \/ StartData
    \/ ClientStep
    \/ Expire

\* Every request returns within its timeouts.
Spec == Init /\ [][Next]_vars /\ WF_vars(ClientStep)

-----------------------------------------------------------------------------
\* A repeated request is made within the budget of its call and with the
\* token of the session the renewed login has opened, so that the cloud
\* accepts it unless it has ended that session as well.
RenewalIsUsed ==
    step = "repeat" => left # NoBudget /\ sent = cookie /\ token = cookie

\* Every call ends, also when the cloud keeps redirecting and no time seems
\* to pass: neither the redirects nor the logins of one call go on for ever.
CallEnds == call # "none" ~> call = "none"
=============================================================================
