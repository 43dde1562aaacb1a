------------------------------ MODULE WebSession ------------------------------
(***************************************************************************)
(* The session of one browser tab of the admin front end: requests whose   *)
(* access token lapses, the one refresh they share (queueRefresh), the     *)
(* store their answers are written to, signing out and in again, and what  *)
(* the API answers.                                                        *)
(* Source: admin/src/lib/http/index.ts, lib/auth-session.ts,               *)
(* stores/auth-store.ts, components/admin-shell.tsx.                       *)
(*                                                                         *)
(* One tab and one account.  A session stands for the access and refresh   *)
(* token it was issued with; 0 is none.  The API answers in one step here: *)
(* how its own steps interleave is AuthSessions.                           *)
(***************************************************************************)
EXTENDS Naturals

CONSTANTS MaxRequests,  \* bound: requests the tab ever makes
          MaxSessions,  \* bound: sessions ever created, one per request and login
          Scopes        \* the bounds a behaviour may choose at its start

ASSUME WebConstants ==
    /\ MaxRequests \in Nat /\ MaxSessions \in Nat
    /\ \A s \in Scopes : /\ s.requests \in 0..MaxRequests /\ s.logins \in Nat
                         /\ s.faults \in Nat
                         /\ s.requests + 1 + s.logins <= MaxSessions

Requests == 1..MaxRequests
Sessions == 1..MaxSessions

VARIABLES store,      \* the session whose tokens useAuthStore holds, or 0
          request,    \* the tab's requests
          refresh,    \* refreshPromise, and the request behind it
          session,    \* AuthSession rows
          lapsed,     \* sessions whose access token has expired
          account,
          excused,    \* history: something else than the tab's refreshes ended its session
          logins, faults,
          scope       \* requests, logins after the first, faults

vars  == <<store, request, refresh, session, lapsed, account, excused, logins, faults, scope>>
bounds == <<logins, faults, scope>>

(* rotated: revoked by a refresh; revoked: by anything else, or expired.   *)
(* login tells the chains (familyId) of two logins apart.                  *)
Session == [status : {"none", "live", "rotated", "revoked"}, login : Nat]
(* ok, denied and barred are 200, 401 and 403 ACCOUNT_SUSPENDED on their   *)
(* way back, failed is none after 30 seconds; waiting is for the refresh.  *)
Answers == {"ok", "denied", "barred", "failed"}
Request == [at : {"new", "sent", "waiting", "over"} \cup Answers, bearer : {0} \cup Sessions,
            retry : BOOLEAN, signOut : BOOLEAN]
New     == [at |-> "new", bearer |-> 0, retry |-> FALSE, signOut |-> FALSE]
Refresh == [at : {"idle", "sent", "ok", "refused"}, token : {0} \cup Sessions,
            new : {0} \cup Sessions]
Settled == [at |-> "idle", token |-> 0, new |-> 0]

TypeOK == /\ store \in {0} \cup Sessions /\ request \in [Requests -> Request]
          /\ refresh \in Refresh
          /\ session \in [Sessions -> Session] /\ lapsed \in SUBSET Sessions
          /\ account \in {"ACTIVE", "SUSPENDED"} /\ excused \in BOOLEAN
          /\ logins \in Nat /\ faults \in Nat /\ scope \in Scopes

Init == /\ scope \in Scopes
        /\ store = 1 /\ request = [r \in Requests |-> New] /\ refresh = Settled
        /\ session = [s \in Sessions |->
                        [status |-> IF s = 1 THEN "live" ELSE "none", login |-> 0]]
        /\ lapsed = {} /\ account = "ACTIVE" /\ excused = FALSE
        /\ logins = 0 /\ faults = 0

Live(s)   == session[s].status = "live"
OnWay     == {r \in Requests : request[r].at \notin {"new", "over"}}
Waiting   == {r \in Requests : request[r].at = "waiting"}
Over(R)   == request' = [r \in Requests |-> IF r \in R THEN [request[r] EXCEPT !.at = "over"]
                                            ELSE request[r]]
Chain(s)  == {t \in Sessions : session[t].login = session[s].login}
Revoked(S) == [s \in Sessions |-> IF s \in S /\ Live(s)
                                  THEN [session[s] EXCEPT !.status = "revoked"] ELSE session[s]]
Fresh(s)  == /\ session[s].status = "none"
             /\ \A t \in 1..(s - 1) : session[t].status # "none"

-----------------------------------------------------------------------------
(* The tab sends a request with the token of the store.  Signing out is    *)
(* POST /auth/logout through the same client.                              *)

Send(r, signOut) ==
    /\ request[r].at = "new" /\ store # 0
    /\ r <= scope.requests /\ \A q \in 1..(r - 1) : request[q].at # "new"
    /\ signOut => \A q \in OnWay : ~request[q].signOut
    /\ request' = [request EXCEPT ![r] = [New EXCEPT !.at = "sent", !.bearer = store,
                                                     !.signOut = signOut]]
    /\ UNCHANGED <<store, refresh, session, lapsed, account, excused, bounds>>

(* JwtAuthGuard; a logout it lets through revokes the bearer's session.    *)
VerdictVerbatim(s) == CASE s \in lapsed \/ ~Live(s) -> "denied"  \* seeded fault
                        [] account = "SUSPENDED"    -> account
                        [] OTHER                    -> "ok"
Verdict(s) == CASE s \in lapsed \/ ~Live(s) -> "denied"
                [] account = "SUSPENDED"    -> "barred"
                [] OTHER                    -> "ok"

Serve(r) ==
    LET s == request[r].bearer
        logout == request[r].signOut /\ Verdict(s) = "ok"
    IN  /\ request[r].at = "sent"
        /\ request' = [request EXCEPT ![r].at = Verdict(s)]
        /\ session' = IF logout THEN Revoked({s}) ELSE session
        /\ excused' = (excused \/ logout)
        /\ UNCHANGED <<store, refresh, lapsed, account, bounds>>

-----------------------------------------------------------------------------
(* The answer arrives.  A request that signs out clears the store when it  *)
(* is over, however it ended.                                              *)

Clears(r) == request[r].signOut

Deliver(r) ==
    /\ \/ request[r].at \in {"ok", "failed"}
       \/ request[r].at = "denied" /\ request[r].retry
    /\ Over({r})
    /\ store' = IF Clears(r) THEN 0 ELSE store
    /\ UNCHANGED <<refresh, session, lapsed, account, excused, bounds>>

(* forceLogoutSuspended leaves the page for the login page: nothing that   *)
(* was on its way is waited for.                                           *)
Bar(r) ==
    /\ request[r].at = "barred"
    /\ Over(OnWay) /\ refresh' = Settled /\ store' = 0
    /\ UNCHANGED <<session, lapsed, account, excused, bounds>>

(* A 401 the first time: queueRefresh joins the refresh that is running,   *)
(* or begins one with the refresh token the store holds by now; if it      *)
(* holds none the request is rejected at once.                             *)
TokenOfRequest(r) == request[r].bearer  \* seeded fault
RefreshToken(r)   == store

NeverRunning == FALSE  \* seeded fault
Running      == refresh.at # "idle"

QueueRefresh(r) ==
    /\ request[r].at = "denied" /\ ~request[r].retry
    /\ IF ~Running /\ store = 0
       THEN Over({r}) /\ UNCHANGED refresh
       ELSE /\ request' = [request EXCEPT ![r].at = "waiting", ![r].retry = TRUE]
            /\ refresh' = IF Running THEN refresh
                          ELSE [Settled EXCEPT !.at = "sent", !.token = RefreshToken(r)]
    /\ UNCHANGED <<store, session, lapsed, account, excused, bounds>>

-----------------------------------------------------------------------------
(* POST /auth/refresh: a live token is rotated.  Another is refused, and   *)
(* ends the chain it belongs to.                                           *)

Rotate(t, s) == [session EXCEPT ![t].status = "rotated",
                                ![s] = [status |-> "live", login |-> session[t].login]]

ServeRefresh ==
    LET t == refresh.token
    IN  /\ refresh.at = "sent"
        /\ \/ /\ Live(t) /\ account = "ACTIVE"
              /\ \E s \in Sessions : /\ Fresh(s)
                                     /\ session' = Rotate(t, s)
                                     /\ refresh' = [refresh EXCEPT !.at = "ok", !.new = s]
           \/ /\ ~Live(t)
              /\ session' = Revoked(Chain(t))
              /\ refresh' = [refresh EXCEPT !.at = "refused"]
           \/ /\ Live(t) /\ account = "SUSPENDED"
              /\ refresh' = [refresh EXCEPT !.at = "refused"] /\ UNCHANGED session
        /\ UNCHANGED <<store, request, lapsed, account, excused, bounds>>

(* The answer is written to the store, and those who waited for it send    *)
(* their request again, or are rejected.                                   *)
ResumedIfGranted(granted) ==  \* seeded fault
    IF granted THEN [r \in Requests |-> IF r \in Waiting
                                        THEN [request[r] EXCEPT !.at = "sent", !.bearer = refresh.new]
                                        ELSE request[r]]
               ELSE request
Resumed(granted) ==
    [r \in Requests |->
        IF r \notin Waiting THEN request[r]
        ELSE IF granted THEN [request[r] EXCEPT !.at = "sent", !.bearer = refresh.new]
        ELSE [request[r] EXCEPT !.at = "over"]]

DeliverRefresh ==
    LET granted == refresh.at = "ok"
    IN  /\ refresh.at \in {"ok", "refused"}
        /\ store' = IF granted THEN refresh.new ELSE 0
        /\ request' = Resumed(granted)
        /\ refresh' = Settled
        /\ UNCHANGED <<session, lapsed, account, excused, bounds>>

-----------------------------------------------------------------------------
(* verifyOtp, then applyAuthTokensToStore.  Requests and a refresh of the  *)
(* session before may still be on their way.                               *)
Login ==
    /\ store = 0 /\ account = "ACTIVE" /\ logins < scope.logins
    /\ logins' = logins + 1
    /\ \E s \in Sessions : /\ Fresh(s)
                           /\ session' = [session EXCEPT ![s] = [status |-> "live",
                                                                 login |-> logins']]
                           /\ store' = s
    /\ UNCHANGED <<request, refresh, lapsed, account, excused, faults, scope>>

(* Elsewhere: an access token lapses (JWT_ACCESS_TTL), the session ends -  *)
(* on another device, by expiry, by a suspension - or only its account is  *)
(* barred, as when its company is suspended.                               *)
Lapse(s) ==
    /\ Live(s) /\ s \notin lapsed
    /\ lapsed' = lapsed \cup {s}
    /\ UNCHANGED <<store, request, refresh, session, account, excused, bounds>>

EndElsewhere ==
    /\ \E s \in Sessions : Live(s)
    /\ session' = Revoked(Sessions) /\ excused' = TRUE
    /\ account' \in {"ACTIVE", "SUSPENDED"}
    /\ UNCHANGED <<store, request, refresh, lapsed, bounds>>

Suspend ==
    /\ account = "ACTIVE" /\ account' = "SUSPENDED" /\ excused' = TRUE
    /\ UNCHANGED <<store, request, refresh, session, lapsed, bounds>>

(* An answer, or the request itself, is lost; the page is loaded again.    *)
Fault == faults < scope.faults /\ faults' = faults + 1

Lose(r) ==
    /\ request[r].at \in {"sent", "ok", "denied", "barred"} /\ Fault
    /\ request' = [request EXCEPT ![r].at = "failed"]
    /\ UNCHANGED <<store, refresh, session, lapsed, account, excused, logins, scope>>

LoseRefresh ==
    /\ refresh.at \in {"sent", "ok"} /\ Fault
    /\ refresh' = [refresh EXCEPT !.at = "refused"]
    /\ UNCHANGED <<store, request, session, lapsed, account, excused, logins, scope>>

Reload ==
    /\ Fault /\ OnWay # {}
    /\ Over(OnWay) /\ refresh' = Settled
    /\ UNCHANGED <<store, session, lapsed, account, excused, logins, scope>>

-----------------------------------------------------------------------------
Answered(r) == Serve(r) \/ Deliver(r) \/ Bar(r) \/ QueueRefresh(r)

Next == \/ \E r \in Requests : \/ \E signOut \in BOOLEAN : Send(r, signOut)
                               \/ Answered(r) \/ Lose(r)
        \/ ServeRefresh \/ DeliverRefresh \/ LoseRefresh
        \/ Login \/ EndElsewhere \/ Suspend \/ Reload
        \/ \E s \in Sessions : Lapse(s)

Spec == Init /\ [][Next]_vars

(* The API answers, or the client's time runs out; what arrives is handled.*)
FairSpec == /\ Spec /\ \A r \in Requests : WF_vars(Answered(r))
            /\ WF_vars(ServeRefresh) /\ WF_vars(DeliverRefresh)

-----------------------------------------------------------------------------
(* Properties. *)

(* While no answer is lost the tab never presents a refresh token that it  *)
(* has rotated, which would end its whole chain of sessions: requests that *)
(* are denied at the same time, or late, share a refresh or begin one with *)
(* the token of the last (queueRefresh, refreshAccessToken).               *)
NeverReuses ==
    faults = 0 /\ refresh.at = "sent" => session[refresh.token].status # "rotated"

(* While no answer is lost a tab is signed out only by its user, or since  *)
(* a session of it was ended from elsewhere, however its requests overlap. *)
StaysSignedIn ==
    [][faults' = 0 /\ store # 0 /\ store' = 0
         => excused \/ \E r \in OnWay : request[r].signOut]_vars

(* Every request of the tab is answered, sent again at most once.          *)
RequestsSettle == \A r \in Requests : request[r].at = "sent" ~> request[r].at = "over"
=============================================================================
