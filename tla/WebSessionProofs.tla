--------------------------- MODULE WebSessionProofs ---------------------------
(***************************************************************************)
(* For any number of requests, sessions, logins and faults: the tab's      *)
(* state keeps its types, and while no answer is lost a refresh token is   *)
(* never presented twice and nobody is signed out by the tab itself.       *)
(*                                                                         *)
(* NeverReuses is not inductive: it is silent of the token the store holds *)
(* before a refresh begins and of the one an answer carries back.  OneToken*)
(* says each of them is unrotated whenever it may be presented next;       *)
(* Explained says who ended what the tab finds ended.                      *)
(***************************************************************************)
EXTENDS WebSession, TLAPS

Unspent(s) == s \in Sessions /\ session[s].status \in {"live", "revoked"}
OneToken   == /\ refresh.at = "sent" => Unspent(refresh.token)
              /\ refresh.at = "ok"   => Unspent(refresh.new)
              /\ refresh.at # "ok" /\ store # 0 => Unspent(store)
Explained  == ~excused => /\ account = "ACTIVE" /\ refresh.at # "refused"
                          /\ \A s \in Sessions : session[s].status # "revoked"
                          /\ \A r \in Requests : request[r].at # "barred"
Presents   == refresh.at = "sent" => refresh.token \in Sessions
Inv == TypeOK /\ Presents /\ (faults = 0 => OneToken /\ Explained)

LEMMA InitHolds == Init => Inv
  <1> SUFFICES ASSUME Init PROVE Inv OBVIOUS
  <1>1. 1 \in Sessions
    <2>1. /\ scope.requests \in 0..MaxRequests /\ scope.logins \in Nat
          /\ scope.requests + 1 + scope.logins <= MaxSessions
      BY WebConstants DEF Init
    <2> QED BY <2>1, WebConstants DEF Sessions
  <1>2. request \in [Requests -> Request] BY DEF Init, New, Request, Answers
  <1>3. session \in [Sessions -> Session] BY DEF Init, Session
  <1> QED BY <1>1, <1>2, <1>3
      DEF Inv, TypeOK, Presents, OneToken, Explained, Unspent, Init, Settled, Refresh, New

-----------------------------------------------------------------------------
(* Sessions that something else than a refresh ends.                       *)
LEMMA RevokedTyped ==
  ASSUME TypeOK, NEW S, session' = Revoked(S)
  PROVE  /\ session' \in [Sessions -> Session]
         /\ \A s \in Sessions : \/ session'[s] = session[s]
                                \/ Live(s) /\ session'[s].status = "revoked"
  BY DEF TypeOK, Session, Revoked, Live

(* What a step does to the requests, when it does not bar one.             *)
LEMMA OverTyped ==
  ASSUME TypeOK, NEW R, Over(R)
  PROVE  /\ request' \in [Requests -> Request]
         /\ \A r \in Requests : request'[r].at = "barred" => request[r].at = "barred"
  BY DEF TypeOK, Request, Answers, Over

LEMMA SettledTyped == Settled \in Refresh /\ Settled.at = "idle"
  BY DEF Settled, Refresh

-----------------------------------------------------------------------------
LEMMA SendKeeps ==
  ASSUME Inv, NEW r \in Requests, NEW signOut \in BOOLEAN, Send(r, signOut) PROVE Inv'
  <1>1. request' \in [Requests -> Request]
        /\ \A q \in Requests : request'[q].at = "barred" => request[q].at = "barred"
    BY DEF Inv, TypeOK, Send, New, Request
  <1> QED BY <1>1 DEF Inv, TypeOK, Presents, OneToken, Explained, Unspent, Send, bounds

LEMMA ServeKeeps == ASSUME Inv, NEW r \in Requests, Serve(r) PROVE Inv'
  <1> DEFINE s == request[r].bearer
             logout == request[r].signOut /\ Verdict(s) = "ok"
  <1>1. /\ Verdict(s) \in {"ok", "denied", "barred"}
        /\ Verdict(s) = "barred" => account = "SUSPENDED"
    BY DEF Inv, TypeOK, Verdict
  <1>2. request' = [request EXCEPT ![r].at = Verdict(s)] /\ excused' = (excused \/ logout)
        /\ UNCHANGED <<store, refresh, lapsed, account, bounds>>
    BY DEF Serve
  <1>3. request' \in [Requests -> Request]
        /\ \A q \in Requests : request'[q].at = "barred" =>
               request[q].at = "barred" \/ account = "SUSPENDED"
    BY <1>1, <1>2 DEF Inv, TypeOK, Request, Answers
  <1>4. session' = Revoked({s}) \/ session' = session BY DEF Serve
  <1>5. /\ session' \in [Sessions -> Session]
        /\ \A t \in Sessions : \/ session'[t] = session[t]
                               \/ Live(t) /\ session'[t].status = "revoked"
    BY <1>4, RevokedTyped DEF Inv, TypeOK
  <1>6. logout \/ session' = session BY DEF Serve
  <1>7. excused' \in BOOLEAN BY <1>2 DEF Inv, TypeOK
  <1>8. TypeOK' BY <1>2, <1>3, <1>5, <1>7 DEF Inv, TypeOK, bounds
  <1>9. faults = 0 => OneToken'
    BY <1>2, <1>5 DEF Inv, OneToken, Unspent, Live
  <1>10. faults = 0 => Explained'
    BY <1>2, <1>3, <1>6 DEF Inv, TypeOK, Explained
  <1> QED BY <1>2, <1>8, <1>9, <1>10 DEF Inv, Presents, bounds

LEMMA DeliverKeeps == ASSUME Inv, NEW r \in Requests, Deliver(r) PROVE Inv'
  <1>1. /\ request' \in [Requests -> Request]
        /\ \A q \in Requests : request'[q].at = "barred" => request[q].at = "barred"
    BY OverTyped DEF Deliver, Inv
  <1>2. store' = 0 \/ store' = store BY DEF Deliver
  <1> QED BY <1>1, <1>2
      DEF Inv, TypeOK, Presents, OneToken, Explained, Unspent, Deliver, bounds

LEMMA BarKeeps == ASSUME Inv, NEW r \in Requests, Bar(r) PROVE Inv'
  <1>1. /\ request' \in [Requests -> Request]
        /\ \A q \in Requests : request'[q].at = "barred" => request[q].at = "barred"
    BY OverTyped DEF Bar, Inv
  <1> QED BY <1>1, SettledTyped
      DEF Inv, TypeOK, Presents, OneToken, Explained, Unspent, Bar, bounds

LEMMA QueueRefreshKeeps == ASSUME Inv, NEW r \in Requests, QueueRefresh(r) PROVE Inv'
  <1>1. CASE ~Running /\ store = 0
    <2>1. Over({r}) /\ UNCHANGED refresh BY <1>1 DEF QueueRefresh
    <2>2. /\ request' \in [Requests -> Request]
          /\ \A q \in Requests : request'[q].at = "barred" => request[q].at = "barred"
      BY <2>1, OverTyped DEF Inv
    <2> QED BY <2>1, <2>2
        DEF Inv, TypeOK, Presents, OneToken, Explained, Unspent, QueueRefresh, bounds
  <1>2. CASE ~(~Running /\ store = 0)
    <2>1. /\ request' = [request EXCEPT ![r].at = "waiting", ![r].retry = TRUE]
          /\ refresh' = IF Running THEN refresh
                        ELSE [Settled EXCEPT !.at = "sent", !.token = store]
      BY <1>2 DEF QueueRefresh, RefreshToken
    <2>2. /\ request' \in [Requests -> Request]
          /\ \A q \in Requests : request'[q].at = "barred" => request[q].at = "barred"
      BY <2>1 DEF Inv, TypeOK, Request
    <2>3. \/ refresh' = refresh
          \/ /\ refresh.at = "idle" /\ store \in Sessions /\ refresh' \in Refresh
             /\ refresh'.at = "sent" /\ refresh'.token = store
      BY <1>2, <2>1 DEF Inv, TypeOK, Running, Settled, Refresh
    <2> QED BY <2>2, <2>3
        DEF Inv, TypeOK, Presents, OneToken, Explained, Unspent, QueueRefresh, bounds
  <1> QED BY <1>1, <1>2

LEMMA ServeRefreshKeeps == ASSUME Inv, ServeRefresh PROVE Inv'
  <1> DEFINE t == refresh.token
  <1>1. t \in Sessions /\ refresh.at = "sent" BY DEF ServeRefresh, Inv, Presents
  <1>2. UNCHANGED <<store, request, lapsed, account, excused, bounds>> BY DEF ServeRefresh
  <1>3. ASSUME NEW s \in Sessions, Fresh(s), Live(t), session' = Rotate(t, s),
               refresh' = [refresh EXCEPT !.at = "ok", !.new = s]
        PROVE  Inv'
    <2>1. /\ session' \in [Sessions -> Session] /\ session'[s].status = "live"
          /\ \A u \in Sessions : session'[u].status = "revoked" => session[u].status = "revoked"
      BY <1>1, <1>3 DEF Inv, TypeOK, Session, Rotate
    <2>2. refresh' \in Refresh /\ refresh'.at = "ok" /\ refresh'.new = s
      BY <1>3 DEF Inv, TypeOK, Refresh
    <2> QED BY <1>2, <2>1, <2>2
        DEF Inv, TypeOK, Presents, OneToken, Explained, Unspent, bounds
  <1>4. ASSUME refresh' = [refresh EXCEPT !.at = "refused"],
               \/ ~Live(t) /\ session' = Revoked(Chain(t))
               \/ account = "SUSPENDED" /\ UNCHANGED session
        PROVE  Inv'
    <2>1. /\ session' \in [Sessions -> Session]
          /\ \A u \in Sessions : \/ session'[u] = session[u]
                                 \/ Live(u) /\ session'[u].status = "revoked"
      BY <1>4, RevokedTyped DEF Inv, TypeOK
    <2>2. refresh' \in Refresh /\ refresh'.at = "refused"
      BY <1>4 DEF Inv, TypeOK, Refresh
    <2>3. faults = 0 => excused
      BY <1>1, <1>4 DEF Inv, OneToken, Explained, Unspent, Live
    <2>4. faults = 0 => OneToken'
      BY <1>1, <1>2, <2>1, <2>2 DEF Inv, OneToken, Unspent, Live
    <2> QED BY <1>2, <2>1, <2>2, <2>3, <2>4
        DEF Inv, TypeOK, Presents, Explained, bounds
  <1> QED BY <1>3, <1>4 DEF ServeRefresh

LEMMA DeliverRefreshKeeps == ASSUME Inv, DeliverRefresh PROVE Inv'
  <1>1. /\ request' \in [Requests -> Request]
        /\ \A q \in Requests : request'[q].at = "barred" => request[q].at = "barred"
    BY DEF Inv, TypeOK, DeliverRefresh, Resumed, Request, Answers, Refresh
  <1>2. store' = (IF refresh.at = "ok" THEN refresh.new ELSE 0) /\ refresh' = Settled
        /\ UNCHANGED <<session, lapsed, account, excused, bounds>>
    BY DEF DeliverRefresh
  <1>3. store' \in {0} \cup Sessions BY <1>2 DEF Inv, TypeOK, Refresh
  <1> QED BY <1>1, <1>2, <1>3, SettledTyped
      DEF Inv, TypeOK, Presents, OneToken, Explained, Unspent, bounds

LEMMA LoginKeeps == ASSUME Inv, Login PROVE Inv'
  <1> PICK s \in Sessions : /\ Fresh(s) /\ store' = s
                            /\ session' = [session EXCEPT ![s] = [status |-> "live",
                                                                  login |-> logins']]
    BY DEF Login
  <1>1. logins' \in Nat BY DEF Inv, TypeOK, Login
  <1>2. /\ session' \in [Sessions -> Session] /\ session'[s].status = "live"
        /\ \A u \in Sessions : session[u].status \in {"live", "revoked"} =>
               session'[u].status \in {"live", "revoked"}
        /\ \A u \in Sessions : session'[u].status = "revoked" => session[u].status = "revoked"
    BY <1>1 DEF Inv, TypeOK, Session
  <1> QED BY <1>1, <1>2 DEF Inv, TypeOK, Presents, OneToken, Explained, Unspent, Login

LEMMA ElsewhereKeeps ==
  ASSUME Inv, EndElsewhere \/ Suspend \/ (\E s \in Sessions : Lapse(s)) PROVE Inv'
  <1>1. CASE EndElsewhere
    <2>1. /\ session' \in [Sessions -> Session]
          /\ \A u \in Sessions : \/ session'[u] = session[u]
                                 \/ Live(u) /\ session'[u].status = "revoked"
      BY <1>1, RevokedTyped DEF EndElsewhere, Inv
    <2> QED BY <1>1, <2>1
        DEF EndElsewhere, Inv, TypeOK, Presents, OneToken, Explained, Unspent, Live, bounds
  <1>2. CASE Suspend
    BY <1>2 DEF Suspend, Inv, TypeOK, Presents, OneToken, Explained, Unspent, bounds
  <1>3. CASE \E s \in Sessions : Lapse(s)
    BY <1>3 DEF Lapse, Inv, TypeOK, Presents, OneToken, Explained, Unspent, bounds
  <1> QED BY <1>1, <1>2, <1>3

LEMMA FaultKeeps ==
  ASSUME Inv, (\E r \in Requests : Lose(r)) \/ LoseRefresh \/ Reload PROVE Inv'
  <1>1. faults' \in Nat /\ faults' # 0 BY DEF Lose, LoseRefresh, Reload, Fault, Inv, TypeOK
  <1>2. CASE \E r \in Requests : Lose(r)
    BY <1>1, <1>2 DEF Lose, Inv, TypeOK, Presents, Request, Answers
  <1>3. CASE LoseRefresh
    BY <1>1, <1>3 DEF LoseRefresh, Inv, TypeOK, Presents, Refresh
  <1>4. CASE Reload
    <2>1. request' \in [Requests -> Request] BY <1>4, OverTyped DEF Reload, Inv
    <2> QED BY <1>1, <1>4, <2>1, SettledTyped DEF Reload, Inv, TypeOK, Presents
  <1> QED BY <1>2, <1>3, <1>4

LEMMA NextKeeps == Inv /\ [Next]_vars => Inv'
  <1> SUFFICES ASSUME Inv, [Next]_vars PROVE Inv' OBVIOUS
  <1>1. CASE UNCHANGED vars
    BY <1>1 DEF vars, bounds, Inv, TypeOK, Presents, OneToken, Explained, Unspent
  <1>2. CASE Next
    BY <1>2, SendKeeps, ServeKeeps, DeliverKeeps, BarKeeps, QueueRefreshKeeps, ServeRefreshKeeps,
       DeliverRefreshKeeps, LoginKeeps, ElsewhereKeeps, FaultKeeps DEF Next, Answered
  <1> QED BY <1>1, <1>2

LEMMA Invariance == Spec => []Inv
  BY InitHolds, NextKeeps, PTL DEF Spec

-----------------------------------------------------------------------------
(* The state of the tab and of the API keeps its types.                    *)
THEOREM WebTypeCorrect == Spec => []TypeOK
  BY Invariance, PTL DEF Inv

(* While no answer is lost the shared refresh never presents a token that  *)
(* was rotated, however many requests are denied and whenever.             *)
THEOREM RefreshNeverReuses == Spec => []NeverReuses
  <1>1. Inv => NeverReuses BY DEF Inv, OneToken, Unspent, NeverReuses
  <1> QED BY <1>1, Invariance, PTL

(* While no answer is lost a tab is signed out only by its user, or since  *)
(* something else ended its session or barred its account.                 *)
THEOREM OnlyTheUserSignsOut == Spec => StaysSignedIn
  <1> DEFINE Kept == faults' = 0 /\ store # 0 /\ store' = 0
                       => excused \/ \E r \in OnWay : request[r].signOut
  <1>1. Inv /\ [Next]_vars => [Kept]_vars
    <2> SUFFICES ASSUME Inv, Next, faults' = 0, store # 0, store' = 0, ~excused
                 PROVE  \E r \in OnWay : request[r].signOut
      OBVIOUS
    <2>1. ASSUME NEW r \in Requests, Answered(r) PROVE \E q \in OnWay : request[q].signOut
      <3>1. ~Serve(r) /\ ~QueueRefresh(r) BY DEF Serve, QueueRefresh
      <3>2. CASE Deliver(r) BY <3>2 DEF Deliver, Clears, OnWay
      <3>3. CASE Bar(r)
        <4>1. faults = 0 BY <3>3 DEF Bar, bounds
        <4> QED BY <3>3, <4>1 DEF Bar, Inv, Explained
      <3> QED BY <2>1, <3>1, <3>2, <3>3 DEF Answered
    <2>2. ~DeliverRefresh
      <3>1. SUFFICES ASSUME DeliverRefresh PROVE FALSE OBVIOUS
      <3>2. faults = 0 BY <3>1 DEF DeliverRefresh, bounds
      <3>3. CASE refresh.at = "ok"
        <4>1. refresh.new \in Sessions BY <3>2, <3>3 DEF Inv, OneToken, Unspent
        <4> QED BY <3>1, <3>3, <4>1, WebConstants DEF DeliverRefresh, Sessions
      <3> QED BY <3>1, <3>2, <3>3 DEF DeliverRefresh, Inv, Explained
    <2>3. ~Login BY DEF Login
    <2>4. ASSUME NEW r \in Requests PROVE ~Lose(r) /\ \A out \in BOOLEAN : ~Send(r, out)
      BY DEF Lose, Send
    <2>5. /\ ~ServeRefresh /\ ~LoseRefresh /\ ~EndElsewhere /\ ~Suspend /\ ~Reload
          /\ \A s \in Sessions : ~Lapse(s)
      BY DEF ServeRefresh, LoseRefresh, EndElsewhere, Suspend, Reload, Lapse
    <2> QED BY <2>1, <2>2, <2>3, <2>4, <2>5 DEF Next
  <1> QED BY <1>1, Invariance, PTL DEF Spec, StaysSignedIn
=============================================================================
