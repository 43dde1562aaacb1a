-------------------------- MODULE AuthSessionsProofs --------------------------
(***************************************************************************)
(* For any number of requests at a time, challenges, sessions and crashes: *)
(* the rows keep their types and a code starts one session.  One request   *)
(* at a time: what ended a chain of sessions ended it.                     *)
(*                                                                         *)
(* OneSessionPerCode is not inductive: that a session of the code exists   *)
(* is forgotten by then.  Spent adds what a request carries between the    *)
(* consumption of its code and its session: the code is consumed, has no   *)
(* session yet, and no other request carries it.                           *)
(***************************************************************************)
EXTENDS AuthSessions, FiniteSetTheorems, TLAPS

Carries(c, k) == call[c].at = "issue" /\ call[c].code = k

Chained(s)  == s \in Sessions /\ session[s].family \in Sessions
ChainsTyped == \A s \in Sessions : session[s].status # "none" => Chained(s)
SlotsTyped  == \A c \in Calls : /\ call[c].at \in {"reuse", "revoke"} => call[c].family \in Sessions
                                /\ call[c].at \in {"renew", "rotate"} => call[c].code = 0
                                /\ call[c].at \in {"renew", "rotate", "revoke"}
                                     => Chained(call[c].session)
SessionsSpent == \A s, t \in Sessions, k \in Codes :
    session[s].code = k => /\ code[k].status = "consumed"
                           /\ session[t].code = k => t = s
SlotsSpent == \A c, d \in Calls, k \in Codes :
    Carries(c, k) => /\ code[k].status = "consumed"
                     /\ Carries(d, k) => d = c
                     /\ \A s \in Sessions : session[s].code # k
Spent == SessionsSpent /\ SlotsSpent
Inv == TypeOK /\ ChainsTyped /\ SlotsTyped /\ Spent

(* What a revocation, an expiry or a logout leaves of the sessions.        *)
SameChains == /\ session' \in [Sessions -> Session]
              /\ \A s \in Sessions : /\ session'[s].code = session[s].code
                                     /\ session'[s].family = session[s].family
                                     /\ session[s].status = "none" =>
                                          session'[s].status = "none" \/ Chained(s)
(* A session that is in a chain stays in one.                              *)
ChainsStay == \A s \in Sessions : Chained(s) => Chained(s)'
(* No code is used again, and no request starts to carry one.              *)
NoCodeMoves ==
    /\ code' \in [Codes -> Code]
    /\ \A k \in Codes : code[k].status = "consumed" => code'[k].status = "consumed"
    /\ \A c \in Calls, k \in Codes : Carries(c, k)' => Carries(c, k)

LEMMA SpentKept == ASSUME Inv, SameChains, NoCodeMoves PROVE Spent'
  BY DEF Inv, Spent, SessionsSpent, SlotsSpent, SameChains, NoCodeMoves

LEMMA RevokedKeeps ==
  ASSUME Inv, NEW S, session' = Revoked(S) PROVE SameChains
  BY DEF Inv, TypeOK, Session, Revoked, SameChains

LEMMA ChainsKept == ASSUME Inv, SameChains PROVE ChainsTyped'
  BY DEF Inv, ChainsTyped, SameChains, Chained

LEMMA ChainsStaying == ASSUME Inv, SameChains PROVE ChainsStay
  BY DEF SameChains, ChainsStay, Chained

(* A request that leaves, or one that goes on without a code.              *)
LEMMA SlotLeaves ==
  ASSUME Inv, ChainsStay, NEW c \in Calls, Ends(c)
  PROVE  /\ call' \in [Calls -> Slot] /\ SlotsTyped'
         /\ \A d \in Calls, k \in Codes : Carries(d, k)' => Carries(d, k)
  BY DEF Inv, TypeOK, SlotsTyped, Chained, ChainsStay, Carries, Ends, Idle, Slot

LEMMA SlotBegins ==
  ASSUME Inv, ChainsStay, NEW c \in Calls, NEW s \in Slot, Begins(c, s), s.at # "issue",
         s.at \in {"reuse", "revoke"} => s.family \in Sessions,
         s.at \in {"renew", "rotate"} => s.code = 0,
         s.at \in {"renew", "rotate", "revoke"} => Chained(s.session)
  PROVE  /\ call' \in [Calls -> Slot] /\ SlotsTyped'
         /\ \A d \in Calls, k \in Codes : Carries(d, k)' => Carries(d, k)
  BY DEF Inv, TypeOK, SlotsTyped, Chained, ChainsStay, Carries, Begins

LEMMA SlotStays ==
  ASSUME Inv, ChainsStay, UNCHANGED call
  PROVE  /\ call' \in [Calls -> Slot] /\ SlotsTyped'
         /\ \A d \in Calls, k \in Codes : Carries(d, k)' => Carries(d, k)
  BY DEF Inv, TypeOK, SlotsTyped, Chained, ChainsStay, Carries

(* The parts of Inv when neither codes nor chains of sessions move.        *)
LEMMA Kept ==
  ASSUME Inv, SameChains, code' \in [Codes -> Code],
         \A k \in Codes : code[k].status = "consumed" => code'[k].status = "consumed",
         call' \in [Calls -> Slot], SlotsTyped',
         \A d \in Calls, k \in Codes : Carries(d, k)' => Carries(d, k),
         account' \in {"ACTIVE", "SUSPENDED"}, ended' \subseteq Sessions,
         crashes' \in Nat, scope' = scope
  PROVE  Inv'
  <1>1. Spent' BY SpentKept DEF NoCodeMoves
  <1>2. TypeOK' BY DEF Inv, TypeOK, SameChains
  <1> QED BY <1>1, <1>2, ChainsKept DEF Inv

LEMMA NothingMoves == ASSUME Inv, UNCHANGED <<code, session>>
  PROVE /\ SameChains /\ ChainsStay /\ code' \in [Codes -> Code]
        /\ \A k \in Codes : code[k].status = "consumed" => code'[k].status = "consumed"
  BY DEF Inv, TypeOK, SameChains, ChainsStay, Chained

-----------------------------------------------------------------------------
(* What a request is when it starts.                                       *)
Fair(s) == /\ s \in Slot /\ s.at # "issue"
           /\ s.at \in {"reuse", "revoke"} => s.family \in Sessions
           /\ s.at \in {"renew", "rotate"} => s.code = 0
           /\ s.at \in {"renew", "rotate", "revoke"} => Chained(s.session)

LEMMA RequestKeeps ==
  ASSUME Inv, NEW c \in Calls, NEW s, Fair(s), Begins(c, s),
         UNCHANGED <<account, code, session, ended, rest>>
  PROVE  Inv'
  <1>1. SameChains /\ code' \in [Codes -> Code]
        /\ \A k \in Codes : code[k].status = "consumed" => code'[k].status = "consumed"
    BY NothingMoves
  <1>2. /\ call' \in [Calls -> Slot] /\ SlotsTyped'
        /\ \A d \in Calls, k \in Codes : Carries(d, k)' => Carries(d, k)
    BY SlotBegins, NothingMoves DEF Fair
  <1>3. account' \in {"ACTIVE", "SUSPENDED"} /\ ended' \subseteq Sessions
        /\ crashes' \in Nat /\ scope' = scope
    BY DEF Inv, TypeOK, rest
  <1> QED BY <1>1, <1>2, <1>3, Kept

LEMMA Requests == ASSUME Inv, NEW c \in Calls, Receives(c) PROVE Inv'
  <1>1. CASE RequestOtp(c)
    <2>1. Fair([Idle EXCEPT !.at = "send"]) BY DEF Fair, Idle, Slot
    <2> QED BY <1>1, <2>1, RequestKeeps DEF RequestOtp
  <1>2. ASSUME NEW k \in Codes, NEW right \in BOOLEAN, VerifyOtp(c, k, right) PROVE Inv'
    <2>1. Fair([Idle EXCEPT !.at = IF right THEN "consume" ELSE "miss", !.code = k])
      BY DEF Fair, Idle, Slot
    <2> QED BY <1>2, <2>1, RequestKeeps DEF VerifyOtp
  <1>3. ASSUME NEW s \in Sessions, Refresh(c, s) PROVE Inv'
    <2>1. session[s].family \in Sessions BY <1>3 DEF Inv, ChainsTyped, Chained, Refresh
    <2>2. Fair([Idle EXCEPT !.at = IF Fresh(s) THEN "renew" ELSE "reuse",
                            !.session = s, !.family = session[s].family])
      BY <2>1 DEF Fair, Chained, Idle, Slot
    <2> QED BY <1>3, <2>2, RequestKeeps DEF Refresh
  <1>4. ASSUME NEW s \in Sessions, RevokeRead(c, s) PROVE Inv'
    <2>1. session[s].family \in Sessions BY <1>4 DEF Inv, ChainsTyped, Chained, RevokeRead
    <2>2. Fair([Idle EXCEPT !.at = "revoke", !.session = s, !.family = session[s].family])
      BY <2>1 DEF Fair, Chained, Idle, Slot
    <2> QED BY <1>4, <2>2, RequestKeeps DEF RevokeRead
  <1> QED BY <1>1, <1>2, <1>3, <1>4 DEF Receives

-----------------------------------------------------------------------------
LEMMA Challenges == ASSUME Inv, NEW c \in Calls, SendCode(c) \/ MissCode(c) PROVE Inv'
  <1>1. /\ code' \in [Codes -> Code]
        /\ \A k \in Codes : code[k].status = "consumed" => code'[k].status = "consumed"
    <2>1. CASE SendCode(c)
      <3>1. PICK k \in Codes : code[k].status = "none" /\ code' = [code EXCEPT ![k].status = "open"]
        BY <2>1 DEF SendCode
      <3> QED BY <3>1 DEF Inv, TypeOK, Code
    <2>2. CASE MissCode(c)
      <3> DEFINE k == call[c].code
      <3>1. code' = [code EXCEPT ![k].attempts = @ + 1] BY <2>2 DEF MissCode
      <3>2. CASE k \in Codes BY <3>1, <3>2 DEF Inv, TypeOK, Code
      <3>3. CASE k \notin Codes
        <4>1. code' = code BY <3>1, <3>3 DEF Inv, TypeOK
        <4> QED BY <4>1 DEF Inv, TypeOK
      <3> QED BY <3>2, <3>3
    <2> QED BY <2>1, <2>2
  <1>2. UNCHANGED <<account, session, ended, rest>> /\ Ends(c) BY DEF SendCode, MissCode
  <1>3. SameChains BY <1>2 DEF Inv, TypeOK, SameChains
  <1>4. account' \in {"ACTIVE", "SUSPENDED"} /\ ended' \subseteq Sessions
        /\ crashes' \in Nat /\ scope' = scope
    BY <1>2 DEF Inv, TypeOK, rest
  <1> QED BY <1>1, <1>2, <1>3, <1>4, ChainsStaying, SlotLeaves, Kept

(* The code was open or expired: nobody carries it and no session has it.  *)
LEMMA Consumption == ASSUME Inv, NEW c \in Calls, ConsumeCode(c) PROVE Inv'
  <1> DEFINE k == call[c].code
  <1>1. CASE Unused(k)
    <2>1. call[c].at = "consume" /\ code' = [code EXCEPT ![k].status = "consumed"]
          /\ call' = [call EXCEPT ![c].at = "issue"]
          /\ UNCHANGED <<account, session, ended, rest>>
      BY <1>1 DEF ConsumeCode, Goes
    <2>2. TypeOK'
      <3>1. code' \in [Codes -> Code]
        <4>1. \A j \in Codes : [code[j] EXCEPT !.status = "consumed"] \in Code
          BY DEF Inv, TypeOK, Code
        <4> QED BY <2>1, <4>1 DEF Inv, TypeOK
      <3>2. call' \in [Calls -> Slot] BY <2>1 DEF Inv, TypeOK, Slot
      <3> QED BY <2>1, <3>1, <3>2 DEF Inv, TypeOK, rest
    <2>3. ChainsTyped' BY <2>1 DEF Inv, ChainsTyped, Chained
    <2>4. SlotsTyped' BY <2>1 DEF Inv, TypeOK, SlotsTyped, Chained
    <2>5. SessionsSpent' BY <2>1 DEF Inv, TypeOK, Spent, SessionsSpent
    <2>6. \A s \in Sessions, j \in Codes : j = k => session[s].code # j
      BY <1>1 DEF Inv, Spent, SessionsSpent, Unused
    <2>7. \A d \in Calls, j \in Codes : j = k => ~ Carries(d, j)
      BY <1>1 DEF Inv, Spent, SlotsSpent, Unused
    <2>8. \A d \in Calls, j \in Codes : Carries(d, j)' <=> Carries(d, j) \/ (d = c /\ j = k)
      BY <2>1 DEF Carries, Inv, TypeOK
    <2>9. \A j \in Codes : code'[j].status = IF j = k THEN "consumed" ELSE code[j].status
      BY <2>1 DEF Inv, TypeOK
    <2> HIDE DEF k
    <2>10. SlotsSpent'
      <3> SUFFICES ASSUME NEW d \in Calls, NEW e \in Calls, NEW j \in Codes, Carries(d, j)'
                   PROVE  /\ code'[j].status = "consumed" /\ (Carries(e, j)' => e = d)
                          /\ \A s \in Sessions : session'[s].code # j
        BY DEF SlotsSpent
      <3>1. CASE j = k BY <2>1, <2>6, <2>7, <2>8, <2>9, <3>1
      <3>2. CASE j # k BY <2>1, <2>8, <2>9, <3>2 DEF Inv, Spent, SlotsSpent
      <3> QED BY <3>1, <3>2
    <2> QED BY <2>2, <2>3, <2>4, <2>5, <2>10 DEF Inv, Spent
  <1>2. CASE ~ Unused(k)
    <2>1. UNCHANGED <<account, code, session, ended, rest>> /\ Ends(c)
      BY <1>2 DEF ConsumeCode
    <2>2. account' \in {"ACTIVE", "SUSPENDED"} /\ ended' \subseteq Sessions
          /\ crashes' \in Nat /\ scope' = scope
      BY <2>1 DEF Inv, TypeOK, rest
    <2> QED BY <2>1, <2>2, NothingMoves, SlotLeaves, Kept
  <1> QED BY <1>1, <1>2

(* The session gets the code its request carried, and the request leaves.  *)
LEMMA Issue == ASSUME Inv, NEW c \in Calls, IssueTokens(c) PROVE Inv'
  <1> DEFINE k == call[c].code
  <1>1. PICK s \in Sessions : session' = [session EXCEPT ![s] = Issued(s, call[c].family, k)]
    BY DEF IssueTokens
  <1>2. call[c].at = "issue" /\ Ends(c) /\ UNCHANGED <<account, code, ended, rest>>
    BY DEF IssueTokens
  <1>3. Issued(s, call[c].family, k) \in Session
        /\ Issued(s, call[c].family, k).family \in Sessions
        /\ Issued(s, call[c].family, k).code = k
    BY DEF Issued, Session, Inv, TypeOK, Slot
  <1>4. ChainsStay BY <1>1, <1>3 DEF ChainsStay, Chained, Inv, TypeOK
  <1>5. call' \in [Calls -> Slot] /\ SlotsTyped' BY <1>2, <1>4, SlotLeaves
  <1>6. TypeOK' BY <1>1, <1>2, <1>5, <1>3 DEF Inv, TypeOK, rest
  <1>7. ChainsTyped' BY <1>1, <1>3 DEF Inv, TypeOK, ChainsTyped, Chained
  <1>8. \A t \in Sessions : session'[t].code = IF t = s THEN k ELSE session[t].code
    BY <1>1, <1>3 DEF Inv, TypeOK
  <1>9. \A d \in Calls, j \in Codes : Carries(d, j)' <=> Carries(d, j) /\ d # c
    BY <1>2 DEF Carries, Ends, Idle, Inv, TypeOK
  <1>10. \A j \in Codes : j = k => Carries(c, j) BY <1>2 DEF Carries
  <1> HIDE DEF k
  <1>11. SessionsSpent'
    <2> SUFFICES ASSUME NEW t \in Sessions, NEW u \in Sessions, NEW j \in Codes,
                        session'[t].code = j
                 PROVE  code'[j].status = "consumed" /\ (session'[u].code = j => u = t)
      BY DEF SessionsSpent
    <2>1. CASE j = k BY <1>2, <1>8, <1>10, <2>1 DEF Inv, Spent, SlotsSpent
    <2>2. CASE j # k BY <1>2, <1>8, <2>2 DEF Inv, Spent, SessionsSpent
    <2> QED BY <2>1, <2>2
  <1>12. SlotsSpent'
    <2> SUFFICES ASSUME NEW d \in Calls, NEW e \in Calls, NEW j \in Codes, Carries(d, j)'
                 PROVE  /\ code'[j].status = "consumed" /\ (Carries(e, j)' => e = d)
                        /\ \A t \in Sessions : session'[t].code # j
      BY DEF SlotsSpent
    <2>1. Carries(d, j) /\ d # c BY <1>9
    <2>2. j # k BY <1>10, <2>1 DEF Inv, Spent, SlotsSpent
    <2> QED BY <1>2, <1>8, <1>9, <2>1, <2>2 DEF Inv, Spent, SlotsSpent
  <1> QED BY <1>5, <1>6, <1>7, <1>11, <1>12 DEF Inv, Spent

-----------------------------------------------------------------------------
LEMMA Revocations ==
  ASSUME Inv, NEW c \in Calls, EndFamily(c) \/ RevokeWrite(c) PROVE Inv'
  <1>1. SameChains
    <2>1. CASE EndFamily(c) BY <2>1, RevokedKeeps DEF EndFamily
    <2>2. CASE RevokeWrite(c)
      <3>1. Chained(call[c].session) BY <2>2 DEF RevokeWrite, Inv, SlotsTyped
      <3> QED BY <2>2, <3>1 DEF RevokeWrite, SameChains, Chained, Inv, TypeOK, Session
    <2> QED BY <2>1, <2>2
  <1>2. UNCHANGED <<account, code, rest>> /\ Ends(c) /\ ended' = ended \cup {call[c].family}
    BY DEF EndFamily, RevokeWrite
  <1>3. call[c].family \in Sessions BY DEF EndFamily, RevokeWrite, Inv, SlotsTyped
  <1>4. account' \in {"ACTIVE", "SUSPENDED"} /\ ended' \subseteq Sessions
        /\ crashes' \in Nat /\ scope' = scope
        /\ code' \in [Codes -> Code]
        /\ \A k \in Codes : code[k].status = "consumed" => code'[k].status = "consumed"
    BY <1>2, <1>3 DEF Inv, TypeOK, rest
  <1> QED BY <1>1, <1>2, <1>4, ChainsStaying, SlotLeaves, Kept

(* A rotation carries no code into the issue it goes on to.                *)
LEMMA Rotation == ASSUME Inv, NEW c \in Calls, AskAccount(c) \/ Rotate(c) PROVE Inv'
  <1>1. SameChains
    <2>1. CASE AskAccount(c) BY <2>1 DEF AskAccount, SameChains, Inv, TypeOK
    <2>2. CASE Rotate(c)
      <3>1. Chained(call[c].session) BY <2>2 DEF Rotate, Inv, SlotsTyped
      <3> QED BY <2>2, <3>1 DEF Rotate, SameChains, Chained, Inv, TypeOK, Session
    <2> QED BY <2>1, <2>2
  <1>5. ChainsStay BY <1>1, ChainsStaying
  <1>2. UNCHANGED <<account, code, ended, rest>> BY DEF AskAccount, Rotate
  <1>3. /\ call' \in [Calls -> Slot] /\ SlotsTyped'
        /\ \A d \in Calls, k \in Codes : Carries(d, k)' => Carries(d, k)
    <2>1. CASE Ends(c) BY <1>5, <2>1, SlotLeaves
    <2>2. CASE AskAccount(c) /\ Goes(c, "rotate")
      BY <1>5, <2>2 DEF AskAccount, Goes, Inv, TypeOK, SlotsTyped, Chained, ChainsStay, Carries, Slot
    <2>3. CASE Rotate(c)
      <3>1. call[c].at = "rotate" /\ call[c].code = 0 /\ call' = [call EXCEPT ![c].at = "issue"]
        BY <2>3 DEF Rotate, Goes, Inv, SlotsTyped
      <3>2. \A k \in Codes : k # 0 BY AuthConstants DEF Codes
      <3>3. call' \in [Calls -> Slot] BY <3>1 DEF Inv, TypeOK, Slot
      <3>4. SlotsTyped' BY <1>5, <3>1 DEF Inv, TypeOK, SlotsTyped, Chained, ChainsStay
      <3>5. \A d \in Calls, k \in Codes : Carries(d, k)' => Carries(d, k)
        BY <3>1, <3>2 DEF Inv, TypeOK, Carries
      <3> QED BY <3>3, <3>4, <3>5
    <2> QED BY <2>1, <2>2, <2>3 DEF AskAccount
  <1>4. account' \in {"ACTIVE", "SUSPENDED"} /\ ended' \subseteq Sessions
        /\ crashes' \in Nat /\ scope' = scope
        /\ code' \in [Codes -> Code]
        /\ \A k \in Codes : code[k].status = "consumed" => code'[k].status = "consumed"
    BY <1>2 DEF Inv, TypeOK, rest
  <1> QED BY <1>1, <1>3, <1>4, Kept

LEMMA Account ==
  ASSUME Inv, (\E S \in SUBSET Live : Logout(S)) \/ Suspend \/ Reinstate PROVE Inv'
  <1>1. SameChains
    <2>1. CASE \E S \in SUBSET Live : Logout(S) BY <2>1, RevokedKeeps DEF Logout
    <2>2. CASE Suspend BY <2>2, RevokedKeeps DEF Suspend
    <2>3. CASE Reinstate BY <2>3 DEF Reinstate, SameChains, Inv, TypeOK
    <2> QED BY <2>1, <2>2, <2>3
  <1>2. UNCHANGED <<code, call, rest>> /\ account' \in {"ACTIVE", "SUSPENDED"}
    BY DEF Logout, Suspend, Reinstate, Inv, TypeOK
  <1>3. ended' \subseteq Sessions
    <2>1. ASSUME NEW S \in SUBSET Live, Logout(S) PROVE ended' \subseteq Sessions
      BY <2>1 DEF Logout, Live, Made, Inv, TypeOK, ChainsTyped, Chained
    <2>2. CASE Suspend BY <2>2 DEF Suspend, Families, Made, Inv, TypeOK, ChainsTyped, Chained
    <2>3. CASE Reinstate BY <2>3 DEF Reinstate, Inv, TypeOK
    <2> QED BY <2>1, <2>2, <2>3
  <1>4. crashes' \in Nat /\ scope' = scope /\ code' \in [Codes -> Code]
        /\ \A k \in Codes : code[k].status = "consumed" => code'[k].status = "consumed"
    BY <1>2 DEF Inv, TypeOK, rest
  <1> QED BY <1>1, <1>2, <1>3, <1>4, ChainsStaying, SlotStays, Kept

LEMMA Passing == ASSUME Inv, Expire PROVE Inv'
  <1>1. /\ SameChains /\ code' \in [Codes -> Code]
        /\ \A k \in Codes : code[k].status = "consumed" => code'[k].status = "consumed"
    <2>1. ASSUME NEW k \in OpenCodes, code' = [code EXCEPT ![k].status = "expired"],
                 UNCHANGED session
          PROVE  <1>1!:
      BY <2>1 DEF OpenCodes, SameChains, Inv, TypeOK, Code
    <2>2. ASSUME NEW s \in Live, session' = [session EXCEPT ![s].status = "expired"],
                 UNCHANGED code
          PROVE  <1>1!:
      BY <2>2 DEF Live, Made, SameChains, Inv, TypeOK, Session
    <2> QED BY <2>1, <2>2 DEF Expire
  <1>2. UNCHANGED <<account, ended, call, rest>> BY DEF Expire
  <1>3. account' \in {"ACTIVE", "SUSPENDED"} /\ ended' \subseteq Sessions
        /\ crashes' \in Nat /\ scope' = scope
    BY <1>2 DEF Inv, TypeOK, rest
  <1> QED BY <1>1, <1>2, <1>3, ChainsStaying, SlotStays, Kept

LEMMA Deaths == ASSUME Inv, NEW c \in Calls, Crash(c) PROVE Inv'
  <1>1. Ends(c) /\ UNCHANGED <<account, code, session, ended, scope>> /\ crashes' \in Nat
    BY DEF Crash, Inv, TypeOK
  <1>2. account' \in {"ACTIVE", "SUSPENDED"} /\ ended' \subseteq Sessions
    BY <1>1 DEF Inv, TypeOK
  <1> QED BY <1>1, <1>2, NothingMoves, SlotLeaves, Kept

-----------------------------------------------------------------------------
LEMMA InitInv == Init => Inv
  <1> SUFFICES ASSUME Init PROVE Inv OBVIOUS
  <1>1. TypeOK BY DEF Init, TypeOK, Code, Session, Slot, Idle
  <1>2. ChainsTyped BY DEF Init, ChainsTyped
  <1>3. SlotsTyped BY DEF Init, SlotsTyped, Idle
  <1>4. \A k \in Codes : k # 0 BY AuthConstants DEF Codes
  <1>5. SessionsSpent BY <1>4 DEF Init, SessionsSpent
  <1>6. SlotsSpent BY DEF Init, SlotsSpent, Carries, Idle
  <1> QED BY <1>1, <1>2, <1>3, <1>5, <1>6 DEF Inv, Spent

LEMMA StepInv == Inv /\ [Next]_vars => Inv'
  <1> SUFFICES ASSUME Inv, [Next]_vars PROVE Inv' OBVIOUS
  <1>1. ASSUME NEW c \in Calls, Receives(c) PROVE Inv' BY <1>1, Requests
  <1>2. ASSUME NEW c \in Calls, Steps(c) PROVE Inv'
    BY <1>2, Challenges, Consumption, Issue, Revocations, Rotation DEF Steps
  <1>3. ASSUME NEW c \in Calls, Crash(c) PROVE Inv' BY <1>3, Deaths
  <1>4. CASE UNCHANGED vars
    BY <1>4, NothingMoves, SlotStays, Kept DEF vars, Inv, TypeOK
  <1> QED BY <1>1, <1>2, <1>3, <1>4, Account, Passing DEF Next

LEMMA OneSession == Inv => OneSessionPerCode
  <1> SUFFICES ASSUME Inv, NEW k \in Codes
               PROVE  Cardinality({s \in Sessions : session[s].code = k}) <= 1
    BY DEF OneSessionPerCode
  <1> DEFINE S == {s \in Sessions : session[s].code = k}
  <1>1. CASE S = {} BY <1>1, FS_EmptySet
  <1>2. ASSUME NEW s \in S PROVE S = {s} BY DEF Inv, Spent, SessionsSpent
  <1>3. ASSUME NEW s \in S PROVE Cardinality(S) = 1
    <2>1. Cardinality({s}) = 1 BY FS_Singleton
    <2> QED BY <1>2, <1>3, <2>1
  <1> QED BY <1>1, <1>3

(* Every row, and what every request carries, keeps its type.              *)
THEOREM SessionsTypeCorrect == Spec => []TypeOK
  <1>1. Inv => TypeOK BY DEF Inv
  <1> QED BY <1>1, InitInv, StepInv, PTL DEF Spec

(* However many requests verify one code at once, whichever of them dies,  *)
(* and whether or not it expires under them, the consumption of verifyOtp  *)
(* lets one session start from it.                                         *)
THEOREM CodeStartsOneSession == Spec => []OneSessionPerCode
  BY InitInv, StepInv, OneSession, PTL DEF Spec

-----------------------------------------------------------------------------
(* One request at a time.  That a revocation stands is not inductive       *)
(* either: a chain has one session that is not revoked (OneStands), what a *)
(* request read of it still holds (SlotGood), and an ended chain was       *)
(* begun (ChainsBegun), so that no new one takes its name.                 *)
Working(c) == call[c].at # "idle"
OneAtATime == \A c, d \in Calls : Working(c) /\ Working(d) => c = d

Began(s)  == session[s].status # "none"
Stands(s) == session[s].status \in {"live", "expired"}
OneStands == \A s, t \in Sessions : Stands(s) /\ Stands(t) /\ session[s].family = session[t].family
                 => s = t
ChainsBegun == /\ \A s \in Sessions : Began(s) => Began(session[s].family)
               /\ \A f \in ended : Began(f)
Shut == /\ \A s \in Sessions : session[s].status = "live" => session[s].family \notin ended
        /\ account = "SUSPENDED" => \A s \in Sessions : session[s].status # "live"
SlotGood(x) ==
    /\ x.at \in {"renew", "rotate", "revoke"} => Stands(x.session) /\ session[x.session].family = x.family
    /\ x.at \in {"renew", "rotate", "issue"} => x.family \notin ended
    /\ x.at \in {"renew", "rotate", "issue", "reuse", "revoke"} /\ x.family # 0 => Began(x.family)
    /\ x.at = "issue" => \A s \in Sessions : Stands(s) => session[s].family # x.family
    /\ x.at \in {"consume", "rotate", "issue"} => account = "ACTIVE"
    /\ x.at = "consume" => x.family = 0
SlotsGood == \A c \in Calls : SlotGood(call[c])
SerialFits == OneAtATime /\ OneStands /\ ChainsBegun /\ Shut /\ SlotsGood
SessionsInv == Inv /\ (scope.width = 1 => SerialFits)

Moves(c) == \A d \in Calls \ {c} : call'[d] = call[d]
Alone(c) == \A d \in Calls \ {c} : call'[d] = call[d] /\ ~Working(d)
Puts(c, x) == call' = [call EXCEPT ![c] = x]

LEMMA IdleTyped == Idle \in Slot /\ Idle.at = "idle" /\ Idle.family = 0
  BY DEF Idle, Slot

LEMMA NoneWorks ==
  ASSUME Inv, OneAtATime, scope.width = 1, Room, NEW d \in Calls PROVE ~Working(d)
  <1>1. SUFFICES ASSUME Working(d) PROVE FALSE OBVIOUS
  <1>2. Busy = {d} BY <1>1 DEF Busy, OneAtATime, Working
  <1>3. Cardinality({d}) = 1 BY FS_Singleton
  <1> QED BY <1>2, <1>3 DEF Room

LEMMA Putting ==
  ASSUME Inv, NEW c \in Calls, NEW x \in Slot, Puts(c, x) PROVE call'[c] = x /\ Moves(c)
  BY DEF Inv, TypeOK, Puts, Moves

LEMMA BegunAlone ==
  ASSUME Inv, OneAtATime, scope.width = 1, NEW c \in Calls, NEW x \in Slot, Begins(c, x)
  PROVE  Alone(c) /\ call'[c] = x
  <1>1. call'[c] = x /\ Moves(c) BY Putting DEF Begins, Puts
  <1>2. \A d \in Calls : ~Working(d) BY NoneWorks DEF Begins
  <1> QED BY <1>1, <1>2 DEF Alone, Moves

LEMMA WorksAlone ==
  ASSUME Inv, OneAtATime, NEW c \in Calls, Working(c), NEW x \in Slot, Puts(c, x)
  PROVE  Alone(c) /\ call'[c] = x
  <1>1. call'[c] = x /\ Moves(c) BY Putting
  <1> QED BY <1>1 DEF OneAtATime, Moves, Alone

LEMMA IdleGood == ASSUME NEW x, x.at = "idle" PROVE SlotGood(x)'
  BY DEF SlotGood

LEMMA AloneFits ==
  ASSUME OneAtATime, NEW c \in Calls, Alone(c), NEW y, y = call'[c], SlotGood(y)',
         OneStands', ChainsBegun', Shut'
  PROVE  SerialFits'
  <1>1. OneAtATime' BY DEF OneAtATime, Alone, Working
  <1>2. SlotsGood'
    <2> SUFFICES ASSUME NEW d \in Calls, NEW x, x = call'[d] PROVE SlotGood(x)' BY DEF SlotsGood
    <2>1. CASE d = c BY <2>1
    <2>2. CASE d # c
      <3>1. x.at = "idle" BY <2>2 DEF Alone, Working
      <3> QED BY <3>1, IdleGood
    <2> QED BY <2>1, <2>2
  <1> QED BY <1>1, <1>2 DEF SerialFits

LEMMA EndFits ==
  ASSUME Inv, SerialFits, NEW c \in Calls, Working(c), Ends(c),
         OneStands', ChainsBegun', Shut'
  PROVE  SerialFits'
  <1>1. Puts(c, Idle) BY DEF Ends, Puts
  <1>2. Alone(c) /\ call'[c] = Idle BY <1>1, IdleTyped, WorksAlone DEF SerialFits
  <1>3. PICK y : y = call'[c] /\ y.at = "idle" BY <1>2, IdleTyped
  <1>4. SlotGood(y)' BY <1>3, IdleGood
  <1> QED BY <1>2, <1>3, <1>4, AloneFits DEF SerialFits

-----------------------------------------------------------------------------
(* A step that begins no session and brings none back. *)
Quiet == \A s \in Sessions : /\ session'[s].family = session[s].family
                             /\ Stands(s)' => Stands(s)
                             /\ session'[s].status = "live" => session[s].status = "live"
                             /\ Began(s)' <=> Began(s)

LEMMA QuietChains ==
  ASSUME Inv, SerialFits, Quiet, \A f \in ended' \ ended : f \in Sessions /\ Began(f)
  PROVE  OneStands' /\ ChainsBegun'
  <1>1. \A s \in Sessions : Began(s) => session[s].family \in Sessions
    BY DEF Inv, ChainsTyped, Chained, Began
  <1>2. OneStands' BY DEF SerialFits, OneStands, Quiet
  <1>3. \A f \in ended' : Began(f)'
    <2>1. ended \subseteq Sessions BY DEF Inv, TypeOK
    <2> QED BY <2>1 DEF SerialFits, ChainsBegun, Quiet
  <1>4. ASSUME NEW s \in Sessions, Began(s)', NEW f, f = session'[s].family PROVE Began(f)'
    <2>1. f = session[s].family BY <1>4 DEF Quiet
    <2>2. Began(f) /\ f \in Sessions BY <1>1, <1>4, <2>1 DEF SerialFits, ChainsBegun, Quiet
    <2> QED BY <2>2 DEF Quiet
  <1>5. \A s \in Sessions : Began(s)' => Began(session[s].family)' BY <1>4 DEF Began
  <1> QED BY <1>2, <1>3, <1>5 DEF ChainsBegun

LEMMA QuietShut ==
  ASSUME Shut, Quiet, UNCHANGED <<account, ended>> PROVE Shut'
  BY DEF Shut, Quiet

LEMMA StillQuiet ==
  ASSUME Inv, SerialFits, UNCHANGED <<account, session, ended>>
  PROVE  Quiet /\ OneStands' /\ ChainsBegun' /\ Shut'
  <1>1. Quiet BY DEF Quiet, Stands, Began
  <1> QED BY <1>1, QuietChains, QuietShut DEF SerialFits

LEMMA RevokedQuiet == ASSUME Inv, NEW S, session' = Revoked(S) PROVE Quiet
  <1> SUFFICES ASSUME NEW s \in Sessions
               PROVE  /\ session'[s].family = session[s].family
                      /\ \/ session'[s].status = session[s].status
                         \/ /\ session'[s].status = "revoked"
                            /\ session[s].status \in {"live", "expired"}
    BY DEF Quiet, Stands, Began
  <1>1. session[s] \in Session BY DEF Inv, TypeOK
  <1> QED BY <1>1 DEF Revoked, Session

LEMMA OneRevoked ==
  ASSUME Inv, NEW r \in Sessions, Began(r), session' = [session EXCEPT ![r].status = "revoked"]
  PROVE  Quiet /\ ~Stands(r)' /\ \A s \in Sessions \ {r} : session'[s] = session[s]
  <1>1. \A s \in Sessions : session[s] \in Session BY DEF Inv, TypeOK
  <1>2. \A s \in Sessions \ {r} : session'[s] = session[s] BY DEF Inv, TypeOK
  <1>3. session'[r].status = "revoked" /\ session'[r].family = session[r].family
    BY <1>1 DEF Inv, TypeOK, Session
  <1> QED BY <1>2, <1>3 DEF Quiet, Stands, Began

-----------------------------------------------------------------------------
(* A request that is received knows the chain it read.                     *)
LEMMA ReceiveFits ==
  ASSUME Inv, SerialFits, scope.width = 1, NEW c \in Calls, Receives(c) PROVE SerialFits'
  <1>1. UNCHANGED <<account, session, ended>>
    BY DEF Receives, RequestOtp, VerifyOtp, Refresh, RevokeRead
  <1>2. ASSUME NEW x \in Slot, Begins(c, x), SlotGood(x) PROVE SerialFits'
    <2>1. Alone(c) /\ call'[c] = x BY <1>2, BegunAlone DEF SerialFits
    <2>2. SlotGood(x)' BY <1>1, <1>2 DEF SlotGood, Stands, Began
    <2> QED BY <1>1, <2>1, <2>2, StillQuiet, AloneFits DEF SerialFits
  <1>3. CASE RequestOtp(c)
    <2> DEFINE x == [Idle EXCEPT !.at = "send"]
    <2>1. Begins(c, x) BY <1>3 DEF RequestOtp
    <2>2. x \in Slot /\ x.at = "send" BY IdleTyped DEF Slot
    <2> HIDE DEF x
    <2> QED BY <1>2, <2>1, <2>2 DEF SlotGood
  <1>4. ASSUME NEW k \in Codes, NEW right \in BOOLEAN, VerifyOtp(c, k, right) PROVE SerialFits'
    <2> DEFINE l == IF right THEN "consume" ELSE "miss"
               x == [Idle EXCEPT !.at = l, !.code = k]
    <2>1. Begins(c, x) /\ account = "ACTIVE" BY <1>4 DEF VerifyOtp
    <2>2. l \in {"consume", "miss"} OBVIOUS
    <2> HIDE DEF l
    <2>3. x \in Slot /\ x.at = l /\ x.family = 0 BY <2>2, IdleTyped DEF Slot
    <2> HIDE DEF x
    <2> QED BY <1>2, <2>1, <2>2, <2>3 DEF SlotGood
  <1>5. ASSUME NEW s \in Sessions, Refresh(c, s) \/ RevokeRead(c, s) PROVE SerialFits'
    <2> DEFINE f == session[s].family
    <2>1. Began(s) /\ f \in Sessions /\ Began(f)
      BY <1>5 DEF Refresh, RevokeRead, Inv, ChainsTyped, Chained, SerialFits, ChainsBegun, Began
    <2>2. PICK l \in {"renew", "reuse", "revoke"} :
             /\ Begins(c, [Idle EXCEPT !.at = l, !.session = s, !.family = f])
             /\ l = "renew" => session[s].status = "live"
             /\ l = "revoke" => Stands(s)
      BY <1>5 DEF Refresh, RevokeRead, Fresh, Stands
    <2>3. l = "renew" => f \notin ended BY <2>2 DEF SerialFits, Shut
    <2> DEFINE x == [Idle EXCEPT !.at = l, !.session = s, !.family = f]
    <2>4. /\ x \in Slot /\ x.at = l /\ x.family = f /\ x.session = s
      BY <2>1, IdleTyped DEF Slot
    <2>5. Begins(c, x) BY <2>2
    <2>6. l \in {"renew", "revoke"} => Stands(s) BY <2>2 DEF Stands
    <2> HIDE DEF x
    <2>7. SlotGood(x) BY <2>1, <2>3, <2>4, <2>6 DEF SlotGood
    <2> QED BY <1>2, <2>4, <2>5, <2>7
  <1> QED BY <1>3, <1>4, <1>5 DEF Receives

-----------------------------------------------------------------------------
(* Steps of a request that leave its chain as it is, and its end.          *)
LEMMA CodeFits ==
  ASSUME Inv, SerialFits, NEW c \in Calls,
         SendCode(c) \/ MissCode(c) \/ ConsumeCode(c) \/ AskAccount(c)
  PROVE  SerialFits'
  <1>1. Working(c) /\ UNCHANGED <<account, session, ended>> /\ call[c] \in Slot
    BY DEF SendCode, MissCode, ConsumeCode, AskAccount, Working, Inv, TypeOK
  <1>2. OneStands' /\ ChainsBegun' /\ Shut' BY <1>1, StillQuiet
  <1>3. CASE Ends(c) BY <1>1, <1>2, <1>3, EndFits
  <1>4. SlotGood(call[c]) BY DEF SerialFits, SlotsGood
  <1>5. ASSUME NEW l \in {"issue", "rotate"}, Goes(c, l),
               NEW f, f = call[c].family,
               l = "rotate" => Stands(call[c].session) /\ session[call[c].session].family = f,
               l = "issue" => \A s \in Sessions : Stands(s) => session[s].family # f,
               f \notin ended, f # 0 => Began(f), account = "ACTIVE"
        PROVE  SerialFits'
    <2> DEFINE x == [call[c] EXCEPT !.at = l]
    <2>1. Puts(c, x) BY <1>5 DEF Goes, Puts, Inv, TypeOK
    <2>2. x \in Slot /\ x.at = l /\ x.family = f /\ x.session = call[c].session
      BY <1>1, <1>5 DEF Slot
    <2> HIDE DEF x
    <2>3. Alone(c) /\ call'[c] = x BY <1>1, <2>1, <2>2, WorksAlone DEF SerialFits
    <2>4. SlotGood(x) BY <1>5, <2>2 DEF SlotGood
    <2>5. PICK y : y = call'[c] /\ SlotGood(y) BY <2>3, <2>4
    <2>6. SlotGood(y)' BY <1>1, <2>5 DEF SlotGood, Stands, Began
    <2> QED BY <1>2, <2>3, <2>5, <2>6, AloneFits DEF SerialFits
  <1>6. CASE ConsumeCode(c) /\ Goes(c, "issue")
    <2>1. call[c].family = 0 /\ account = "ACTIVE" BY <1>4, <1>6 DEF ConsumeCode, SlotGood
    <2>2. 0 \notin Sessions /\ ended \subseteq Sessions
      BY AuthConstants DEF Sessions, Inv, TypeOK
    <2>3. \A s \in Sessions : Stands(s) => session[s].family # 0
      BY <2>2 DEF Stands, Inv, ChainsTyped, Chained
    <2> QED BY <1>5, <1>6, <2>1, <2>2, <2>3
  <1>7. CASE AskAccount(c) /\ account = "ACTIVE" /\ Goes(c, "rotate")
    BY <1>4, <1>5, <1>7 DEF AskAccount, SlotGood
  <1> QED BY <1>3, <1>6, <1>7 DEF SendCode, MissCode, ConsumeCode, AskAccount

(* The new session is the one of its chain that stands.                    *)
LEMMA IssueFits ==
  ASSUME Inv, SerialFits, NEW c \in Calls, IssueTokens(c) PROVE SerialFits'
  <1>0. PICK f, k : f = call[c].family /\ k = call[c].code OBVIOUS
  <1>1. Working(c) /\ Ends(c) /\ UNCHANGED <<account, ended>> /\ call[c] \in Slot
    BY DEF IssueTokens, Working, Inv, TypeOK
  <1>2. PICK r \in Sessions : ~Began(r) /\ session' = [session EXCEPT ![r] = Issued(r, f, k)]
    BY <1>0 DEF IssueTokens, Began
  <1>3. /\ f \notin ended /\ (f # 0 => Began(f)) /\ account = "ACTIVE"
        /\ \A s \in Sessions : Stands(s) => session[s].family # f
    BY <1>0 DEF IssueTokens, SerialFits, SlotsGood, SlotGood
  <1>4. f \in {0} \cup Sessions BY <1>0, <1>1 DEF Slot
  <1> DEFINE g == IF f = 0 THEN r ELSE f
  <1>5. /\ g \in Sessions /\ g \notin ended /\ (g # r => Began(g))
        /\ \A s \in Sessions : Stands(s) => session[s].family # g
    <2>1. CASE f = 0
      <3>1. r \notin ended BY <1>2 DEF SerialFits, ChainsBegun
      <3>2. \A s \in Sessions : Stands(s) => Began(s) BY DEF Stands, Began
      <3>3. \A s \in Sessions : Stands(s) => session[s].family # r
        BY <1>2, <3>2 DEF SerialFits, ChainsBegun
      <3> QED BY <2>1, <3>1, <3>3
    <2>2. CASE f # 0 BY <1>3, <1>4, <2>2
    <2> QED BY <2>1, <2>2
  <1>6. /\ session'[r].status = "live" /\ session'[r].family = g
        /\ \A s \in Sessions \ {r} : session'[s] = session[s]
    BY <1>2 DEF Inv, TypeOK, Issued
  <1> HIDE DEF g
  <1>7. OneStands' BY <1>5, <1>6 DEF SerialFits, OneStands, Stands
  <1>8. ChainsBegun'
    <2>1. \A s \in Sessions : Began(s) => Began(s)' BY <1>6 DEF Began
    <2>2. \A s \in ended : Began(s)' BY <2>1 DEF SerialFits, ChainsBegun, Inv, TypeOK
    <2>3. Began(r)' /\ Began(g)' BY <1>5, <1>6, <2>1 DEF Began
    <2>4. ASSUME NEW s \in Sessions, Began(s)', NEW h, h = session'[s].family PROVE Began(h)'
      <3>1. CASE s = r BY <1>6, <2>3, <2>4, <3>1
      <3>2. CASE s # r
        <4>1. Began(s) /\ h = session[s].family BY <1>6, <2>4, <3>2 DEF Began
        <4>2. Began(h) /\ h \in Sessions
          BY <4>1 DEF SerialFits, ChainsBegun, Inv, ChainsTyped, Chained, Began
        <4> QED BY <2>1, <4>2
      <3> QED BY <3>1, <3>2
    <2>5. \A s \in Sessions : Began(s)' => Began(session[s].family)' BY <2>4 DEF Began
    <2> QED BY <1>1, <2>2, <2>5 DEF ChainsBegun
  <1>9. Shut' BY <1>1, <1>3, <1>5, <1>6 DEF SerialFits, Shut
  <1> QED BY <1>1, <1>7, <1>8, <1>9, EndFits

(* The revocation of a chain, or of the one session of it that stands.     *)
LEMMA RevokeFits ==
  ASSUME Inv, SerialFits, NEW c \in Calls, EndFamily(c) \/ RevokeWrite(c) PROVE SerialFits'
  <1>0. PICK f : f = call[c].family OBVIOUS
  <1>1. Working(c) /\ Ends(c) /\ UNCHANGED account /\ ended' = ended \cup {f}
    BY <1>0 DEF EndFamily, RevokeWrite, Working
  <1>2. f \in Sessions BY <1>0 DEF EndFamily, RevokeWrite, Inv, SlotsTyped
  <1>3. SlotGood(call[c]) BY DEF SerialFits, SlotsGood
  <1>4. f # 0 BY <1>2, AuthConstants DEF Sessions
  <1>5. Began(f) BY <1>0, <1>3, <1>4 DEF EndFamily, RevokeWrite, SlotGood
  <1>6. Quiet /\ \A s \in Sessions : session'[s].status = "live" => session[s].family # f
    <2>1. CASE EndFamily(c)
      <3>1. session' = Revoked({s \in Sessions : session[s].family = f}) BY <1>0, <2>1 DEF EndFamily
      <3>2. \A s \in Sessions : session[s] \in Session BY DEF Inv, TypeOK
      <3>3. \A s \in Sessions : session'[s].status = "live" => session[s].family # f
        BY <3>1, <3>2 DEF Revoked, Session
      <3> QED BY <3>1, <3>3, RevokedQuiet
    <2>2. CASE RevokeWrite(c)
      <3>0. PICK r : r = call[c].session OBVIOUS
      <3>1. session' = [session EXCEPT ![r].status = "revoked"] /\ r \in Sessions
        BY <2>2, <3>0 DEF RevokeWrite, Inv, SlotsTyped, Chained
      <3>2. Stands(r) /\ session[r].family = f BY <1>0, <1>3, <2>2, <3>0 DEF RevokeWrite, SlotGood
      <3>3. Began(r) BY <3>2 DEF Stands, Began
      <3>4. Quiet /\ ~Stands(r)' BY <3>1, <3>3, OneRevoked
      <3>5. \A s \in Sessions : session'[s].status = "live" => Stands(s) /\ s # r
        BY <3>4 DEF Quiet, Stands
      <3> QED BY <3>1, <3>2, <3>4, <3>5 DEF SerialFits, OneStands
    <2> QED BY <2>1, <2>2
  <1>7. OneStands' /\ ChainsBegun' BY <1>1, <1>2, <1>5, <1>6, QuietChains
  <1>8. Shut' BY <1>1, <1>6 DEF SerialFits, Shut, Quiet
  <1> QED BY <1>1, <1>7, <1>8, EndFits

(* After a rotation no session of the chain stands, until its request      *)
(* issues the next.                                                        *)
LEMMA RotateFits ==
  ASSUME Inv, SerialFits, NEW c \in Calls, Rotate(c) PROVE SerialFits'
  <1> DEFINE x == [call[c] EXCEPT !.at = "issue"]
  <1>0. PICK r, f : r = call[c].session /\ f = call[c].family OBVIOUS
  <1>1. Working(c) /\ UNCHANGED <<account, ended>> /\ call[c] \in Slot
    BY DEF Rotate, Working, Inv, TypeOK
  <1>2. session' = [session EXCEPT ![r].status = "revoked"] /\ r \in Sessions
    BY <1>0 DEF Rotate, Inv, SlotsTyped, Chained
  <1>3. /\ Stands(r) /\ session[r].family = f /\ account = "ACTIVE"
        /\ f \notin ended /\ (f # 0 => Began(f))
    BY <1>0 DEF Rotate, SerialFits, SlotsGood, SlotGood
  <1>4. Puts(c, x) BY DEF Rotate, Goes, Puts, Inv, TypeOK
  <1>5. x \in Slot /\ x.at = "issue" /\ x.family = f BY <1>0, <1>1 DEF Slot
  <1>6. f \in Sessions BY <1>2, <1>3 DEF Inv, ChainsTyped, Chained, Stands
  <1> HIDE DEF x
  <1>7. Alone(c) /\ call'[c] = x BY <1>1, <1>4, <1>5, WorksAlone DEF SerialFits
  <1>8. Began(r) BY <1>3 DEF Stands, Began
  <1>9. Quiet /\ ~Stands(r)' BY <1>2, <1>8, OneRevoked
  <1>10. OneStands' /\ ChainsBegun' BY <1>1, <1>9, QuietChains
  <1>11. Shut' BY <1>1, <1>9, QuietShut DEF SerialFits
  <1>12. PICK y : y = call'[c] /\ y.at = "issue" /\ y.family = f BY <1>5, <1>7
  <1>13. \A s \in Sessions : Stands(s)' => session'[s].family # f
    BY <1>2, <1>3, <1>9 DEF Quiet, SerialFits, OneStands
  <1>14. f # 0 => Began(f)' BY <1>3, <1>6, <1>9 DEF Quiet
  <1>15. SlotGood(y)' BY <1>1, <1>3, <1>12, <1>13, <1>14 DEF SlotGood
  <1> QED BY <1>7, <1>10, <1>11, <1>12, <1>15, AloneFits DEF SerialFits

LEMMA CrashFits ==
  ASSUME Inv, SerialFits, NEW c \in Calls, Crash(c) PROVE SerialFits'
  BY StillQuiet, EndFits DEF Crash, Working

-----------------------------------------------------------------------------
(* Steps of nobody's request. *)
LEMMA RestFits ==
  ASSUME UNCHANGED call, SerialFits, OneStands', ChainsBegun', Shut',
         \A c \in Calls : ~Working(c)
  PROVE  SerialFits'
  <1>1. OneAtATime' BY DEF SerialFits, OneAtATime, Working
  <1>2. SlotsGood'
    <2> SUFFICES ASSUME NEW c \in Calls, NEW x, x = call'[c] PROVE SlotGood(x)' BY DEF SlotsGood
    <2>1. x.at = "idle" BY DEF Working
    <2> QED BY <2>1, IdleGood
  <1> QED BY <1>1, <1>2 DEF SerialFits

(* A logout and a suspension wait for the request that runs.               *)
LEMMA AccountFits ==
  ASSUME Inv, SerialFits, scope.width = 1,
         (\E S \in SUBSET Live : Logout(S)) \/ Suspend \/ Reinstate
  PROVE  SerialFits'
  <1>1. UNCHANGED call /\ Room BY DEF Logout, Suspend, Reinstate
  <1>2. \A c \in Calls : ~Working(c) BY <1>1, NoneWorks DEF SerialFits
  <1>3. \A s \in Sessions : Began(s) => session[s].family \in Sessions /\ Began(session[s].family)
    BY DEF Inv, ChainsTyped, Chained, Began, SerialFits, ChainsBegun
  <1>4. SUFFICES OneStands' /\ ChainsBegun' /\ Shut' BY <1>1, <1>2, RestFits
  <1>5. ASSUME NEW S \in SUBSET Live, Logout(S) PROVE OneStands' /\ ChainsBegun' /\ Shut'
    <2>1. Quiet BY <1>5, RevokedQuiet DEF Logout
    <2>2. \A s \in S : s \in Sessions /\ session[s].status = "live" BY DEF Live, Made
    <2>3. ended' = ended \cup {session[s].family : s \in S} /\ account = "ACTIVE"
          /\ UNCHANGED account /\ session' = Revoked(S)
      BY <1>5 DEF Logout
    <2>4. \A f \in ended' \ ended : f \in Sessions /\ Began(f) BY <1>3, <2>2, <2>3 DEF Began
    <2>5. OneStands' /\ ChainsBegun' BY <2>1, <2>4, QuietChains
    <2>6. ASSUME NEW s \in Sessions, session'[s].status = "live" PROVE session'[s].family \notin ended'
      <3>1. session[s].status = "live" /\ session'[s].family = session[s].family
        BY <2>1, <2>6 DEF Quiet
      <3>2. s \notin S
        <4>1. session[s] \in Session BY DEF Inv, TypeOK
        <4> QED BY <2>3, <2>6, <3>1, <4>1 DEF Revoked, Session
      <3>3. ASSUME NEW t \in S PROVE session[t].family # session[s].family
        BY <2>2, <3>1, <3>2, <3>3 DEF SerialFits, OneStands, Stands
      <3> QED BY <2>3, <3>1, <3>3 DEF SerialFits, Shut
    <2>7. Shut' BY <2>3, <2>6 DEF Shut
    <2> QED BY <2>5, <2>7
  <1>6. CASE Suspend
    <2>1. Quiet /\ \A s \in Sessions : session'[s].status # "live"
      <3>1. session' = Revoked(Sessions) BY <1>6 DEF Suspend
      <3>2. \A s \in Sessions : session[s] \in Session BY DEF Inv, TypeOK
      <3>3. \A s \in Sessions : session'[s].status # "live" BY <3>1, <3>2 DEF Revoked, Session
      <3> QED BY <3>1, <3>3, RevokedQuiet
    <2>2. \A f \in ended' \ ended : f \in Sessions /\ Began(f)
      <3>1. ended' = ended \cup Families BY <1>6 DEF Suspend
      <3>2. \A f \in Families : f \in Sessions /\ Began(f)
        BY <1>3 DEF Families, Made, Began
      <3> QED BY <3>1, <3>2
    <2>3. Shut' BY <2>1 DEF Shut
    <2> QED BY <2>1, <2>2, <2>3, QuietChains
  <1>7. CASE Reinstate
    <2>1. UNCHANGED <<session, ended>> /\ account' = "ACTIVE" BY <1>7 DEF Reinstate
    <2>2. Quiet BY <2>1 DEF Quiet, Stands, Began
    <2>3. OneStands' /\ ChainsBegun' BY <2>1, <2>2, QuietChains
    <2>4. Shut' BY <2>1 DEF SerialFits, Shut
    <2> QED BY <2>3, <2>4
  <1> QED BY <1>5, <1>6, <1>7

(* Time may pass while a request runs. *)
LEMMA PassingFits == ASSUME Inv, SerialFits, Expire PROVE SerialFits'
  <1>1. UNCHANGED <<account, ended, call>> BY DEF Expire
  <1>2. \A s \in Sessions : /\ session'[s].family = session[s].family
                            /\ Stands(s)' <=> Stands(s)
                            /\ session'[s].status = "live" => session[s].status = "live"
                            /\ Began(s)' <=> Began(s)
    <2>1. CASE UNCHANGED session BY <2>1 DEF Stands, Began
    <2>2. ASSUME NEW r \in Live, session' = [session EXCEPT ![r].status = "expired"]
          PROVE  <1>2!:
      <3>1. r \in Sessions /\ session[r].status = "live" BY DEF Live, Made
      <3>2. \A s \in Sessions : session[s] \in Session BY DEF Inv, TypeOK
      <3>3. session'[r].status = "expired" /\ session'[r].family = session[r].family
        BY <2>2, <3>1, <3>2 DEF Inv, TypeOK, Session
      <3>4. \A s \in Sessions \ {r} : session'[s] = session[s] BY <2>2 DEF Inv, TypeOK
      <3> QED BY <3>1, <3>3, <3>4 DEF Stands, Began
    <2> QED BY <2>1, <2>2 DEF Expire
  <1>3. Quiet BY <1>2 DEF Quiet
  <1>4. OneStands' /\ ChainsBegun' /\ Shut'
    BY <1>1, <1>3, QuietChains, QuietShut DEF SerialFits
  <1>5. OneAtATime' BY <1>1 DEF SerialFits, OneAtATime, Working
  <1>6. SlotsGood'
    <2> SUFFICES ASSUME NEW c \in Calls, NEW x, x = call'[c] PROVE SlotGood(x)' BY DEF SlotsGood
    <2>1. x \in Slot /\ x = call[c] BY <1>1 DEF Inv, TypeOK
    <2>2. SlotGood(x) BY <2>1 DEF SerialFits, SlotsGood
    <2>3. x.at \in {"renew", "rotate", "revoke"} => x.session \in Sessions
      BY <2>1 DEF Inv, SlotsTyped, Chained
    <2>4. x.family # 0 => x.family \in Sessions BY <2>1 DEF Slot
    <2> QED BY <1>1, <1>2, <2>2, <2>3, <2>4 DEF SlotGood
  <1> QED BY <1>4, <1>5, <1>6 DEF SerialFits

-----------------------------------------------------------------------------
LEMMA InitFits == Init => SessionsInv
  <1> SUFFICES ASSUME Init PROVE SessionsInv OBVIOUS
  <1>1. OneAtATime BY IdleTyped DEF Init, OneAtATime, Working
  <1>2. SlotsGood
    <2> SUFFICES ASSUME NEW c \in Calls, NEW x, x = call[c] PROVE SlotGood(x) BY DEF SlotsGood
    <2>1. x.at = "idle" BY IdleTyped DEF Init
    <2> QED BY <2>1 DEF SlotGood
  <1>3. \A s \in Sessions : ~Stands(s) /\ ~Began(s) BY DEF Init, Stands, Began
  <1>4. OneStands /\ ChainsBegun /\ Shut
    BY <1>3 DEF Init, OneStands, ChainsBegun, Shut, Stands
  <1> QED BY <1>1, <1>2, <1>4, InitInv DEF SessionsInv, SerialFits

LEMMA StepFits == SessionsInv /\ [Next]_vars => SessionsInv'
  <1> SUFFICES ASSUME SessionsInv, [Next]_vars PROVE SessionsInv' OBVIOUS
  <1>1. Inv' BY StepInv DEF SessionsInv
  <1>2. scope' = scope
    <2>1. ASSUME NEW c \in Calls, Receives(c) PROVE scope' = scope
      BY <2>1 DEF Receives, RequestOtp, VerifyOtp, Refresh, RevokeRead, rest
    <2>2. ASSUME NEW c \in Calls, Steps(c) PROVE scope' = scope
      BY <2>2 DEF Steps, SendCode, MissCode, ConsumeCode, IssueTokens, EndFamily, AskAccount,
             Rotate, RevokeWrite, rest
    <2> QED BY <2>1, <2>2 DEF Next, Crash, Logout, Suspend, Reinstate, Expire, vars, rest
  <1>3. SUFFICES ASSUME Inv, SerialFits, scope.width = 1 PROVE SerialFits'
    BY <1>1, <1>2 DEF SessionsInv
  <1>4. ASSUME NEW c \in Calls, Steps(c) PROVE SerialFits'
    BY <1>3, <1>4, CodeFits, IssueFits, RevokeFits, RotateFits DEF Steps
  <1>5. CASE UNCHANGED vars
    BY <1>5, <1>3 DEF vars, SerialFits, OneAtATime, Working, OneStands, Stands, ChainsBegun, Began,
                      Shut, SlotsGood, SlotGood
  <1> QED BY <1>3, <1>4, <1>5, ReceiveFits, CrashFits, AccountFits, PassingFits DEF Next

(* One request at a time, what ended a chain of sessions ended it: no      *)
(* token of it, however old, starts it again after a reuse, a logout, a    *)
(* revocation or a suspension, also when sessions expire or a process dies *)
(* between the check of refresh and its rotation, and a suspended account  *)
(* has no live session.                                                    *)
THEOREM RevocationHolds == Spec => []RevocationStands
  <1>1. SessionsInv => RevocationStands
    BY DEF SessionsInv, SerialFits, Shut, RevocationStands, Live, Made
  <1> QED BY <1>1, InitFits, StepFits, PTL DEF Spec
=============================================================================
