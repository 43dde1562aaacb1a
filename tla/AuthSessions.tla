----------------------------- MODULE AuthSessions -----------------------------
(***************************************************************************)
(* Signing in with a one-time code, and the chain of sessions a sign-in    *)
(* starts: refresh tokens that are rotated, reuse of an old one, logout,   *)
(* revocation and suspension of the account.                               *)
(* Source: auth.service.ts, jwt-auth.guard.ts, and the transactions of     *)
(* admin, carrier and compliance services that suspend an account.         *)
(*                                                                         *)
(* One account.  A refresh token is named by its session, whose row keeps  *)
(* its hash; a code by its challenge.  A request runs in a slot of Calls,  *)
(* cut where the code awaits the database.                                 *)
(***************************************************************************)
EXTENDS Naturals, FiniteSets

CONSTANTS Calls,
          MaxCodes,     \* bound: challenges ever created
          MaxSessions,  \* bound: sessions ever created
          MaxTries,     \* wrong answers a challenge takes (5 in the code)
          Scopes        \* the bounds a behaviour may choose at its start

ASSUME AuthConstants ==
    /\ MaxCodes \in Nat /\ MaxSessions \in Nat /\ MaxTries \in Nat \ {0}
    /\ \A s \in Scopes : s.width \in Nat /\ s.crashes \in Nat

Codes    == 1..MaxCodes
Sessions == 1..MaxSessions

VARIABLES account,   \* the status of the account
          code,      \* OtpChallenge rows
          session,   \* AuthSession rows
          ended,     \* history: families a revocation was meant to end
          call, crashes,
          scope      \* requests at a time, crashes

vars == <<account, code, session, ended, call, crashes, scope>>
rest == <<crashes, scope>>

Code    == [status : {"none", "open", "consumed", "expired"}, attempts : Nat]
(* revoked: revokedAt is set; expired: it is not and expiresAt is past.     *)
(* family is the first session of the chain, code the challenge that       *)
(* started it, 0 for a session made by a refresh.                          *)
Session == [status : {"none", "live", "revoked", "expired"}, family : {0} \cup Sessions,
            code : {0} \cup Codes]
Slot == [at : {"idle", "send", "miss", "consume", "reuse", "renew", "rotate", "issue", "revoke"},
         code : {0} \cup Codes, session : {0} \cup Sessions, family : {0} \cup Sessions]
Idle == [at |-> "idle", code |-> 0, session |-> 0, family |-> 0]

TypeOK == /\ account \in {"ACTIVE", "SUSPENDED"}
          /\ code \in [Codes -> Code] /\ session \in [Sessions -> Session]
          /\ ended \in SUBSET Sessions /\ call \in [Calls -> Slot]
          /\ crashes \in Nat /\ scope \in Scopes

Init == /\ account = "ACTIVE"
        /\ code = [k \in Codes |-> [status |-> "none", attempts |-> 0]]
        /\ session = [s \in Sessions |-> [status |-> "none", family |-> 0, code |-> 0]]
        /\ ended = {} /\ call = [c \in Calls |-> Idle]
        /\ crashes = 0 /\ scope \in Scopes

-----------------------------------------------------------------------------
Busy == {c \in Calls : call[c].at # "idle"}
Room == Cardinality(Busy) < scope.width

Begins(c, s) == call[c].at = "idle" /\ Room /\ call' = [call EXCEPT ![c] = s]
Goes(c, l)   == call' = [call EXCEPT ![c].at = l]
Ends(c)      == call' = [call EXCEPT ![c] = Idle]

Made(S) == {x \in Sessions : session[x].status \in S}
Live == Made({"live"})
Families == {session[x].family : x \in Made({"live", "revoked", "expired"})}
Revoked(S) == [x \in Sessions |-> IF x \in S /\ session[x].status \in {"live", "expired"}
                                  THEN [session[x] EXCEPT !.status = "revoked"] ELSE session[x]]

-----------------------------------------------------------------------------
(* requestOtp: the account is asked first, then the challenge is written.  *)

RequestOtp(c) ==
    /\ account = "ACTIVE"
    /\ Begins(c, [Idle EXCEPT !.at = "send"])
    /\ UNCHANGED <<account, code, session, ended, rest>>

SendCode(c) ==
    /\ call[c].at = "send"
    /\ \E k \in Codes : /\ code[k].status = "none" /\ \A j \in 1..(k - 1) : code[j].status # "none"
                        /\ code' = [code EXCEPT ![k].status = "open"]
    /\ Ends(c)
    /\ UNCHANGED <<account, session, ended, rest>>

(* verifyOtp: only the latest open challenge counts; right says whether    *)
(* the caller answers that one.                                            *)
OpenCodes == {k \in Codes : code[k].status = "open"}
Asked(k) == k \in OpenCodes /\ \A j \in OpenCodes : j <= k

VerifyOtp(c, k, right) ==
    /\ account = "ACTIVE" /\ Asked(k) /\ code[k].attempts < MaxTries
    /\ Begins(c, [Idle EXCEPT !.at = IF right THEN "consume" ELSE "miss", !.code = k])
    /\ UNCHANGED <<account, code, session, ended, rest>>

MissCode(c) ==
    /\ call[c].at = "miss"
    /\ code' = [code EXCEPT ![call[c].code].attempts = @ + 1]
    /\ Ends(c)
    /\ UNCHANGED <<account, session, ended, rest>>

(* "Atomic consume": the challenge as it is when it is written; that it    *)
(* has expired since is not asked again.                                   *)
UnusedAtRead(k) == code[k].status # "none"  \* seeded fault
Unused(k) == code[k].status \in {"open", "expired"}

ConsumeCode(c) ==
    /\ call[c].at = "consume"
    /\ IF Unused(call[c].code)
       THEN code' = [code EXCEPT ![call[c].code].status = "consumed"] /\ Goes(c, "issue")
       ELSE Ends(c) /\ UNCHANGED code
    /\ UNCHANGED <<account, session, ended, rest>>

(* issueTokens: a session of its own family, or of the one it refreshes.   *)
IssuedVerbatim(s, family, k) == [status |-> "ACTIVE", family |-> family, code |-> k]  \* seeded fault
Issued(s, family, k) == [status |-> "live", family |-> IF family = 0 THEN s ELSE family,
                         code |-> k]

IssueTokens(c) ==
    /\ call[c].at = "issue"
    /\ \E s \in Sessions :
         /\ session[s].status = "none" /\ \A r \in 1..(s - 1) : session[r].status # "none"
         /\ session' = [session EXCEPT ![s] = Issued(s, call[c].family, call[c].code)]
    /\ Ends(c)
    /\ UNCHANGED <<account, code, ended, rest>>

-----------------------------------------------------------------------------
(* refresh: of a live session, or of one revoked, which ends its whole     *)
(* family; the token of an expired one has expired itself and is refused.  *)
(* The account is asked between the check and the rotation.                *)

FreshAlways(s) == session[s].status # "none"  \* seeded fault
Fresh(s) == session[s].status = "live"

Refresh(c, s) ==
    /\ session[s].status \in {"live", "revoked"}
    /\ Begins(c, [Idle EXCEPT !.at = IF Fresh(s) THEN "renew" ELSE "reuse",
                              !.session = s, !.family = session[s].family])
    /\ UNCHANGED <<account, code, session, ended, rest>>

EndFamily(c) ==
    /\ call[c].at = "reuse"
    /\ session' = Revoked({s \in Sessions : session[s].family = call[c].family})
    /\ ended' = ended \cup {call[c].family}
    /\ Ends(c)
    /\ UNCHANGED <<account, code, rest>>

AskAccount(c) ==
    /\ call[c].at = "renew"
    /\ IF account = "ACTIVE" THEN Goes(c, "rotate") ELSE Ends(c)
    /\ UNCHANGED <<account, code, session, ended, rest>>

Rotate(c) ==
    /\ call[c].at = "rotate"
    /\ session' = [session EXCEPT ![call[c].session].status = "revoked"]
    /\ Goes(c, "issue")
    /\ UNCHANGED <<account, code, ended, rest>>

-----------------------------------------------------------------------------
(* logout of this device, of another by its token, or of all; a request    *)
(* needs a live session and an active account (JwtAuthGuard).              *)

Logout(S) ==
    /\ Room /\ account = "ACTIVE" /\ Live # {}
    /\ S = Live \/ Cardinality(S) = 1
    /\ session' = Revoked(S)
    /\ ended' = ended \cup {session[s].family : s \in S}
    /\ UNCHANGED <<account, code, call, rest>>

(* revokeSession: looked up, then written whatever it is by then. *)
RevokeRead(c, s) ==
    /\ account = "ACTIVE" /\ Live # {} /\ session[s].status \in {"live", "expired"}
    /\ Begins(c, [Idle EXCEPT !.at = "revoke", !.session = s, !.family = session[s].family])
    /\ UNCHANGED <<account, code, session, ended, rest>>

RevokeWrite(c) ==
    /\ call[c].at = "revoke"
    /\ session' = [session EXCEPT ![call[c].session].status = "revoked"]
    /\ ended' = ended \cup {call[c].family}
    /\ Ends(c)
    /\ UNCHANGED <<account, code, rest>>

(* disableCompany, disableDriver, reject: one transaction. *)
Suspend ==
    /\ Room /\ account = "ACTIVE"
    /\ account' = "SUSPENDED"
    /\ session' = Revoked(Sessions)
    /\ ended' = ended \cup Families
    /\ UNCHANGED <<code, call, rest>>

Reinstate ==
    /\ Room /\ account = "SUSPENDED"
    /\ account' = "ACTIVE"
    /\ UNCHANGED <<code, session, ended, call, rest>>

-----------------------------------------------------------------------------
(* Time passes: OTP_TTL_MINUTES, JWT_REFRESH_TTL. *)
Expire == \/ /\ \E k \in OpenCodes : code' = [code EXCEPT ![k].status = "expired"]
             /\ UNCHANGED <<account, session, ended, call, rest>>
          \/ /\ \E s \in Live : session' = [session EXCEPT ![s].status = "expired"]
             /\ UNCHANGED <<account, code, ended, call, rest>>

Crash(c) ==
    /\ call[c].at # "idle" /\ crashes < scope.crashes
    /\ crashes' = crashes + 1
    /\ Ends(c)
    /\ UNCHANGED <<account, code, session, ended, scope>>

Steps(c) == \/ SendCode(c) \/ MissCode(c) \/ ConsumeCode(c) \/ IssueTokens(c)
            \/ EndFamily(c) \/ AskAccount(c) \/ Rotate(c) \/ RevokeWrite(c)

Receives(c) == \/ RequestOtp(c) \/ \E k \in Codes, right \in BOOLEAN : VerifyOtp(c, k, right)
               \/ \E s \in Sessions : Refresh(c, s) \/ RevokeRead(c, s)

Next == \/ \E c \in Calls : Receives(c) \/ Steps(c) \/ Crash(c)
        \/ \E S \in SUBSET Live : Logout(S)
        \/ Suspend \/ Reinstate \/ Expire

Spec == Init /\ [][Next]_vars

-----------------------------------------------------------------------------
(* Properties. *)

(* "concurrent verify with same code issues at most one session": also a   *)
(* verify that dies on the way, or that answers a code expired meanwhile.  *)
OneSessionPerCode ==
    \A k \in Codes : Cardinality({s \in Sessions : session[s].code = k}) <= 1

(* One request at a time, what ended a chain of sessions ended it: no      *)
(* token of it, however old, starts it again after a reuse, a logout or a  *)
(* suspension, and a suspended account has no live session.                *)
RevocationStands ==
    scope.width = 1 => /\ \A s \in Live : session[s].family \notin ended
                       /\ account = "SUSPENDED" => Live = {}
=============================================================================
