----------------------------- MODULE RevenueSplit -----------------------------
(***************************************************************************)
(* How the captured fare of a job is split: the policy in force, the       *)
(* package of the sender's referrer, the cents of each share and who each  *)
(* settlement line is for.  Pure operators: the rows read by resolveForJob *)
(* are their arguments.                                                    *)
(* Source: settlements/revenue-split.types.ts, revenue-split.service.ts.   *)
(*                                                                         *)
(* Times are numbers; published = 0 is a draft.  An admin is a name, or     *)
(* Nobody, as an area may be.  Percents are whole (assertNationalPayload).  *)
(***************************************************************************)
EXTENDS Integers, FiniteSets

CONSTANT Nobody

Percent  == 0..100
Percents == [carrier : Percent, super : Percent, state : Percent, local : Percent]
Total(p) == p.carrier + p.super + p.state + p.local
Pool(p)  == p.super + p.state + p.local

(* What a national policy must be, and a package beside a carrier's share. *)
National       == {p \in Percents : p.carrier > 0 /\ Total(p) = 100}
InPool(p, carrier) == /\ p.super \in Percent /\ p.state \in Percent /\ p.local \in Percent
                      /\ Pool(p) = 100 - carrier
Default == [carrier |-> 70, super |-> 15, state |-> 10, local |-> 5]

-----------------------------------------------------------------------------
(* The version published last of those in force; only the last Window      *)
(* published ones are looked at, and those that are no national are passed *)
(* over.  A version is [published, version, from, percents].               *)
Window == 20
Newer(v, w) == \/ v.published > w.published
               \/ v.published = w.published /\ v.version > w.version

EffectiveNational(versions, at) ==
    LET published == {v \in versions : v.published \in 1..at}
        recent    == {v \in published : Cardinality({w \in published : Newer(w, v)}) < Window}
        inForce   == {v \in recent : v.from <= at /\ v.percents \in National}
    IN  IF inForce = {} THEN Default
        ELSE (CHOOSE v \in inForce : \A w \in inForce \ {v} : Newer(v, w)).percents

(* The package of an admin in force: [admin, published, from, super, state, *)
(* local].  The one that took effect last stands.                          *)
Later(p, q) == p.from > q.from \/ (p.from = q.from /\ p.published > q.published)

EffectivePackages(packages, admin, at) ==
    {p \in packages : p.admin = admin /\ p.published \in 1..at /\ p.from <= at}

(* A package whose pool is not the national's leaves the rest to super.    *)
Beside(package, national) ==
    LET pool == 100 - national.carrier
        rest == pool - package.state - package.local
    IN  [carrier |-> national.carrier,
         super   |-> IF Pool(package) = pool THEN package.super
                     ELSE IF rest > 0 THEN rest ELSE 0,
         state   |-> package.state, local |-> package.local]

ResolvePercents(versions, packages, referrer, at) ==
    LET national == EffectiveNational(versions, at)
        own      == EffectivePackages(packages, referrer, at)
    IN  IF referrer = Nobody \/ own = {} THEN national
        ELSE Beside(CHOOSE p \in own : \A q \in own \ {p} : Later(p, q), national)

-----------------------------------------------------------------------------
(* Math.round(gross * percent / 100), halves up; the local share takes     *)
(* what is left.                                                           *)
Share(gross, percent) == (gross * percent + 50) \div 100

AllocateCents(gross, p) ==
    LET carrier == Share(gross, p.carrier)
        super   == Share(gross, p.super)
        state   == Share(gross, p.state)
    IN  [carrier |-> carrier, super |-> super, state |-> state,
         local   |-> gross - carrier - super - state]

(* The holder of a seat: the scope granted first of an active admin.  A    *)
(* scope is [admin, role, area, created, active].                          *)
SeatAdmin(scopes, role, area) ==
    LET held == {s \in scopes : s.role = role /\ s.area = area /\ s.active}
    IN  IF area = Nobody \/ held = {} THEN Nobody
        ELSE (CHOOSE s \in held : \A t \in held : s.created <= t.created).admin

(* The admins who are paid the state's and the local share of a job        *)
(* [region, territory, referrer]; referrer is NoReferrer or [admin, role,  *)
(* active].  A local referrer is paid, or nobody is, whoever holds the seat.*)
NoReferrer == [admin |-> Nobody, role |-> "NONE", active |-> FALSE]

StatePayee(job, scopes, stateTier) ==
    IF stateTier THEN SeatAdmin(scopes, "STATE_MASTER", job.region) ELSE Nobody

LocalPayee(job, scopes) ==
    IF job.referrer.role # "LOCAL_BDE" THEN SeatAdmin(scopes, "LOCAL_BDE", job.territory)
    ELSE IF job.referrer.active THEN job.referrer.admin ELSE Nobody

(* The four settlement lines; what nobody is paid is held by HQ.           *)
LineFor(recipient, payee, percent, cents) ==
    [recipient |-> recipient, payee |-> payee, percent |-> percent, cents |-> cents]
OrHeld(recipient, payee) == IF payee = Nobody THEN "HQ_HOLDING" ELSE recipient

ResolveForJob(gross, p, job, scopes, stateTier) ==
    LET cents == AllocateCents(gross, p)
        state == StatePayee(job, scopes, stateTier)
        local == LocalPayee(job, scopes)
    IN  [carrier |-> LineFor("CARRIER", Nobody, p.carrier, cents.carrier),
         super   |-> LineFor("SUPER_ADMIN", Nobody, p.super, cents.super),
         state   |-> LineFor(OrHeld("STATE_MASTER", state), state, p.state, cents.state),
         local   |-> LineFor(OrHeld("LOCAL_BDE", local), local, p.local, cents.local)]
=============================================================================
