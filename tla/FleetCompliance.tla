---------------------------- MODULE FleetCompliance ----------------------------
(***************************************************************************)
(* A carrier's standing: its vehicles, their roadworthy certificates (RWC) *)
(* and its insurance, the compliance cases in which staff review them, and *)
(* the hourly watchdog that suspends what has lapsed.                      *)
(* Source: carrier.service.ts (fleet, submitVerification),                 *)
(* documents.service.ts, compliance.service.ts, admin.service.ts.          *)
(*                                                                         *)
(* One carrier company.  PUBLIC_LIABILITY and CARGO_INSURANCE, which every *)
(* submission asks for together, are one INSURANCE document; drivers,      *)
(* their licences and the other document types are left out.  A request    *)
(* runs in a slot of Calls: its reads are one step, each write another.    *)
(***************************************************************************)
EXTENDS Naturals, FiniteSets

CONSTANTS Calls, Vehicles,
          None,       \* no vehicle
          MaxDocs,    \* bound: documents ever uploaded
          MaxCases,   \* bound: compliance cases ever opened
          Scopes      \* the bounds a behaviour may choose at its start

ASSUME FleetConstants ==
    /\ None \notin Vehicles /\ Vehicles # {}
    /\ MaxDocs \in Nat /\ MaxDocs >= 2 /\ MaxCases \in Nat
    /\ \A s \in Scopes : /\ s.width \in Nat /\ s.crashes \in Nat /\ s.lapses \in Nat
                         /\ s.cases \in Nat
                         /\ s.restore \in BOOLEAN
                         /\ s.kinds \subseteq {"add", "drop", "file", "submit", "decide", "admin"}
                         /\ s.start \in {"DRAFT", "BID_ELIGIBLE"}

Docs  == 1..MaxDocs
Cases == 1..MaxCases

VARIABLES company,     \* the Company row: status and statusBeforeSuspend
          vehicle,     \* Vehicle.status
          doc,         \* ComplianceDocument rows
          kase,        \* ComplianceCase rows
          sweep,       \* the watchdog's run
          unreviewed,  \* history: vehicles added for review that no approval activated
          call,
          crashes, lapses,
          scope        \* requests at a time, crashes, lapses, cases, whether
                       \* suspensions are lifted, how the carrier starts, and the
                       \* kinds of request

vars == <<company, vehicle, doc, kase, sweep, unreviewed, call, crashes, lapses, scope>>
rest == <<crashes, lapses, scope>>

CompanyStatus == {"DRAFT", "PENDING_REVIEW", "INFO_REQUESTED", "BID_ELIGIBLE", "SUSPENDED",
                  "REJECTED"}
VehicleStatus == {"NONE", "PENDING_REVIEW", "ACTIVE", "SUSPENDED", "RETIRED", "DELETED"}
DocStatus     == {"NONE", "UPLOAD_PENDING", "UPLOADED", "UNDER_REVIEW", "APPROVED",
                  "REJECTED", "EXPIRED", "DELETED"}
CaseStatus    == {"NONE", "OPEN", "INFO_REQUESTED", "ESCALATED", "APPROVED", "REJECTED"}
Actionable    == {"OPEN", "INFO_REQUESTED", "ESCALATED"}
Waiting       == {"UPLOADED", "UNDER_REVIEW"}
OnFile        == Waiting \cup {"APPROVED"}

Company == [status : CompanyStatus, before : CompanyStatus \cup {"none"}]
(* vehicle is None for insurance; lapsed: expiresAt is past.               *)
Doc  == [status : DocStatus, vehicle : Vehicles \cup {None}, case : {0} \cup Cases,
         lapsed : BOOLEAN]
Case == [type : {"KYB", "RWC"}, status : CaseStatus]
NoDoc  == [status |-> "NONE", vehicle |-> None, case |-> 0, lapsed |-> FALSE]
NoCase == [type |-> "KYB", status |-> "NONE"]

Labels == {"idle", "add", "confirm", "attach", "join", "submit", "supplement", "approve", "reject",
           "info", "escalate", "disable", "retire", "reactivate", "delete",
           "suspend", "lift"}
(* docs: what the request read or is asked to file; asked: the case it     *)
(* read waited for information; stand: the company's status it read.       *)
Slot == [at : Labels, case : {0} \cup Cases, docs : SUBSET Docs, orphans : BOOLEAN,
         asked : BOOLEAN, vehicle : Vehicles \cup {None}, stand : CompanyStatus]
Idle == [at |-> "idle", case |-> 0, docs |-> {}, orphans |-> FALSE, asked |-> FALSE,
         vehicle |-> None, stand |-> "DRAFT"]
(* at: what the run does next with doc, a document it has marked EXPIRED.  *)
Sweep == [list : SUBSET Docs, doc : {0} \cup Docs, at : {"next", "vehicle", "company", "write"}]
Rested == [list |-> {}, doc |-> 0, at |-> "next"]

TypeOK == /\ company \in Company /\ vehicle \in [Vehicles -> VehicleStatus]
          /\ doc \in [Docs -> Doc] /\ kase \in [Cases -> Case]
          /\ sweep \in Sweep /\ unreviewed \in SUBSET Vehicles
          /\ call \in [Calls -> Slot]
          /\ crashes \in Nat /\ lapses \in Nat /\ scope \in Scopes

(* A carrier that has one vehicle and its papers: before its first         *)
(* submission, or reviewed.                                                *)
FirstVehicle == CHOOSE v \in Vehicles : TRUE
Init == /\ scope \in Scopes
        /\ company = [status |-> scope.start, before |-> "none"]
        /\ vehicle = [v \in Vehicles |-> IF v = FirstVehicle THEN "ACTIVE" ELSE "NONE"]
        /\ doc = [d \in Docs |->
                    IF d > 2 THEN NoDoc
                    ELSE [NoDoc EXCEPT
                            !.status = IF scope.start = "DRAFT" THEN "UPLOADED" ELSE "APPROVED",
                            !.vehicle = IF d = 1 THEN FirstVehicle ELSE None]]
        /\ kase = [k \in Cases |-> NoCase]
        /\ sweep = Rested /\ unreviewed = {}
        /\ call = [c \in Calls |-> Idle]
        /\ crashes = 0 /\ lapses = 0

-----------------------------------------------------------------------------
Busy == {c \in Calls : call[c].at # "idle"}

Begins(c, s) == /\ call[c].at = "idle" /\ Cardinality(Busy) < scope.width
                /\ call' = [call EXCEPT ![c] = s]
Ends(c)      == call' = [call EXCEPT ![c] = Idle]

Least(S)  == CHOOSE x \in S : \A y \in S : x <= y
Latest(S) == CHOOSE x \in S : \A y \in S : y <= x
Kept  == {d \in Docs : doc[d].status \notin {"NONE", "DELETED"}}
IsRwc(d) == doc[d].vehicle # None
Open(type) == {k \in Cases : kase[k].type = type /\ kase[k].status \in Actionable}
Unopened == {k \in Cases : kase[k].status = "NONE" /\ k <= scope.cases}
MayManage == company.status \notin {"SUSPENDED", "REJECTED"}

(* A case opened for the first time, or again when its answer was awaited. *)
Reopened(k, type) == [kase EXCEPT ![k] = [type |-> type, status |-> "OPEN"]]

-----------------------------------------------------------------------------
(* The fleet: addVehicle, disableVehicle, retireVehicle, reactivateVehicle,*)
(* deleteVehicle.                                                          *)

Free == {v \in Vehicles : vehicle[v] = "NONE"}

AddRead(c) ==
    /\ Free # {} /\ MayManage
    /\ Begins(c, [Idle EXCEPT !.at = "add", !.stand = company.status])
    /\ UNCHANGED <<company, vehicle, doc, kase, sweep, unreviewed, rest>>

AddWrite(c) ==
    /\ call[c].at = "add" /\ Free # {}
    /\ LET v == CHOOSE x \in Free : TRUE
           pending == call[c].stand = "BID_ELIGIBLE"
       IN /\ vehicle' = [vehicle EXCEPT ![v] = IF pending THEN "PENDING_REVIEW" ELSE "ACTIVE"]
          /\ unreviewed' = IF pending THEN unreviewed \cup {v} ELSE unreviewed
    /\ Ends(c)
    /\ UNCHANGED <<company, doc, kase, sweep, rest>>

Present(v) == vehicle[v] \notin {"NONE", "DELETED"}
LastActive(v) == vehicle[v] = "ACTIVE" /\ \A w \in Vehicles \ {v} : vehicle[w] # "ACTIVE"
MayDrop(v) == /\ Present(v) /\ MayManage
              /\ company.status = "BID_ELIGIBLE" => ~LastActive(v)

(* Not while the vehicle serves a trip; here trips are not modelled.       *)
DropRead(c, v, how) ==
    /\ MayDrop(v)
    /\ \/ how = "disable" /\ vehicle[v] \notin {"SUSPENDED", "RETIRED"}
       \/ how = "retire" /\ vehicle[v] # "RETIRED"
       \/ how = "delete"
    /\ Begins(c, [Idle EXCEPT !.at = how, !.vehicle = v])
    /\ UNCHANGED <<company, vehicle, doc, kase, sweep, unreviewed, rest>>

DropWrite(c) ==
    /\ \/ call[c].at = "disable" /\ vehicle' = [vehicle EXCEPT ![call[c].vehicle] = "SUSPENDED"]
       \/ call[c].at = "retire" /\ vehicle' = [vehicle EXCEPT ![call[c].vehicle] = "RETIRED"]
    /\ Present(call[c].vehicle)
    /\ Ends(c)
    /\ UNCHANGED <<company, doc, kase, sweep, unreviewed, rest>>

(* The vehicle's documents go with it. *)
DeleteWrite(c) ==
    /\ call[c].at = "delete" /\ Present(call[c].vehicle)
    /\ LET v == call[c].vehicle
       IN /\ vehicle' = [vehicle EXCEPT ![v] = "DELETED"]
          /\ doc' = [d \in Docs |-> IF doc[d].vehicle = v
                                    THEN [NoDoc EXCEPT !.status = "DELETED", !.vehicle = v]
                                    ELSE doc[d]]
    /\ Ends(c)
    /\ UNCHANGED <<company, kase, sweep, unreviewed, rest>>

ReactivateRead(c, v) ==
    /\ vehicle[v] \in {"SUSPENDED", "RETIRED"} /\ MayManage /\ scope.restore
    /\ Begins(c, [Idle EXCEPT !.at = "reactivate", !.vehicle = v])
    /\ UNCHANGED <<company, vehicle, doc, kase, sweep, unreviewed, rest>>

ReactivateWrite(c) ==
    /\ call[c].at = "reactivate" /\ Present(call[c].vehicle)
    /\ vehicle' = [vehicle EXCEPT ![call[c].vehicle] = "ACTIVE"]
    /\ Ends(c)
    /\ UNCHANGED <<company, doc, kase, sweep, unreviewed, rest>>

(* A write to a vehicle that is gone throws. *)
WriteThrows(c) ==
    /\ call[c].at \in {"disable", "retire", "delete", "reactivate"}
    /\ ~Present(call[c].vehicle)
    /\ Ends(c)
    /\ UNCHANGED <<company, vehicle, doc, kase, sweep, unreviewed, rest>>

-----------------------------------------------------------------------------
(* Documents: createUploadIntent, putContent, confirm.  The certificate of *)
(* a carrier that may bid joins the open RWC case, or opens one.           *)

Intent(v) ==
    /\ v # None => Present(v)
    /\ \E d \in Docs : /\ doc[d].status = "NONE" /\ \A x \in 1..(d - 1) : doc[x].status # "NONE"
                       /\ doc' = [doc EXCEPT ![d] = [NoDoc EXCEPT !.status = "UPLOAD_PENDING",
                                                                  !.vehicle = v]]
    /\ UNCHANGED <<company, vehicle, kase, sweep, unreviewed, call, rest>>

Put(d) ==
    /\ doc[d].status = "UPLOAD_PENDING"
    /\ doc' = [doc EXCEPT ![d].status = "UPLOADED"]
    /\ UNCHANGED <<company, vehicle, kase, sweep, unreviewed, call, rest>>

(* The RWC case found open, the newest, or 0 for a new one. *)
FleetCase == IF Open("RWC") = {} THEN 0 ELSE Latest(Open("RWC"))
Asked(k)  == k # 0 /\ kase[k].status = "INFO_REQUESTED"

ConfirmRead(c, d) ==
    /\ doc[d].status = "UPLOADED"
    /\ Begins(c, [Idle EXCEPT !.at = "confirm", !.docs = {d}, !.orphans = TRUE])
    /\ UNCHANGED <<company, vehicle, doc, kase, sweep, unreviewed, rest>>

ConfirmWrite(c) ==
    /\ call[c].at = "confirm"
    /\ \E d \in call[c].docs :
          /\ doc' = IF d \in Kept THEN [doc EXCEPT ![d].status = "UPLOADED"] ELSE doc
          /\ IF d \in Kept /\ IsRwc(d) /\ company.status = "BID_ELIGIBLE"
             THEN call' = [call EXCEPT ![c].at = "attach", ![c].case = FleetCase,
                                       ![c].asked = Asked(FleetCase)]
             ELSE Ends(c)
    /\ UNCHANGED <<company, vehicle, kase, sweep, unreviewed, rest>>

(* listVehicles files certificates that no case has (reconcile...ForOps).  *)
Loose(statuses) == {d \in Docs : IsRwc(d) /\ doc[d].case = 0 /\ doc[d].status \in statuses}

ListRead(c) ==
    /\ company.status = "BID_ELIGIBLE" /\ Loose(Waiting) # {}
    /\ Begins(c, [Idle EXCEPT !.at = "attach", !.docs = Loose(Waiting), !.case = FleetCase,
                              !.asked = Asked(FleetCase)])
    /\ UNCHANGED <<company, vehicle, doc, kase, sweep, unreviewed, rest>>

AttachCase(c) ==
    /\ call[c].at = "attach"
    /\ IF call[c].case = 0
       THEN /\ Unopened # {}
            /\ kase' = Reopened(Least(Unopened), "RWC")
            /\ call' = [call EXCEPT ![c].at = "join", ![c].case = Least(Unopened)]
       ELSE /\ kase' = IF call[c].asked THEN Reopened(call[c].case, "RWC") ELSE kase
            /\ call' = [call EXCEPT ![c].at = "join"]
    /\ UNCHANGED <<company, vehicle, doc, sweep, unreviewed, rest>>

Filed(ds, k) == [d \in Docs |-> IF d \in ds /\ d \in Kept
                                THEN [doc[d] EXCEPT !.case = k, !.status = "UNDER_REVIEW"]
                                ELSE doc[d]]

AttachDocs(c) ==
    /\ call[c].at = "join"
    /\ doc' = Filed(call[c].docs \cup (IF call[c].orphans THEN Loose({"UPLOADED"}) ELSE {}),
                    call[c].case)
    /\ Ends(c)
    /\ UNCHANGED <<company, vehicle, kase, sweep, unreviewed, rest>>

-----------------------------------------------------------------------------
(* The carrier submits: submitVerification (no look at its own status but  *)
(* for the answer to a question), and compliance.submit for papers that    *)
(* leave a reviewed company as it is.                                      *)

ActiveOnes == {v \in Vehicles : vehicle[v] = "ACTIVE"}
Insurance(statuses) == {d \in Docs : doc[d].vehicle = None /\ doc[d].status \in statuses}
RwcOf(v, statuses) == {d \in Docs : doc[d].vehicle = v /\ doc[d].status \in statuses}

SubmitRead(c, open) ==
    LET allowed == IF company.status = "INFO_REQUESTED" \/ Asked(open) THEN Waiting
                   ELSE {"UPLOADED"}
    IN /\ IF open = 0 THEN Open("KYB") = {} ELSE open \in Open("KYB") /\ Asked(open)
       /\ ActiveOnes # {} /\ \A v \in ActiveOnes : RwcOf(v, allowed) # {}
       /\ Insurance(allowed) # {}
       /\ Begins(c, [Idle EXCEPT !.at = "submit", !.case = open,
                                 !.docs = {Latest(Insurance(allowed))}
                                          \cup {Latest(RwcOf(v, allowed)) : v \in ActiveOnes}])
       /\ UNCHANGED <<company, vehicle, doc, kase, sweep, unreviewed, rest>>

SubmitWrite(c) ==
    /\ call[c].at = "submit" /\ (call[c].case # 0 \/ Unopened # {})
    /\ LET k == IF call[c].case # 0 THEN call[c].case ELSE Least(Unopened)
       IN kase' = Reopened(k, "KYB") /\ doc' = Filed(call[c].docs, k)
    /\ company' = [company EXCEPT !.status = "PENDING_REVIEW"]
    /\ Ends(c)
    /\ UNCHANGED <<vehicle, sweep, unreviewed, rest>>

SupplementRead(c) ==
    /\ Insurance({"UPLOADED"}) # {} /\ Open("KYB") \cup Open("RWC") = {}
    /\ Begins(c, [Idle EXCEPT !.at = "supplement", !.docs = Insurance({"UPLOADED"}),
                              !.stand = company.status])
    /\ UNCHANGED <<company, vehicle, doc, kase, sweep, unreviewed, rest>>

SupplementWrite(c) ==
    /\ call[c].at = "supplement" /\ Unopened # {}
    /\ kase' = Reopened(Least(Unopened), "KYB")
    /\ doc' = Filed(call[c].docs, Least(Unopened))
    /\ company' = IF call[c].stand \in {"BID_ELIGIBLE", "PENDING_REVIEW"} THEN company
                  ELSE [company EXCEPT !.status = "PENDING_REVIEW"]
    /\ Ends(c)
    /\ UNCHANGED <<vehicle, sweep, unreviewed, rest>>

-----------------------------------------------------------------------------
(* Staff decide a case: approve, reject, requestInfo, escalate; of an RWC  *)
(* case all or one vehicle (v).  The case and the company are read before  *)
(* the transaction that writes.                                            *)

InCase(k) == {d \in Docs : doc[d].case = k}

DecideRead(c, k, how, v) ==
    /\ kase[k].status \in Actionable
    /\ v # None => kase[k].type = "RWC" /\ how # "escalate"
    /\ Begins(c, [Idle EXCEPT !.at = how, !.case = k, !.docs = InCase(k), !.vehicle = v,
                              !.stand = company.status])
    /\ UNCHANGED <<company, vehicle, doc, kase, sweep, unreviewed, rest>>

(* The documents a decision is about, in the case as it is now.            *)
Judged(s) == {d \in InCase(s.case) : s.vehicle = None \/ doc[d].vehicle = s.vehicle}
Ruled(s, st) == [d \in Docs |-> IF d \in Judged(s) THEN [doc[d] EXCEPT !.status = st]
                                ELSE doc[d]]
(* The case is closed when nothing in it waits for review any more.        *)
ClosedEarly(s, st) == [kase EXCEPT ![s.case].status = st]  \* seeded fault
Closed(s, st) == IF \E d \in InCase(s.case) \ Judged(s) : doc[d].status \in Waiting
                 THEN kase ELSE [kase EXCEPT ![s.case].status = st]

(* Approval activates a vehicle that waits for it, and no other.           *)
ActivatedAny(v) == vehicle[v] \in {"PENDING_REVIEW", "SUSPENDED"}  \* seeded fault
Activated(v) == vehicle[v] = "PENDING_REVIEW"
Covered(s) == IF s.vehicle # None THEN {s.vehicle} ELSE {doc[d].vehicle : d \in s.docs} \ {None}

ApproveAssets(c) ==
    LET s == call[c]
        up == {v \in Covered(s) : Activated(v)}
    IN /\ s.at = "approve" /\ kase[s.case].type = "RWC"
       /\ doc' = Ruled(s, "APPROVED")
       /\ vehicle' = [v \in Vehicles |-> IF v \in up THEN "ACTIVE" ELSE vehicle[v]]
       /\ unreviewed' = unreviewed \ up
       /\ kase' = Closed(s, "APPROVED")
       /\ Ends(c)
       /\ UNCHANGED <<company, sweep, rest>>

ApproveCompany(c) ==
    LET s == call[c]
    IN /\ s.at = "approve" /\ kase[s.case].type = "KYB"
       /\ doc' = Ruled(s, "APPROVED")
       /\ kase' = [kase EXCEPT ![s.case].status = "APPROVED"]
       /\ company' = IF s.stand = "BID_ELIGIBLE" THEN company
                     ELSE [company EXCEPT !.status = "BID_ELIGIBLE"]
       /\ Ends(c)
       /\ UNCHANGED <<vehicle, sweep, unreviewed, rest>>

Keeps(s) == kase[s.case].type = "RWC" \/ s.stand = "BID_ELIGIBLE"

RejectWrite(c) ==
    LET s == call[c]
    IN /\ s.at = "reject"
       /\ doc' = Ruled(s, "REJECTED")
       /\ IF Keeps(s)
          THEN kase' = Closed(s, "REJECTED") /\ UNCHANGED company
          ELSE /\ kase' = [kase EXCEPT ![s.case].status = "REJECTED"]
               /\ company' = [company EXCEPT !.status = "REJECTED"]
       /\ Ends(c)
       /\ UNCHANGED <<vehicle, sweep, unreviewed, rest>>

InfoWrite(c) ==
    LET s == call[c]
    IN /\ s.at = "info"
       /\ doc' = IF s.vehicle # None THEN Ruled(s, "UPLOADED") ELSE doc
       /\ kase' = [kase EXCEPT ![s.case].status = "INFO_REQUESTED"]
       /\ company' = IF Keeps(s) THEN company ELSE [company EXCEPT !.status = "INFO_REQUESTED"]
       /\ Ends(c)
       /\ UNCHANGED <<vehicle, sweep, unreviewed, rest>>

EscalateWrite(c) ==
    /\ call[c].at = "escalate"
    /\ kase' = [kase EXCEPT ![call[c].case].status = "ESCALATED"]
    /\ Ends(c)
    /\ UNCHANGED <<company, vehicle, doc, sweep, unreviewed, rest>>

-----------------------------------------------------------------------------
(* A super admin suspends the company and lifts a suspension:              *)
(* disableCompany, reactivateCompany.                                      *)

DisableRead(c) ==
    /\ company.status \notin {"SUSPENDED", "DRAFT"}
    /\ Begins(c, [Idle EXCEPT !.at = "suspend", !.stand = company.status])
    /\ UNCHANGED <<company, vehicle, doc, kase, sweep, unreviewed, rest>>

DisableWrite(c) ==
    /\ call[c].at = "suspend"
    /\ company' = [status |-> "SUSPENDED", before |-> call[c].stand]
    /\ vehicle' = [v \in Vehicles |-> IF vehicle[v] \in {"ACTIVE", "PENDING_REVIEW"}
                                      THEN "SUSPENDED" ELSE vehicle[v]]
    /\ Ends(c)
    /\ UNCHANGED <<doc, kase, sweep, unreviewed, rest>>

(* The status before a suspension by the watchdog is not known. *)
LiftRead(c) ==
    /\ company.status = "SUSPENDED" /\ scope.restore
    /\ Begins(c, [Idle EXCEPT !.at = "lift",
                              !.stand = IF company.before = "none" THEN "PENDING_REVIEW"
                                        ELSE company.before])
    /\ UNCHANGED <<company, vehicle, doc, kase, sweep, unreviewed, rest>>

LiftWrite(c) ==
    /\ call[c].at = "lift"
    /\ company' = [status |-> call[c].stand, before |-> "none"]
    /\ vehicle' = [v \in Vehicles |-> IF vehicle[v] = "SUSPENDED" THEN "ACTIVE" ELSE vehicle[v]]
    /\ Ends(c)
    /\ UNCHANGED <<doc, kase, sweep, unreviewed, rest>>

-----------------------------------------------------------------------------
(* The watchdog: runExpiryWatchdog. *)

(* A certificate or a policy runs out. *)
Lapse(d) ==
    /\ d \in Kept /\ ~doc[d].lapsed /\ lapses < scope.lapses
    /\ doc' = [doc EXCEPT ![d].lapsed = TRUE]
    /\ lapses' = lapses + 1
    /\ UNCHANGED <<company, vehicle, kase, sweep, unreviewed, call, crashes, scope>>

Due == {d \in Docs : doc[d].lapsed /\ doc[d].status \in OnFile}

SweepStart ==
    /\ sweep = Rested /\ Due # {}
    /\ sweep' = [Rested EXCEPT !.list = Due]
    /\ UNCHANGED <<company, vehicle, doc, kase, unreviewed, call, rest>>

(* A document that is gone ends the run with an error. *)
SweepMark(d) ==
    /\ sweep.at = "next" /\ d \in sweep.list
    /\ IF d \in Kept
       THEN /\ doc' = [doc EXCEPT ![d].status = "EXPIRED"]
            /\ sweep' = [list |-> sweep.list \ {d}, doc |-> d, at |-> "vehicle"]
       ELSE sweep' = Rested /\ UNCHANGED doc
    /\ UNCHANGED <<company, vehicle, kase, unreviewed, call, rest>>

(* So does a vehicle that is gone.  Any other is suspended, also a retired *)
(* one.                                                                    *)
GroundsVerbatim(v) == "EXPIRED"  \* seeded fault
Grounds(v) == "SUSPENDED"

SweepVehicle ==
    /\ sweep.at = "vehicle"
    /\ LET v == doc[sweep.doc].vehicle
       IN IF v # None /\ ~Present(v)
          THEN sweep' = Rested /\ UNCHANGED vehicle
          ELSE /\ vehicle' = IF v = None THEN vehicle ELSE [vehicle EXCEPT ![v] = Grounds(v)]
               /\ sweep' = [sweep EXCEPT !.at = "company"]
    /\ UNCHANGED <<company, doc, kase, unreviewed, call, rest>>

SweepCompany ==
    /\ sweep.at = "company"
    /\ sweep' = IF company.status = "BID_ELIGIBLE" THEN [sweep EXCEPT !.at = "write"]
                ELSE [sweep EXCEPT !.at = "next", !.doc = 0]
    /\ UNCHANGED <<company, vehicle, doc, kase, unreviewed, call, rest>>

SweepWrite ==
    /\ sweep.at = "write"
    /\ company' = [company EXCEPT !.status = "SUSPENDED"]
    /\ sweep' = [sweep EXCEPT !.at = "next", !.doc = 0]
    /\ UNCHANGED <<vehicle, doc, kase, unreviewed, call, rest>>

(* The process dies, and with it the watchdog's run and every request.     *)
Crash ==
    /\ sweep # Rested \/ Busy # {}
    /\ crashes < scope.crashes /\ crashes' = crashes + 1
    /\ sweep' = Rested /\ call' = [c \in Calls |-> Idle]
    /\ UNCHANGED <<company, vehicle, doc, kase, unreviewed, lapses, scope>>

-----------------------------------------------------------------------------
Manages(c) == \/ "add" \in scope.kinds /\ AddRead(c)
              \/ "drop" \in scope.kinds
                 /\ \E v \in Vehicles : \/ ReactivateRead(c, v)
                                       \/ \E how \in {"disable", "retire", "delete"} :
                                             DropRead(c, v, how)
Files(c) == "file" \in scope.kinds /\ (ListRead(c) \/ \E d \in Docs : ConfirmRead(c, d))
Submits(c) == /\ "submit" \in scope.kinds
              /\ SupplementRead(c) \/ \E k \in {0} \cup Cases : SubmitRead(c, k)
Decides(c) ==
    /\ "decide" \in scope.kinds
    /\ \E k \in Cases, how \in {"approve", "reject", "info", "escalate"},
         v \in Vehicles \cup {None} : DecideRead(c, k, how, v)
Governs(c) == "admin" \in scope.kinds /\ (DisableRead(c) \/ LiftRead(c))
Receives(c) == Manages(c) \/ Files(c) \/ Submits(c) \/ Decides(c) \/ Governs(c)

Steps(c) == \/ AddWrite(c) \/ DropWrite(c) \/ DeleteWrite(c) \/ ReactivateWrite(c)
            \/ WriteThrows(c) \/ ConfirmWrite(c) \/ AttachCase(c) \/ AttachDocs(c)
            \/ SubmitWrite(c) \/ SupplementWrite(c)
            \/ ApproveAssets(c) \/ ApproveCompany(c) \/ RejectWrite(c) \/ InfoWrite(c) \/ EscalateWrite(c)
            \/ DisableWrite(c) \/ LiftWrite(c)

Watchdog == SweepStart \/ SweepVehicle \/ SweepCompany \/ SweepWrite \/ \E d \in Docs : SweepMark(d)

Next == \/ \E c \in Calls : Receives(c) \/ Steps(c)
        \/ \E v \in Vehicles \cup {None} : Intent(v)
        \/ \E d \in Docs : Put(d) \/ Lapse(d)
        \/ Watchdog \/ Crash

Spec == Init /\ [][Next]_vars

-----------------------------------------------------------------------------
(* Properties. *)

(* One request at a time, a document under review is in a case that staff  *)
(* can still decide: none is forgotten in a closed case, though one may be *)
(* judged alone, sent back, filed again or moved to another case           *)
(* (approve, reject, requestInfo, confirm, submitVerification).            *)
PendingIsListed ==
    scope.width = 1 => \A d \in Docs : doc[d].status = "UNDER_REVIEW" =>
        doc[d].case # 0 /\ kase[doc[d].case].status \in Actionable

(* Until someone lifts the suspension, a vehicle whose certificate the     *)
(* watchdog has expired does not drive, whatever is approved, renewed or   *)
(* deleted while the watchdog runs.                                        *)
LapsedIsGrounded ==
    ~scope.restore /\ crashes = 0 => \A d \in Docs :
        /\ doc[d].status = "EXPIRED" /\ IsRwc(d)
        /\ ~(sweep.doc = d /\ sweep.at = "vehicle")
        => vehicle[doc[d].vehicle] # "ACTIVE"

(* "Post-KYB adds need Super Admin approve before bid use": a vehicle that *)
(* was added for review is not active before an approval.                  *)
ReviewedBeforeUse == \A v \in unreviewed : vehicle[v] # "ACTIVE"
=============================================================================
