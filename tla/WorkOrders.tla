------------------------------ MODULE WorkOrders ------------------------------
(***************************************************************************)
(* Alarms and inspection plans, and the two things they refer to: devices  *)
(* and users.  A request checks that what it refers to exists and may be   *)
(* used, writes, and for devices looks again after the write; whoever      *)
(* removes a device, or takes a user out of service, clears the references *)
(* to it.  Checks, writes, second looks and clean-ups are database calls   *)
(* of requests that interleave, and each request may fail between two.     *)
(*                                                                         *)
(* A removal is a transaction on a replica set (withTransaction), which is *)
(* modelled by what MongoDB does: it works on the documents that matched   *)
(* when it began, nobody else writes those until it commits, and what is   *)
(* written to other documents meanwhile escapes it.  On a standalone       *)
(* server it is a sequence of separate writes.                             *)
(***************************************************************************)
EXTENDS Naturals, FiniteSets

CONSTANTS
    Users, Devices,
    Alarms, Inspections, \* the documents there may be, each created once
    Requests,            \* requests under way at a time
    MaxAssignees,        \* bound: users a plan is assigned to
    MaxStarts,           \* bound: how often a plan is started
    MaxDocuments,        \* bound: alarms and plans created
    MaxCuts,             \* bound: clean-ups cut short and not repeated
    Nothing

ASSUME WorkOrdersAssumption ==
    /\ MaxAssignees \in Nat /\ MaxStarts \in Nat
    /\ MaxDocuments \in Nat /\ MaxCuts \in Nat
    /\ IsFiniteSet(Alarms) /\ IsFiniteSet(Inspections)
    /\ Nothing \notin Users \cup Devices \cup Alarms \cup Inspections
    /\ Users \cap Devices = {} /\ Alarms \cap Inspections = {}
    /\ Users \cap (Alarms \cup Inspections) = {}

VARIABLES
    topology,  \* of the database: "replica-set" or "standalone"
    user,      \* status of each user: "active", or "disabled" for every other one
    device,    \* the devices that exist
    alarm, inspection,
    request,   \* what each request under way has read and does next
    overlap,   \* pairs of a document and what it refers to: written while the user or
               \* device was being removed, or the user was out of service (history)
    cut        \* documents and users whose clean-up was cut short (history)

orderVars == <<topology, user, device, alarm, inspection, request, overlap, cut>>

\* constants/inspection.js
OpenStatuses == {"pending", "in_progress", "overdue"}
OverdueMarkable == OpenStatuses \ {"overdue"}
Startable == OpenStatuses \ {"in_progress"}
Submittable == OpenStatuses \ {"pending"}

NoAlarm == [status |-> "absent", handler |-> Nothing, device |-> Nothing, arrived |-> FALSE]
NoInspection ==
    [status |-> "absent", assigned |-> {}, devices |-> {}, findings |-> {},
     start |-> 0, starts |-> 0, reviewer |-> Nothing]

Request(op, step, doc, users, devices) ==
    [op |-> op, step |-> step, doc |-> doc, users |-> users, devices |-> devices,
     seen |-> 0, claims |-> {}]
NoRequest == Request("none", "done", Nothing, {}, {})

OrdersInit ==
    /\ topology \in {"replica-set", "standalone"}
    /\ user = [u \in Users |-> "active"]
    /\ device = Devices
    /\ alarm = [a \in Alarms |-> NoAlarm]
    /\ inspection = [i \in Inspections |-> NoInspection]
    /\ request = [r \in Requests |-> NoRequest]
    /\ overlap = {} /\ cut = {}

ActiveUsers == {u \in Users : user[u] = "active"}
Assignments == {us \in SUBSET ActiveUsers : Cardinality(us) <= MaxAssignees}
\* Requests begin on open documents: on a closed one they are refused at once.
OpenAlarms == {a \in Alarms : alarm[a].status \in {"pending", "processing"}}
OpenInspections == {i \in Inspections : inspection[i].status \in OpenStatuses}

Room ==
    Cardinality({a \in Alarms : alarm[a] # NoAlarm}) +
    Cardinality({i \in Inspections : inspection[i].status # "absent"}) < MaxDocuments

\* A document a transaction works on: another write waits for its end.
Claimed(doc) == \E r \in Requests : doc \in request[r].claims

\* Someone is taking x out of service.
Removing(x) ==
    \E r \in Requests :
        /\ request[r].op \in {"disable", "anonymise", "delete_device"}
        /\ x \in request[r].users \cup request[r].devices

Goes(r, to) == request' = [request EXCEPT ![r] = to]
Answers(r) == Goes(r, NoRequest)
Step(r, op, step) == request[r].op = op /\ request[r].step = step

-----------------------------------------------------------------------------
(* Alarms *)

\* reportAlarm: the device, if one is named, exists; the alarm is written.
ReportAlarm(r) ==
    /\ request[r] = NoRequest
    /\ \E ds \in {{}} \cup {{d} : d \in device} :
           Goes(r, Request("report", "write", Nothing, {}, ds))
    /\ UNCHANGED <<topology, user, device, alarm, inspection, cut>>

ReportWrites(r) ==
    /\ Step(r, "report", "write") /\ Room
    /\ \E a \in Alarms :
           /\ alarm[a] = NoAlarm
           /\ alarm' = [alarm EXCEPT ![a] =
                  [@ EXCEPT !.status = "pending",
                            !.device = IF request[r].devices = {} THEN Nothing
                                       ELSE CHOOSE d \in request[r].devices : TRUE]]
           /\ IF request[r].devices = {} THEN Answers(r)
              ELSE Goes(r, [request[r] EXCEPT !.step = "recheck", !.doc = a])
    /\ UNCHANGED <<topology, user, device, inspection, cut>>

\* dispatchAlarm: the handler is active when it is looked up.
Dispatch(r) ==
    /\ request[r] = NoRequest
    /\ \E a \in OpenAlarms, h \in ActiveUsers :
           Goes(r, Request("dispatch", "write", a, {h}, {}))
    /\ UNCHANGED <<topology, user, device, alarm, inspection, cut>>

DispatchWrites(r) ==
    /\ Step(r, "dispatch", "write")
    /\ ~Claimed(request[r].doc)
    /\ LET a == request[r].doc
       IN IF alarm[a].status = "pending"
          THEN \E h \in request[r].users :
                   alarm' = [alarm EXCEPT ![a] =
                       [@ EXCEPT !.status = "processing", !.handler = h]]
          ELSE UNCHANGED alarm
    /\ Answers(r)
    /\ UNCHANGED <<topology, user, device, inspection, cut>>

\* The operations of one conditional update each, by the user u.
AlarmStep(a, u, Allowed, changed) ==
    /\ ~Claimed(a) /\ Allowed
    /\ alarm' = [alarm EXCEPT ![a] = changed]
    /\ UNCHANGED <<topology, user, device, inspection, request, cut>>

Arrive(a, u) ==
    AlarmStep(a, u,
        alarm[a].status = "processing" /\ ~alarm[a].arrived /\ alarm[a].handler = u,
        [alarm[a] EXCEPT !.arrived = TRUE])

Resolve(a, u) ==
    AlarmStep(a, u, alarm[a].status = "processing" /\ alarm[a].handler = u,
        [alarm[a] EXCEPT !.status = "resolved"])

FalseAlarm(a, u) ==
    AlarmStep(a, u,
        alarm[a].status \in {"pending", "processing"} /\ alarm[a].handler \in {u, Nothing},
        [alarm[a] EXCEPT !.status = "false_alarm"])

CancelAlarm(a, u) ==
    AlarmStep(a, u, alarm[a].status = "pending" /\ alarm[a].handler \in {u, Nothing},
        [alarm[a] EXCEPT !.status = "cancelled"])

-----------------------------------------------------------------------------
(* Inspections *)

\* createInspection: the assignees are active and the devices exist.
Plan(r) ==
    /\ request[r] = NoRequest
    /\ \E us \in Assignments, ds \in SUBSET device :
           Goes(r, Request("plan", "write", Nothing, us, ds))
    /\ UNCHANGED <<topology, user, device, alarm, inspection, cut>>

NoRechecks(r, doc) == Answers(r)

\* After a write that named devices they are looked up again.
Rechecks(r, doc) ==
    IF request[r].devices = {} THEN Answers(r)
    ELSE Goes(r, [request[r] EXCEPT !.step = "recheck", !.doc = doc])

PlanWrites(r) ==
    /\ Step(r, "plan", "write") /\ Room
    /\ \E i \in Inspections :
           /\ inspection[i].status = "absent"
           /\ inspection' = [inspection EXCEPT ![i] =
                  [@ EXCEPT !.status = "pending", !.assigned = request[r].users,
                            !.devices = request[r].devices]]
           /\ Rechecks(r, i)
    /\ UNCHANGED <<topology, user, device, alarm, cut>>

\* updateInspection, of the assignees or of the devices.
Reassign(r) ==
    /\ request[r] = NoRequest
    /\ \E i \in OpenInspections, us \in Assignments :
           Goes(r, Request("reassign", "write", i, us, {}))
    /\ UNCHANGED <<topology, user, device, alarm, inspection, cut>>

ReassignWrites(r) ==
    /\ Step(r, "reassign", "write")
    /\ ~Claimed(request[r].doc)
    /\ LET i == request[r].doc
       IN IF inspection[i].status = "pending"
          THEN inspection' = [inspection EXCEPT ![i].assigned = request[r].users]
          ELSE UNCHANGED inspection
    /\ Answers(r)
    /\ UNCHANGED <<topology, user, device, alarm, cut>>

ChangeDevices(r) ==
    /\ request[r] = NoRequest
    /\ \E i \in OpenInspections, ds \in SUBSET device :
           Goes(r, Request("devices", "write", i, {}, ds))
    /\ UNCHANGED <<topology, user, device, alarm, inspection, cut>>

ChangeDevicesWrites(r) ==
    /\ Step(r, "devices", "write")
    /\ ~Claimed(request[r].doc)
    /\ LET i == request[r].doc
       IN IF inspection[i].status = "pending"
          THEN /\ inspection' = [inspection EXCEPT ![i].devices = request[r].devices]
               /\ Rechecks(r, i)
          ELSE UNCHANGED inspection /\ Answers(r)
    /\ UNCHANGED <<topology, user, device, alarm, cut>>

\* The assignee, or anybody when there is none.
Executes(i, u) == inspection[i].assigned = {} \/ u \in inspection[i].assigned

\* startInspection: the time of an earlier start is taken from the document the
\* controller has read.
Start(r) ==
    /\ request[r] = NoRequest
    /\ \E i \in OpenInspections, u \in Users :
           Goes(r, [Request("start", "write", i, {u}, {})
                    EXCEPT !.seen = inspection[i].start])
    /\ UNCHANGED <<topology, user, device, alarm, inspection, cut>>

StartTime(i, seen) == IF seen # 0 THEN seen ELSE inspection[i].starts + 1

StartWrites(r) ==
    /\ Step(r, "start", "write")
    /\ ~Claimed(request[r].doc)
    /\ LET i == request[r].doc
       IN IF inspection[i].status \in Startable /\ \E u \in request[r].users : Executes(i, u)
          THEN /\ inspection[i].starts < MaxStarts
               /\ inspection' = [inspection EXCEPT ![i] =
                      [@ EXCEPT !.status = "in_progress", !.starts = inspection[i].starts + 1,
                                !.start = StartTime(i, request[r].seen)]]
          ELSE UNCHANGED inspection
    /\ Answers(r)
    /\ UNCHANGED <<topology, user, device, alarm, cut>>

\* completeInspection: the devices of the findings exist.
Complete(r) ==
    /\ request[r] = NoRequest
    /\ \E i \in OpenInspections, u \in Users, ds \in SUBSET device :
           Goes(r, Request("complete", "write", i, {u}, ds))
    /\ UNCHANGED <<topology, user, device, alarm, inspection, cut>>

CompleteWrites(r) ==
    /\ Step(r, "complete", "write")
    /\ ~Claimed(request[r].doc)
    /\ LET i == request[r].doc
       IN IF inspection[i].status \in Submittable /\ \E u \in request[r].users : Executes(i, u)
          THEN /\ inspection' = [inspection EXCEPT ![i] =
                      [@ EXCEPT !.status = "completed", !.findings = request[r].devices]]
               /\ Rechecks(r, i)
          ELSE UNCHANGED inspection /\ Answers(r)
    /\ UNCHANGED <<topology, user, device, alarm, cut>>

InspectionStep(i, Allowed, changed) ==
    /\ ~Claimed(i) /\ Allowed
    /\ inspection' = [inspection EXCEPT ![i] = changed]
    /\ UNCHANGED <<topology, user, device, alarm, request, cut>>

Review(i, u) ==
    InspectionStep(i,
        /\ inspection[i].status = "completed" /\ inspection[i].reviewer = Nothing
        /\ u \notin inspection[i].assigned,
        [inspection[i] EXCEPT !.reviewer = u])

CancelInspection(i) ==
    InspectionStep(i, inspection[i].status \in OpenStatuses,
        [inspection[i] EXCEPT !.status = "cancelled"])

DeleteInspection(i) ==
    InspectionStep(i, inspection[i].status \notin {"absent", "deleted", "in_progress"},
        [NoInspection EXCEPT !.status = "deleted"])

\* markOverdueInspections: the plan's end may have passed at any time.
MarkOverdue(i) ==
    InspectionStep(i, inspection[i].status \in OverdueMarkable,
        [inspection[i] EXCEPT !.status = "overdue"])

-----------------------------------------------------------------------------
(* The second look, after an alarm or a plan was written *)

Recheck(r) ==
    /\ request[r].step = "recheck"
    /\ LET missing == request[r].devices \ device
       IN IF missing = {} THEN Answers(r)
          ELSE Goes(r, [request[r] EXCEPT !.step = "strip", !.devices = missing])
    /\ UNCHANGED <<topology, user, device, alarm, inspection, cut>>

\* An alarm or a plan without the devices ds.
AlarmWithout(x, ds) ==
    IF x.device \in ds THEN [x EXCEPT !.device = Nothing] ELSE x
InspectionWithout(x, ds) ==
    [x EXCEPT !.devices = @ \ ds, !.findings = @ \ ds]

Strip(r) ==
    /\ request[r].step = "strip"
    /\ LET doc == request[r].doc
       IN /\ ~Claimed(doc)
          /\ IF doc \in Alarms
             THEN /\ alarm' = [alarm EXCEPT ![doc] = AlarmWithout(@, request[r].devices)]
                  /\ UNCHANGED inspection
             ELSE /\ inspection' = [inspection EXCEPT ![doc] =
                         InspectionWithout(@, request[r].devices)]
                  /\ UNCHANGED alarm
    /\ Answers(r)
    /\ UNCHANGED <<topology, user, device, cut>>

-----------------------------------------------------------------------------
(* A user is taken out of service, a device is deleted *)

\* releaseOpenAssignments
HeldAnyInspections(us) ==
    {i \in Inspections : inspection[i].assigned \cap us # {}}
HeldUnlessOverdue(us) ==
    {i \in Inspections :
        inspection[i].status \in OverdueMarkable /\ inspection[i].assigned \cap us # {}}
HeldAlarms(us) ==
    {a \in Alarms : alarm[a].status = "processing" /\ alarm[a].handler \in us}
HeldInspections(us) ==
    {i \in Inspections :
        inspection[i].status \in OpenStatuses /\ inspection[i].assigned \cap us # {}}

ReleasedAlarms(docs) ==
    [a \in Alarms |->
        IF a \in docs
        THEN [alarm[a] EXCEPT !.status = "pending", !.handler = Nothing, !.arrived = FALSE]
        ELSE alarm[a]]
ReleasedInspections(docs, us) ==
    [i \in Inspections |->
        IF i \in docs THEN [inspection[i] EXCEPT !.assigned = @ \ us] ELSE inspection[i]]

\* A user is disabled or locked (updateUser, setUserLockStatus), or made anonymous
\* without a transaction: the status is saved, then the assignments are released.
\* The request may be repeated.
Disable(r) ==
    /\ request[r] = NoRequest
    /\ \E u \in Users :
           /\ user' = [user EXCEPT ![u] = "disabled"]
           /\ Goes(r, Request("disable", "alarms", Nothing, {u}, {}))
    /\ UNCHANGED <<topology, device, alarm, inspection, cut>>

DisableReleasesAlarms(r) ==
    /\ Step(r, "disable", "alarms")
    /\ LET held == HeldAlarms(request[r].users)
       IN /\ \A a \in held : ~Claimed(a)
          /\ alarm' = ReleasedAlarms(held)
    /\ Goes(r, [request[r] EXCEPT !.step = "inspections"])
    /\ UNCHANGED <<topology, user, device, inspection, cut>>

DisableReleasesInspections(r) ==
    /\ Step(r, "disable", "inspections")
    /\ LET held == HeldInspections(request[r].users)
       IN /\ \A i \in held : ~Claimed(i)
          /\ inspection' = ReleasedInspections(held, request[r].users)
    /\ cut' = cut \ request[r].users
    /\ Answers(r)
    /\ UNCHANGED <<topology, user, device, alarm>>

Enable(u) ==
    /\ user[u] = "disabled"
    /\ user' = [user EXCEPT ![u] = "active"]
    /\ cut' = cut \ {u}
    /\ UNCHANGED <<topology, device, alarm, inspection, request>>

\* The same in a transaction (anonymizeById).
Anonymise(r) ==
    /\ request[r] = NoRequest /\ topology = "replica-set"
    /\ \E u \in Users :
           LET held == HeldAlarms({u}) \cup HeldInspections({u})
           IN /\ \A doc \in held : ~Claimed(doc)
              /\ Goes(r, [Request("anonymise", "commit", Nothing, {u}, {})
                          EXCEPT !.claims = held])
    /\ UNCHANGED <<topology, user, device, alarm, inspection, cut>>

AnonymiseCommits(r) ==
    /\ Step(r, "anonymise", "commit")
    /\ user' = [u \in Users |-> IF u \in request[r].users THEN "disabled" ELSE user[u]]
    /\ alarm' = ReleasedAlarms(request[r].claims)
    /\ inspection' = ReleasedInspections(request[r].claims, request[r].users)
    /\ Answers(r)
    /\ UNCHANGED <<topology, device, cut>>

\* deleteDevice
Referring(ds) ==
    {a \in Alarms : alarm[a].device \in ds} \cup
    {i \in Inspections : (inspection[i].devices \cup inspection[i].findings) \cap ds # {}}

DeleteDevice(r) ==
    /\ request[r] = NoRequest
    /\ \E d \in device :
           LET begun == Request("delete_device", "alarms", Nothing, {}, {d})
           IN IF topology = "standalone" THEN Goes(r, begun)
              ELSE /\ \A doc \in Referring({d}) : ~Claimed(doc)
                   /\ Goes(r, [begun EXCEPT !.step = "commit", !.claims = Referring({d})])
    /\ UNCHANGED <<topology, user, device, alarm, inspection, cut>>

DeleteCommits(r) ==
    /\ Step(r, "delete_device", "commit")
    /\ LET ds == request[r].devices  docs == request[r].claims
       IN /\ alarm' = [a \in Alarms |->
                 IF a \in docs THEN AlarmWithout(alarm[a], ds) ELSE alarm[a]]
          /\ inspection' = [i \in Inspections |->
                 IF i \in docs THEN InspectionWithout(inspection[i], ds) ELSE inspection[i]]
          /\ device' = device \ ds
    /\ Answers(r)
    /\ UNCHANGED <<topology, user, cut>>

\* Standalone: the alarms, the plans, their findings and the device in turn.
DeleteClearsAlarms(r) ==
    /\ Step(r, "delete_device", "alarms")
    /\ alarm' = [a \in Alarms |-> AlarmWithout(alarm[a], request[r].devices)]
    /\ Goes(r, [request[r] EXCEPT !.step = "inspections"])
    /\ UNCHANGED <<topology, user, device, inspection, cut>>

DeleteClearsInspections(r) ==
    /\ Step(r, "delete_device", "inspections")
    /\ inspection' = [i \in Inspections |->
           [inspection[i] EXCEPT !.devices = @ \ request[r].devices]]
    /\ Goes(r, [request[r] EXCEPT !.step = "findings"])
    /\ UNCHANGED <<topology, user, device, alarm, cut>>

DeleteClearsFindings(r) ==
    /\ Step(r, "delete_device", "findings")
    /\ inspection' = [i \in Inspections |->
           [inspection[i] EXCEPT !.findings = @ \ request[r].devices]]
    /\ Goes(r, [request[r] EXCEPT !.step = "device"])
    /\ UNCHANGED <<topology, user, device, alarm, cut>>

DeleteEnds(r) ==
    /\ Step(r, "delete_device", "device")
    /\ device' = device \ request[r].devices
    /\ Answers(r)
    /\ UNCHANGED <<topology, user, alarm, inspection, cut>>

-----------------------------------------------------------------------------
\* A request fails between two of its steps: its process dies, or the database
\* refuses the next call.  A transaction leaves nothing behind.
Fail(r) ==
    /\ request[r] # NoRequest
    /\ cut' = cut \cup
           (IF request[r].step \in {"recheck", "strip"} THEN {request[r].doc} ELSE {}) \cup
           (IF request[r].op = "disable" THEN request[r].users ELSE {})
    /\ Cardinality(cut') <= MaxCuts
    /\ Answers(r)
    /\ UNCHANGED <<topology, user, device, alarm, inspection>>

RequestStep(r) ==
    \/ ReportAlarm(r) \/ ReportWrites(r) \/ Dispatch(r) \/ DispatchWrites(r)
    \/ Plan(r) \/ PlanWrites(r) \/ Reassign(r) \/ ReassignWrites(r)
    \/ ChangeDevices(r) \/ ChangeDevicesWrites(r)
    \/ Start(r) \/ StartWrites(r) \/ Complete(r) \/ CompleteWrites(r)
    \/ Recheck(r) \/ Strip(r) \/ Fail(r)

RemovalStep(r) ==
    \/ Disable(r) \/ DisableReleasesAlarms(r) \/ DisableReleasesInspections(r)
    \/ Anonymise(r) \/ AnonymiseCommits(r)
    \/ DeleteDevice(r) \/ DeleteCommits(r)
    \/ DeleteClearsAlarms(r) \/ DeleteClearsInspections(r)
    \/ DeleteClearsFindings(r) \/ DeleteEnds(r)

SingleUpdate ==
    \/ \E a \in Alarms, u \in Users :
           Arrive(a, u) \/ Resolve(a, u) \/ FalseAlarm(a, u) \/ CancelAlarm(a, u)
    \/ \E i \in Inspections :
           \/ CancelInspection(i) \/ DeleteInspection(i) \/ MarkOverdue(i)
           \/ \E u \in Users : Review(i, u)
    \/ \E u \in Users : Enable(u)

\* What a document refers to: its devices, and the users an open one waits for.
Refs(doc) ==
    IF doc \in Alarms
    THEN ({alarm[doc].device} \ {Nothing}) \cup
         (IF alarm[doc].status = "processing" THEN {alarm[doc].handler} ELSE {})
    ELSE inspection[doc].devices \cup inspection[doc].findings \cup
         (IF inspection[doc].status \in OpenStatuses THEN inspection[doc].assigned ELSE {})

\* The history that goes with every step.
Overlaps ==
    IF UNCHANGED <<alarm, inspection>> THEN UNCHANGED overlap
    ELSE overlap' =
        {p \in (Alarms \cup Inspections) \X (Users \cup Devices) :
            /\ p[2] \in Refs(p[1])'
            /\ \/ p \in overlap
               \/ p[2] \notin Refs(p[1]) /\ (Removing(p[2]) \/ p[2] \in Users \ ActiveUsers)}

OrdersNext ==
    /\ SingleUpdate \/ \E r \in Requests : RequestStep(r) \/ RemovalStep(r)
    /\ Overlaps

OrdersSpec == OrdersInit /\ [][OrdersNext]_orderVars

-----------------------------------------------------------------------------
(* Properties *)

\* The device that a document refers to will be looked up again.
Rechecking(doc, d) ==
    \E r \in Requests :
        /\ request[r].step \in {"recheck", "strip"}
        /\ request[r].doc = doc /\ d \in request[r].devices

\* A reference to a deleted device (deleteDevice, detachDevice,
\* removeMissingDeviceRefs) is about to be looked up again, or the request that
\* wrote it failed before it could, or it was written while the deletion was under
\* way: the deletion no longer saw the reference and the request still saw the device.
DanglingNeedsOverlap ==
    \A doc \in Alarms \cup Inspections : \A d \in (Refs(doc) \cap Devices) \ device :
        Rechecking(doc, d) \/ doc \in cut \/ <<doc, d>> \in overlap

\* An alarm or an open plan assigned to a user who is out of service
\* (releaseOpenAssignments) is about to be released, or the release failed half way,
\* or it was assigned on the strength of a status read before the user left.
StuckNeedsOverlap ==
    \A doc \in Alarms \cup Inspections : \A u \in (Refs(doc) \cap Users) \ ActiveUsers :
        Removing(u) \/ u \in cut \/ <<doc, u>> \in overlap

\* What was closed stays as it was, whatever the scheduler, a late request or a
\* release does: its status, who handled it and who was assigned to it.
ClosedIsFinal ==
    [][/\ \A a \in Alarms :
              alarm[a].status \in {"resolved", "false_alarm", "cancelled"} =>
                  /\ alarm'[a].status = alarm[a].status
                  /\ alarm'[a].handler = alarm[a].handler
       /\ \A i \in Inspections :
              inspection[i].status \in {"completed", "cancelled"} =>
                  \/ inspection'[i].status = "deleted"
                  \/ /\ inspection'[i].status = inspection[i].status
                     /\ inspection'[i].assigned = inspection[i].assigned
                     /\ inspection[i].reviewer # Nothing =>
                            inspection'[i].reviewer = inspection[i].reviewer]_orderVars

\* The time a plan was first started is written once (startInspection).
FirstStartStays ==
    [][\A i \in Inspections :
           inspection[i].start # 0 =>
               inspection'[i].start = inspection[i].start
               \/ inspection'[i].status = "deleted"]_orderVars
=============================================================================
