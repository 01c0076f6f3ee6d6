------------------------------ MODULE Repairs -------------------------------
(***************************************************************************)
(* Repair jobs: create with its warranty check, update with its table of   *)
(* transitions, add_part, and the margin that list shows.                  *)
(*                                                                         *)
(* update and add_part lock the job; create reads the original job of a    *)
(* warranty without a lock, so it is two steps here.  The PATCH handler    *)
(* refuses a null status, warranty or certificate.  A warranty may be of   *)
(* any length up to a bound.  Labour and charges are taken to be recorded: *)
(* without them list shows no margin; texts, quotes and the invoice        *)
(* reference decide nothing.                                               *)
(***************************************************************************)
EXTENDS Integers, FiniteSets

CONSTANTS
    Jobs, Parts,      \* ids chosen by the clients
    Serials, NoSerial,
    NoJob,            \* no row, or no original job
    MaxWarranty,      \* bound on warranty_days
    LastDay           \* bound on the days

Days == 1 .. LastDay
NoDay == 0

TRANSITIONS == [
    received          |-> {"diagnosing", "cancelled"},
    diagnosing        |-> {"awaiting_approval", "approved", "cancelled"},
    awaiting_approval |-> {"approved", "cancelled"},
    approved          |-> {"in_progress", "cancelled"},
    in_progress       |-> {"ready", "cancelled"},
    ready             |-> {"delivered", "in_progress", "cancelled"},
    delivered         |-> {},
    cancelled         |-> {}]

Statuses == DOMAIN TRANSITIONS
Over == {"delivered", "cancelled"}

Job == [status : Statuses, received : Days, delivered : Days \cup {NoDay},
        serial : Serials \cup {NoSerial}, parent : Jobs \cup {NoJob}, complete : BOOLEAN]

ASSUME RepairAssumption ==
    /\ NoJob \notin Jobs /\ NoJob \notin Job /\ NoSerial \notin Serials
    /\ MaxWarranty \in Nat /\ LastDay \in Nat \ {0}

VARIABLES
    today,        \* business_today()
    job,          \* repair_jobs
    part,         \* repair_parts: the job of each
    intake,       \* the warranty check of a create in progress
    certified     \* history: the parts of a job when its costs were certified

repairVars == <<today, job, part, intake, certified>>

NoIntake == [job |-> NoJob, parent |-> NoJob, serial |-> NoSerial, from |-> NoDay, until |-> NoDay]

RepairInit ==
    /\ today = 1
    /\ job = [j \in Jobs |-> NoJob]
    /\ part = [p \in Parts |-> NoJob]
    /\ intake = NoIntake
    /\ certified = [j \in Jobs |-> {}]

PartsOf(j) == {p \in Parts : part[p] = j}

Tomorrow ==
    /\ today < LastDay
    /\ today' = today + 1
    /\ UNCHANGED <<job, part, intake, certified>>

----------------------------------------------------------------------------
(* create                                                                  *)

NewJob(serial, received, parent) ==
    [status |-> "received", received |-> received, delivered |-> NoDay,
     serial |-> serial, parent |-> parent, complete |-> FALSE]

Create(j, serial, received) ==
    /\ job[j] = NoJob
    /\ received <= today
    /\ job' = [job EXCEPT ![j] = NewJob(serial, received, NoJob)]
    /\ UNCHANGED <<today, part, intake, certified>>

\* The original job was delivered, and its serial is known and the same.
Guaranteed(original, serial) ==
    /\ original.delivered # NoDay
    /\ original.serial # NoSerial /\ original.serial = serial

\* The original job is read, without a lock ...
CheckWarranty(j, parent, serial) ==
    /\ intake = NoIntake
    /\ job[j] = NoJob /\ job[parent] # NoJob
    /\ Guaranteed(job[parent], serial)
    /\ \E days \in 0 .. MaxWarranty :
          intake' = [job |-> j, parent |-> parent, serial |-> serial, from |-> job[parent].delivered,
                     until |-> job[parent].delivered + days]
    /\ UNCHANGED <<today, job, part, certified>>

\* ... and the return is inserted with what was read.  A second row of the id is refused.
InsertReturn(received) ==
    /\ intake # NoIntake
    /\ intake' = NoIntake
    /\ LET j == intake.job IN
       job' = IF job[j] = NoJob /\ received \in intake.from .. intake.until /\ received <= today
              THEN [job EXCEPT ![j] = NewJob(intake.serial, received, intake.parent)]
              ELSE job
    /\ UNCHANGED <<today, part, certified>>

----------------------------------------------------------------------------
(* update                                                                  *)

Legal(old, status) == status \in {old.status} \cup TRANSITIONS[old.status]

\* The date in the request, else the one on the row, else today; a null one is today.
DeliveredOn(old, status, given) ==
    IF status # "delivered" THEN old.delivered
    ELSE IF given # NoDay THEN given
    ELSE IF old.delivered # NoDay THEN old.delivered
    ELSE today

\* given is NoDay when the request has no date; nulled when it has a null one.
Update(j, status, given, nulled, certify) ==
    LET old == job[j]
        day == DeliveredOn(IF nulled THEN [old EXCEPT !.delivered = NoDay] ELSE old, status, given)
    IN  /\ old # NoJob
        /\ Legal(old, status)
        /\ IF status = "delivered" THEN day \in old.received .. today ELSE given = NoDay
        /\ job' = [job EXCEPT ![j] =
              [old EXCEPT !.status = status, !.delivered = day,
                          !.complete = IF certify THEN TRUE ELSE @]]
        /\ certified' = IF certify THEN [certified EXCEPT ![j] = PartsOf(j)] ELSE certified
        /\ UNCHANGED <<today, part, intake>>

\* The request takes the certificate back.
Withdraw(j) ==
    /\ job[j] # NoJob
    /\ job' = [job EXCEPT ![j].complete = FALSE]
    /\ UNCHANGED <<today, part, intake, certified>>

----------------------------------------------------------------------------
(* add_part                                                                *)

\* Mutant of Uncertified: a new part leaves the certificate of costs as it is.
UncertifiedKept(old) == old

Uncertified(old) == [old EXCEPT !.complete = FALSE]

AddPart(p, j) ==
    /\ job[j] # NoJob
    /\ job[j].status \notin Over
    /\ part[p] = NoJob
    /\ part' = [part EXCEPT ![p] = j]
    /\ job' = [job EXCEPT ![j] = Uncertified(@)]
    /\ UNCHANGED <<today, intake, certified>>

RepairNext ==
    \/ Tomorrow
    \/ \E j \in Jobs, serial \in Serials \cup {NoSerial}, received \in Days :
          Create(j, serial, received)
    \/ \E j, parent \in Jobs, serial \in Serials : CheckWarranty(j, parent, serial)
    \/ \E received \in Days : InsertReturn(received)
    \/ \E j \in Jobs, status \in Statuses, given \in Days \cup {NoDay}, nulled, certify \in BOOLEAN :
          Update(j, status, given, nulled, certify)
    \/ \E j \in Jobs : Withdraw(j)
    \/ \E p \in Parts, j \in Jobs : AddPart(p, j)

RepairSpec == RepairInit /\ [][RepairNext]_repairVars

----------------------------------------------------------------------------
\* list: when the margin of a job is shown.
MarginShown(j) ==
    LET row == job[j] IN
    row # NoJob /\ row.status = "delivered" /\ row.complete

RepairTypeOK ==
    /\ today \in Days
    /\ job \in [Jobs -> Job \cup {NoJob}]
    /\ part \in [Parts -> Jobs \cup {NoJob}]
    /\ intake \in [job : Jobs \cup {NoJob}, parent : Jobs \cup {NoJob}, serial : Serials \cup {NoSerial},
                   from : Days \cup {NoDay}, until : 0 .. LastDay + MaxWarranty]
    /\ certified \in [Jobs -> SUBSET Parts]

\* A margin is only shown over the very parts that its costs were certified with: a part
\* registered later takes the certificate back, and a closed job takes no part (add_part).
MarginIsCertified == \A j \in Jobs : MarginShown(j) => certified[j] = PartsOf(j)

\* A job has a delivery date exactly when it is delivered, between its reception and today,
\* through every correction of a delivered job (update).
DeliveryIsDated ==
    \A j \in Jobs : job[j] # NoJob =>
        /\ job[j].delivered # NoDay <=> job[j].status = "delivered"
        /\ job[j].delivered # NoDay => job[j].delivered \in job[j].received .. today

\* Every warranty return keeps resting on a delivered job with its serial, although the
\* check reads that job without a lock and anybody may correct it (create, update).
ReturnsAreBacked ==
    \A j \in Jobs : job[j] # NoJob /\ job[j].parent # NoJob =>
        LET original == job[job[j].parent] IN
        /\ original # NoJob /\ original.status = "delivered"
        /\ original.serial = job[j].serial /\ original.serial # NoSerial

\* The three promises of the repair desk: an honest margin, a true delivery, and a warranty
\* that rests on a job.
RepairsAreTrue == RepairTypeOK /\ MarginIsCertified /\ DeliveryIsDated /\ ReturnsAreBacked
=============================================================================
