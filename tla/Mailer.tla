------------------------------- MODULE Mailer -------------------------------
(***************************************************************************)
(* E-mail campaigns: administrators schedule, edit, cancel and delete them;  *)
(* the dispatcher of each server process claims those that are due and       *)
(* sends them.                                                              *)
(*                                                                          *)
(* An action is one database statement, or one call of the mail service.     *)
(***************************************************************************)
EXTENDS Naturals, FiniteSets, Mishaps \* a dispatcher throws or dies

CONSTANTS
  Campaigns,
  Members,     \* active members with an address
  Blanks,      \* which of them may have a blank one, a set of sets
  Instances,   \* server processes, each with a dispatcher
  Requests,    \* requests of administrators that can be in flight at once
  Batch,       \* recipients read at once (50)
  MaxMails,    \* bound: how many mails of a campaign a member gets
  MaxCalls,    \* bound: how many requests there are
  NoCampaign, NoMember

ASSUME MailerAssumption == Blanks \subseteq SUBSET Members /\ MaxMails \in Nat /\ MaxCalls \in Nat

VARIABLES
  campaign,  \* EmailCampaign.status, "deleted" if the row is gone
  due,       \* its scheduledAt has come
  gift,      \* it has a voucherDefinitionId
  counts,    \* its sentCount and failedCount
  recipient, \* EmailCampaignRecipient.status, "none" if there is no row
  vouchers,  \* how many vouchers of the campaign a member has
  blank,     \* members whose address is blank
  mails,     \* history: how many mails of the campaign a member got
  run,       \* local state of each dispatcher
  req,       \* what a request has read and is about to write
  overtaken, \* history: campaigns a request wrote although they had been claimed since it read
  calls

rows == <<campaign, due, gift, counts>>
memberRows == <<recipient, vouchers, blank, mails>>
admin == <<req, overtaken, calls>>

mailerVars == <<rows, memberRows, run, admin, mishaps>>

EditableStatuses == {"DRAFT", "SCHEDULED"}
CampaignStatus == EditableStatuses \cup {"SENDING", "SENT", "CANCELLED", "FAILED"}
RecipientStatus == {"PENDING", "SENT", "FAILED", "SKIPPED"}
Operations == {"edit", "schedule", "cancel", "delete"}

LocalState == [
  step   : {"idle", "claim", "start", "refuse", "list", "prior", "fetch", "each", "find",
            "issue", "send", "mark", "count", "finish"},
  queue  : SUBSET Campaigns,             \* due campaigns still to claim
  at     : Campaigns \cup {NoCampaign},  \* the campaign it sends
  gift   : BOOLEAN,                      \* voucherDef is set
  batch  : SUBSET Members,
  to     : Members \cup {NoMember},      \* the recipient it is at
  result : {"SENT", "FAILED"},
  sent   : Nat,
  failed : Nat]

\* dispatching is false.
NoRun == [step |-> "idle", queue |-> {}, at |-> NoCampaign, gift |-> FALSE, batch |-> {},
         to |-> NoMember, result |-> "SENT", sent |-> 0, failed |-> 0]

NoRequest == [op |-> "none", at |-> NoCampaign]

MailerTypes ==
  /\ campaign \in [Campaigns -> CampaignStatus \cup {"deleted"}]
  /\ due \in [Campaigns -> BOOLEAN] /\ gift \in [Campaigns -> BOOLEAN]
  /\ counts \in [Campaigns -> [sent : Nat, failed : Nat]]
  /\ recipient \in [Campaigns -> [Members -> RecipientStatus \cup {"none"}]]
  /\ vouchers \in [Campaigns -> [Members -> Nat]]
  /\ blank \subseteq Members
  /\ mails \in [Campaigns -> [Members -> 0..MaxMails]]
  /\ run \in [Instances -> LocalState]
  /\ req \in [Requests -> [op : Operations, at : Campaigns] \cup {NoRequest}]
  /\ overtaken \subseteq Campaigns
  /\ calls \in 0..MaxCalls /\ mishaps \in 0..MaxMishaps

MailerInit ==
  /\ campaign = [c \in Campaigns |-> "DRAFT"]
  /\ due = [c \in Campaigns |-> FALSE]
  /\ gift \in [Campaigns -> BOOLEAN]
  /\ counts = [c \in Campaigns |-> [sent |-> 0, failed |-> 0]]
  /\ recipient = [c \in Campaigns |-> [m \in Members |-> "none"]]
  /\ vouchers = [c \in Campaigns |-> [m \in Members |-> 0]]
  /\ blank \in Blanks
  /\ mails = [c \in Campaigns |-> [m \in Members |-> 0]]
  /\ run = [i \in Instances |-> NoRun]
  /\ req = [r \in Requests |-> NoRequest]
  /\ overtaken = {}
  /\ calls = 0 /\ mishaps = 0

---------------------------------------------------------------------------
(* Administrators: the status is read, and later the row written by its id *)

Allowed(op, status) ==
  \/ op \in {"edit", "schedule"} /\ status \in EditableStatuses
  \/ op = "cancel" /\ status = "SCHEDULED"
  \/ op = "delete" /\ status \notin {"SENDING", "SCHEDULED", "deleted"}

\* updateCampaign, scheduleCampaign, cancelCampaign or deleteCampaign begins.
AdminRead(r, op, c) ==
  /\ req[r] = NoRequest
  /\ calls < MaxCalls /\ calls' = calls + 1
  /\ Allowed(op, campaign[c])
  /\ req' = [req EXCEPT ![r] = [op |-> op, at |-> c]]
  /\ UNCHANGED <<rows, memberRows, run, overtaken, mishaps>>

\* The write of a request; if the row is gone it throws, and nothing changes.
Writes(r, op) ==
  /\ req[r].op = op
  /\ req' = [req EXCEPT ![r] = NoRequest]
  /\ overtaken' = overtaken \cup {c \in {req[r].at} : op # "edit" /\ campaign[c] = "SENDING"}
  /\ UNCHANGED <<counts, vouchers, blank, mails, run, calls, mishaps>>

Exists(c) == campaign[c] # "deleted"
To(c, status) == campaign' = IF Exists(c) THEN [campaign EXCEPT ![c] = status] ELSE campaign

EditWrite(r) ==
  /\ Writes(r, "edit")
  /\ gift' = [gift EXCEPT ![req[r].at] = ~@]
  /\ UNCHANGED <<campaign, due, recipient>>

ScheduleWrite(r) ==
  /\ Writes(r, "schedule")
  /\ To(req[r].at, "SCHEDULED")
  /\ \E now \in BOOLEAN : due' = [due EXCEPT ![req[r].at] = now]
  /\ UNCHANGED <<gift, recipient>>

CancelWrite(r) ==
  /\ Writes(r, "cancel")
  /\ To(req[r].at, "CANCELLED")
  /\ due' = [due EXCEPT ![req[r].at] = FALSE]
  /\ UNCHANGED <<gift, recipient>>

\* The rows of the recipients are deleted with the campaign.
DeleteWrite(r) ==
  /\ Writes(r, "delete")
  /\ campaign' = [campaign EXCEPT ![req[r].at] = "deleted"]
  /\ recipient' = [recipient EXCEPT ![req[r].at] = [m \in Members |-> "none"]]
  /\ UNCHANGED <<due, gift>>

\* The time a campaign is scheduled at comes.
TimeComes(c) ==
  /\ campaign[c] = "SCHEDULED" /\ ~due[c]
  /\ due' = [due EXCEPT ![c] = TRUE]
  /\ UNCHANGED <<campaign, gift, counts, memberRows, run, admin, mishaps>>

---------------------------------------------------------------------------
(* The dispatcher *)

RunAt(i, s) == run[i].step = s
RunTo(i, s) == run' = [run EXCEPT ![i].step = s]

\* The loop over the due campaigns goes on, or the tick is over.
Resume(q) == IF q = {} THEN NoRun ELSE [NoRun EXCEPT !.step = "claim", !.queue = q]

\* Tick: the due campaigns are read; dispatching keeps the ticks of an instance apart.
FindDue(i) ==
  LET found == {c \in Campaigns : campaign[c] = "SCHEDULED" /\ due[c]}
  IN
  /\ run[i] = NoRun /\ found # {}
  /\ run' = [run EXCEPT ![i] = Resume(found)]
  /\ UNCHANGED <<rows, memberRows, admin, mishaps>>

\* Mutant: the claim does not look at the status.
ClaimableAny(c) == Exists(c)

Claimable(c) == campaign[c] = "SCHEDULED"

\* One of them is claimed, unless somebody else has or it was cancelled.
Claim(i) ==
  /\ RunAt(i, "claim")
  /\ \E c \in run[i].queue :
       LET rest == run[i].queue \ {c} IN
       IF Claimable(c)
       THEN /\ campaign' = [campaign EXCEPT ![c] = "SENDING"]
            /\ run' = [run EXCEPT ![i] = [NoRun EXCEPT !.step = "start", !.queue = rest, !.at = c]]
       ELSE /\ run' = [run EXCEPT ![i] = Resume(rest)]
            /\ UNCHANGED campaign
  /\ UNCHANGED <<due, gift, counts, memberRows, admin, mishaps>>

\* runCampaign reads the campaign; mail may not be configured, or its voucher inactive.
Start(i) ==
  LET c == run[i].at IN
  /\ RunAt(i, "start")
  /\ \/ ~Exists(c) /\ run' = [run EXCEPT ![i] = Resume(@.queue)]
     \/ Exists(c) /\ RunTo(i, "refuse")
     \/ Exists(c) /\ run' = [run EXCEPT ![i].step = "list", ![i].gift = gift[c]]
  /\ UNCHANGED <<rows, memberRows, admin, mishaps>>

\* A statement that writes a row that is gone throws; the finally block resets dispatching.
Throws(i) ==
  /\ ~Exists(run[i].at)
  /\ run' = [run EXCEPT ![i] = NoRun]
  /\ UNCHANGED <<campaign, counts, recipient>>

Refuse(i) ==
  LET c == run[i].at IN
  /\ RunAt(i, "refuse")
  /\ \/ Throws(i)
     \/ /\ Exists(c) /\ To(c, "FAILED")
        /\ run' = [run EXCEPT ![i] = Resume(@.queue)]
        /\ UNCHANGED <<counts, recipient>>
  /\ UNCHANGED <<due, gift, vouchers, blank, mails, admin, mishaps>>

\* The audience is read, whoever has joined or unsubscribed, and each of them who has no row
\* gets one.
ListRecipients(i) ==
  LET c == run[i].at IN
  /\ RunAt(i, "list")
  /\ \/ Throws(i)
     \/ /\ Exists(c) /\ RunTo(i, "prior")
        /\ \E audience \in SUBSET Members :
             recipient' = [recipient EXCEPT ![c] = [m \in Members |->
               IF m \in audience /\ @[m] = "none" THEN "PENDING" ELSE @[m]]]
        /\ UNCHANGED <<campaign, counts>>
  /\ UNCHANGED <<due, gift, vouchers, blank, mails, admin, mishaps>>

With(c, status) == {m \in Members : recipient[c][m] = status}

\* What earlier runs have sent is counted.
CountPrior(i) ==
  LET c == run[i].at IN
  /\ RunAt(i, "prior")
  /\ run' = [run EXCEPT ![i].step = "fetch", ![i].sent = Cardinality(With(c, "SENT")),
                        ![i].failed = Cardinality(With(c, "FAILED"))]
  /\ UNCHANGED <<rows, memberRows, admin, mishaps>>

\* The next batch of recipients, if any.
FetchBatch(i) ==
  LET pending == With(run[i].at, "PENDING") IN
  /\ RunAt(i, "fetch")
  /\ IF pending = {} THEN RunTo(i, "finish")
     ELSE \E b \in SUBSET pending :
            /\ Cardinality(b) = Batch \/ (b = pending /\ Cardinality(b) < Batch)
            /\ run' = [run EXCEPT ![i].step = "each", ![i].batch = b]
  /\ UNCHANGED <<rows, memberRows, admin, mishaps>>

\* Mutant: one batch only.
OnwardOnce(l) == LET b == l.batch \ {l.to} IN
  [l EXCEPT !.batch = b, !.to = NoMember, !.step = IF b = {} THEN "finish" ELSE "each"]

\* Done with a recipient: the next one of the batch, or the next batch.
Onward(l) == LET b == l.batch \ {l.to} IN
  [l EXCEPT !.batch = b, !.to = NoMember, !.step = IF b = {} THEN "fetch" ELSE "each"]

\* Mutant: the row is left as it is.
SkippedNot(c, m) == recipient

Skipped(c, m) == [recipient EXCEPT ![c][m] = "SKIPPED"]

\* A recipient of the batch; one without address is skipped.
NextRecipient(i) ==
  /\ RunAt(i, "each")
  /\ \E m \in run[i].batch :
       \/ m \in blank /\ Throws(i)
       \/ /\ m \in blank /\ Exists(run[i].at)
          /\ recipient' = Skipped(run[i].at, m)
          /\ run' = [run EXCEPT ![i] = Onward([@ EXCEPT !.to = m])]
          /\ UNCHANGED <<campaign, counts>>
       \/ /\ m \notin blank
          /\ run' = [run EXCEPT ![i].to = m, ![i].step = IF run[i].gift THEN "find" ELSE "send"]
          /\ UNCHANGED <<campaign, counts, recipient>>
  /\ UNCHANGED <<due, gift, vouchers, blank, mails, admin, mishaps>>

\* ensureCampaignVoucher looks for the voucher ...
FindVoucher(i) ==
  /\ RunAt(i, "find")
  /\ RunTo(i, IF vouchers[run[i].at][run[i].to] > 0 THEN "send" ELSE "issue")
  /\ UNCHANGED <<rows, memberRows, admin, mishaps>>

\* ... and creates it.
IssueVoucher(i) ==
  /\ RunAt(i, "issue") /\ RunTo(i, "send")
  /\ vouchers' = [vouchers EXCEPT ![run[i].at][run[i].to] = @ + 1]
  /\ UNCHANGED <<rows, recipient, blank, mails, admin, mishaps>>

\* The mail goes out, or the mail service refuses it.
Send(i) ==
  LET c == run[i].at
      m == run[i].to
  IN
  /\ RunAt(i, "send")
  /\ \/ /\ mails[c][m] < MaxMails /\ mails' = [mails EXCEPT ![c][m] = @ + 1]
        /\ run' = [run EXCEPT ![i].step = "mark", ![i].result = "SENT", ![i].sent = @ + 1]
     \/ /\ run' = [run EXCEPT ![i].step = "mark", ![i].result = "FAILED", ![i].failed = @ + 1]
        /\ UNCHANGED mails
  /\ UNCHANGED <<rows, recipient, vouchers, blank, admin, mishaps>>

\* The row of the recipient is marked, ...
Mark(i) ==
  LET c == run[i].at IN
  /\ RunAt(i, "mark")
  /\ \/ Throws(i)
     \/ /\ Exists(c) /\ RunTo(i, "count")
        /\ recipient' = [recipient EXCEPT ![c][run[i].to] = run[i].result]
        /\ UNCHANGED <<campaign, counts>>
  /\ UNCHANGED <<due, gift, vouchers, blank, mails, admin, mishaps>>

Tally(i) ==
  counts' = [counts EXCEPT ![run[i].at] = [sent |-> run[i].sent, failed |-> run[i].failed]]

\* ... and the campaign's counts are written.
Count(i) ==
  /\ RunAt(i, "count")
  /\ \/ Throws(i)
     \/ /\ Exists(run[i].at) /\ Tally(i)
        /\ run' = [run EXCEPT ![i] = Onward(@)]
        /\ UNCHANGED <<campaign, recipient>>
  /\ UNCHANGED <<due, gift, vouchers, blank, mails, admin, mishaps>>

\* All are done: the campaign has failed if none was sent and some failed.
Finish(i) ==
  LET c == run[i].at IN
  /\ RunAt(i, "finish")
  /\ \/ Throws(i)
     \/ /\ Exists(c) /\ Tally(i)
        /\ To(c, IF run[i].sent = 0 /\ run[i].failed > 0 THEN "FAILED" ELSE "SENT")
        /\ run' = [run EXCEPT ![i] = Resume(@.queue)]
        /\ UNCHANGED recipient
  /\ UNCHANGED <<due, gift, vouchers, blank, mails, admin, mishaps>>

\* A statement throws, or the process dies and is started again.
Stop(i) ==
  /\ run[i] # NoRun
  /\ Mishap
  /\ run' = [run EXCEPT ![i] = NoRun]
  /\ UNCHANGED <<rows, memberRows, admin>>

Dispatch(i) ==
  \/ FindDue(i) \/ Claim(i) \/ Start(i) \/ Refuse(i) \/ ListRecipients(i) \/ CountPrior(i)
  \/ FetchBatch(i) \/ NextRecipient(i) \/ FindVoucher(i) \/ IssueVoucher(i) \/ Send(i) \/ Mark(i)
  \/ Count(i) \/ Finish(i)

MailerNext ==
  \/ \E i \in Instances : Dispatch(i) \/ Stop(i)
  \/ \E r \in Requests :
       \/ \E op \in Operations, c \in Campaigns : AdminRead(r, op, c)
       \/ EditWrite(r) \/ ScheduleWrite(r) \/ CancelWrite(r) \/ DeleteWrite(r)
  \/ \E c \in Campaigns : TimeComes(c)

\* The timers of a process go on, and so does what it has begun.
MailerFairness == \A i \in Instances : WF_mailerVars(Dispatch(i))

MailerSpec == MailerInit /\ [][MailerNext]_mailerVars
FairSpec == MailerSpec /\ MailerFairness

---------------------------------------------------------------------------
(* Properties *)

Finished == {"SENT", "FAILED"}

\* However many instances dispatch, and wherever one of them stops, a member gets a campaign's
\* mail and its voucher at most once, and the voucher first, unless a request that read the
\* campaign before it was claimed writes it afterwards (dispatchDueCampaigns, runCampaign).
OneMailOneGift ==
  \A c \in Campaigns \ overtaken :
    /\ \A m \in Members : mails[c][m] <= 1 /\ vouchers[c][m] <= 1
    /\ \A i \in Instances : RunAt(i, "mark") /\ run[i].at = c /\ run[i].gift =>
         vouchers[c][run[i].to] = 1

\* A campaign that is over has dealt with every recipient, and its counts are right, also if
\* it was sent in two runs, with the same exception (the loop and the counts of runCampaign).
FinishedIsComplete ==
  \A c \in Campaigns \ overtaken : campaign[c] \in Finished =>
    /\ With(c, "PENDING") = {}
    /\ counts[c].sent = Cardinality(With(c, "SENT"))
    /\ counts[c].failed = Cardinality(With(c, "FAILED"))

\* SENDING, and nobody sends it: what is left when a dispatcher stops in the middle.
Abandoned(c) == campaign[c] = "SENDING" /\ \A i \in Instances : run[i].at # c

\* A campaign that is due ends, is moved or cancelled, unless the dispatcher that claimed it
\* stops, in which case nobody takes it up again; no exception stops the dispatcher for ever.
DueCampaignEnds ==
  \A c \in Campaigns :
    campaign[c] = "SCHEDULED" /\ due[c] ~>
      campaign[c] \in Finished \cup {"CANCELLED", "deleted"} \/ ~due[c] \/ Abandoned(c)
=============================================================================
