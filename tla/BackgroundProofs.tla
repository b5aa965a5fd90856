-------------------------- MODULE BackgroundProofs --------------------------
(***************************************************************************)
(* Proofs about Mailer, SalesPlay and SignUp, for any number of campaigns,  *)
(* members, server processes, receipts, phones, requests and failures, and  *)
(* last about the behaviours of MCBackground, where each part has its turn. *)
(***************************************************************************)
EXTENDS MCBackground, CatalogProofs

---------------------------------------------------------------------------
(***************************************************************************)
(* Proofs about Mailer, for any number of campaigns, members, server        *)
(* processes and requests, batches of any size, and any number of failures. *)
(*                                                                          *)
(* A campaign no late request has written is sent by the one dispatcher     *)
(* that claimed it.  What that dispatcher has done so far is on the rows,   *)
(* but for the recipient it is at.                                          *)
(***************************************************************************)
\* The types, apart from the bounds; the recipients who are marked are finitely many, because
\* they are marked one by one.
MailerTyped ==
  /\ campaign \in [Campaigns -> CampaignStatus \cup {"deleted"}]
  /\ gift \in [Campaigns -> BOOLEAN]
  /\ counts \in [Campaigns -> [sent : Nat, failed : Nat]]
  /\ recipient \in [Campaigns -> [Members -> RecipientStatus \cup {"none"}]]
  /\ vouchers \in [Campaigns -> [Members -> Nat]]
  /\ mails \in [Campaigns -> [Members -> Nat]]
  /\ run \in [Instances -> LocalState]
  /\ req \in [Requests -> [op : Operations, at : Campaigns] \cup {NoRequest}]
  /\ overtaken \subseteq Campaigns
  /\ \A c \in Campaigns : IsFiniteSet(With(c, "SENT")) /\ IsFiniteSet(With(c, "FAILED"))

\* A dispatcher that sends a campaign, and one that is at a recipient of it.
Working(i) == run[i].step \notin {"idle", "claim"}
Serving(i) == run[i].step \in {"find", "issue", "send", "mark", "count"}

\* The counts of a campaign are right and nobody waits for its mail.
Complete(c) ==
  /\ With(c, "PENDING") = {}
  /\ counts[c].sent = Cardinality(With(c, "SENT"))
  /\ counts[c].failed = Cardinality(With(c, "FAILED"))

\* A mail that has been sent and that the recipient's row does not show yet.
Unmarked(l) == IF l.step = "mark" THEN l.result ELSE "none"

\* How far a dispatcher is with its campaign c.
Progress(l, c) ==
  /\ l.step \in {"start", "refuse", "list"} => Complete(c)
  /\ l.step \notin {"start", "refuse", "list", "prior"} =>
       /\ l.sent = Cardinality(With(c, "SENT")) + (IF Unmarked(l) = "SENT" THEN 1 ELSE 0)
       /\ l.failed = Cardinality(With(c, "FAILED")) + (IF Unmarked(l) = "FAILED" THEN 1 ELSE 0)
  /\ \A m \in l.batch : recipient[c][m] = "PENDING" \/ (l.step = "count" /\ m = l.to)
  /\ l.step = "finish" => With(c, "PENDING") = {}
  /\ l.step = "issue" => vouchers[c][l.to] = 0
  /\ l.step \in {"send", "mark"} /\ l.gift => vouchers[c][l.to] > 0

\* A dispatcher that sends a campaign has claimed it.
Engaged(i) ==
  LET l == run[i] IN
  Working(i) =>
    /\ l.at \in Campaigns
    /\ Serving(i) => l.to \in l.batch
    /\ l.step \notin {"each"} /\ ~Serving(i) => l.batch = {}
    /\ l.at \notin overtaken => campaign[l.at] = "SENDING" /\ Progress(l, l.at)

\* What the rows of a campaign say that nobody has written too late.
Sound(c) ==
  /\ \A m \in Members : mails[c][m] <= 1 /\ vouchers[c][m] <= 1
  /\ campaign[c] \notin {"SENDING", "deleted"} => Complete(c)
  /\ campaign[c] # "deleted" => \A m \in Members : mails[c][m] > 0 =>
       \/ recipient[c][m] = "SENT"
       \/ /\ campaign[c] = "SENDING"
          /\ \A i \in Instances : Working(i) /\ run[i].at = c => run[i].to = m /\ Unmarked(run[i]) = "SENT"

Alone ==
  \A i, j \in Instances :
    Working(i) /\ Working(j) /\ run[i].at = run[j].at /\ run[i].at \notin overtaken => i = j

MailerInv ==
  MailerTyped /\ Alone /\ (\A i \in Instances : Engaged(i)) /\ \A c \in Campaigns \ overtaken : Sound(c)

---------------------------------------------------------------------------
(* Local states *)

\* A dispatcher goes on to the next due campaign or ends.
LEMMA ResumeFacts ==
  ASSUME NEW q \in SUBSET Campaigns
  PROVE  Resume(q) \in LocalState /\ Resume(q).step \in {"idle", "claim"}
  <1>1. NoRun \in LocalState /\ NoRun.step = "idle"
    BY DEF NoRun, LocalState
  <1>2. [NoRun EXCEPT !.step = "claim", !.queue = q] \in LocalState
    BY DEF NoRun, LocalState
  <1>3. [NoRun EXCEPT !.step = "claim", !.queue = q].step = "claim"
    BY DEF NoRun
  <1>4. QED BY <1>1, <1>2, <1>3 DEF Resume

\* A dispatcher gets a new local state.
LEMMA RunSet ==
  ASSUME NEW i \in Instances, NEW n \in LocalState, run \in [Instances -> LocalState],
         run' = [run EXCEPT ![i] = n]
  PROVE  /\ run' \in [Instances -> LocalState] /\ run'[i] = n
         /\ \A j \in Instances : j # i => run'[j] = run[j]
  OBVIOUS

\* A dispatcher goes on to the next recipient of its batch, or to the next batch.
LEMMA OnwardFacts ==
  ASSUME NEW l \in LocalState
  PROVE  LET n == Onward(l) IN
         /\ n \in LocalState /\ n.batch = l.batch \ {l.to} /\ n.step \in {"fetch", "each"}
         /\ n.step = "fetch" => n.batch = {}
         /\ n.at = l.at /\ n.sent = l.sent /\ n.failed = l.failed
  <1> DEFINE b == l.batch \ {l.to}
             s == IF b = {} THEN "fetch" ELSE "each"
             n == [l EXCEPT !.batch = b, !.to = NoMember, !.step = s]
  <1>1. Onward(l) = n
    BY DEF Onward
  <1>2. b \in SUBSET Members /\ s \in {"fetch", "each"} /\ (s = "fetch" => b = {})
    BY DEF LocalState
  <1> HIDE DEF b, s
  <1>3. n \in LocalState
    BY <1>2 DEF LocalState
  <1>4. n.batch = b /\ n.step = s /\ n.at = l.at /\ n.sent = l.sent /\ n.failed = l.failed
    BY DEF LocalState
  <1>5. QED BY <1>1, <1>2, <1>3, <1>4 DEF b

---------------------------------------------------------------------------
(* What a step leaves alone *)

SameRow(c) ==
  /\ campaign'[c] = campaign[c] /\ counts'[c] = counts[c] /\ recipient'[c] = recipient[c]
  /\ vouchers'[c] = vouchers[c] /\ mails'[c] = mails[c]

\* A campaign is as sound as it was if nobody works on it anew and its row stays.
LEMMA SoundKept ==
  ASSUME NEW c \in Campaigns, Sound(c), SameRow(c),
         \A i \in Instances : Working(i)' /\ run'[i].at = c => run'[i] = run[i]
  PROVE  Sound(c)'
  <1>1. Complete(c)' <=> Complete(c)
    BY DEF SameRow, Complete, With
  <1>2. \A i \in Instances : Working(i)' /\ run'[i].at = c => Working(i) /\ run[i].at = c
    BY DEF Working
  <1>3. QED BY <1>1, <1>2 DEF Sound, SameRow

\* A dispatcher whose campaign nobody has touched is where it was.
LEMMA EngagedKept ==
  ASSUME NEW i \in Instances, Engaged(i), run'[i] = run[i], overtaken \subseteq overtaken',
         Working(i) /\ run[i].at \notin overtaken' => SameRow(run[i].at)
  PROVE  Engaged(i)'
  <1>1. ASSUME Working(i), run[i].at \notin overtaken'
        PROVE  campaign'[run[i].at] = "SENDING" /\ Progress(run[i], run[i].at)'
    <2>1. PICK c \in Campaigns : c = run[i].at
      BY <1>1 DEF Engaged
    <2>2. SameRow(c) /\ Progress(run[i], c) /\ campaign[c] = "SENDING"
      BY <1>1, <2>1 DEF Engaged
    <2>3. PICK l : l = run[i]
      OBVIOUS
    <2>4. Progress(l, c)'
      BY <2>2, <2>3 DEF SameRow, Progress, Complete, With
    <2>5. QED BY <2>1, <2>2, <2>3, <2>4 DEF SameRow
  <1>2. QED BY <1>1 DEF Engaged, Working, Serving

\* A dispatcher leaves its campaign, or has none, and no row changes.
LEMMA StepLeave ==
  ASSUME MailerInv, NEW i \in Instances, MailerTyped', ~Working(i)',
         \A j \in Instances : j # i => run'[j] = run[j],
         UNCHANGED <<campaign, counts, recipient, vouchers, mails, overtaken>>
  PROVE  MailerInv'
  <1>1. \A c \in Campaigns : SameRow(c)
    BY DEF SameRow
  <1>2. ASSUME NEW j \in Instances PROVE Engaged(j)'
    <2>1. CASE j = i
      BY <2>1 DEF Engaged
    <2>2. CASE j # i
      BY <1>1, <2>2, EngagedKept DEF MailerInv, Engaged
    <2>3. QED BY <2>1, <2>2
  <1>3. ASSUME NEW c \in Campaigns \ overtaken PROVE Sound(c)'
    BY <1>1, <1>3, SoundKept DEF MailerInv
  <1>4. Alone'
    BY DEF MailerInv, Alone, Working
  <1>5. QED BY <1>2, <1>3, <1>4 DEF MailerInv

\* A dispatcher does something about its campaign.
LEMMA StepOne ==
  ASSUME MailerInv, NEW i \in Instances, NEW c \in Campaigns, MailerTyped', Engaged(i)',
         Working(i) => run[i].at = c, Working(i)' => run'[i].at = c,
         Working(i) \/ campaign[c] = "SCHEDULED",
         \A j \in Instances : j # i => run'[j] = run[j],
         \A d \in Campaigns : d # c => SameRow(d),
         overtaken' = overtaken, c \notin overtaken => Sound(c)'
  PROVE  MailerInv'
  <1>1. ASSUME NEW j \in Instances, j # i, Working(j), run[j].at \notin overtaken
        PROVE  run[j].at \in Campaigns /\ run[j].at # c
    BY <1>1 DEF MailerInv, Alone, Engaged
  <1>2. ASSUME NEW j \in Instances PROVE Engaged(j)'
    <2>1. CASE j # i
      BY <1>1, <2>1, EngagedKept DEF MailerInv
    <2>2. QED BY <2>1
  <1>3. ASSUME NEW d \in Campaigns \ overtaken, d # c PROVE Sound(d)'
    BY <1>3, SoundKept DEF MailerInv
  <1>4. Alone'
    <2>1. ASSUME NEW j \in Instances, NEW k \in Instances, j # k, Working(j)', Working(k)',
                 run'[j].at = run'[k].at, run'[j].at \notin overtaken
          PROVE  FALSE
      <3>1. CASE j # i /\ k # i
        BY <2>1, <3>1 DEF MailerInv, Alone, Working
      <3>2. CASE j = i
        BY <1>1, <2>1, <3>2 DEF Working
      <3>3. CASE k = i
        BY <1>1, <2>1, <3>3 DEF Working
      <3>4. QED BY <3>1, <3>2, <3>3
    <2>2. QED BY <2>1 DEF Alone
  <1>5. QED BY <1>2, <1>3, <1>4 DEF MailerInv

\* Something happens to a campaign nobody sends, or a request writes it too late.
LEMMA StepOutside ==
  ASSUME MailerInv, NEW c \in Campaigns, MailerTyped', run' = run, overtaken \subseteq overtaken',
         \A d \in Campaigns : d # c => SameRow(d) /\ (d \in overtaken' => d \in overtaken),
         c \notin overtaken' => campaign[c] # "SENDING" /\ Sound(c)'
  PROVE  MailerInv'
  <1>1. ASSUME NEW j \in Instances PROVE Engaged(j)'
    BY EngagedKept DEF MailerInv, Engaged
  <1>2. ASSUME NEW d \in Campaigns \ overtaken', d # c PROVE Sound(d)'
    BY <1>2, SoundKept DEF MailerInv
  <1>3. Alone'
    BY DEF MailerInv, Alone, Working
  <1>4. QED BY <1>1, <1>2, <1>3 DEF MailerInv

---------------------------------------------------------------------------
(* Types *)

\* The local states change, the rows do not.
LEMMA TypedRun ==
  ASSUME MailerTyped, run' \in [Instances -> LocalState],
         UNCHANGED <<campaign, gift, counts, recipient, vouchers, mails, req, overtaken>>
  PROVE  MailerTyped'
  BY DEF MailerTyped, With

\* One recipient at most is newly marked.
LEMMA TypedRecipients ==
  ASSUME MailerTyped, NEW c \in Campaigns, NEW f \in [Members -> RecipientStatus \cup {"none"}],
         NEW x, recipient' = [recipient EXCEPT ![c] = f],
         \A s \in {"SENT", "FAILED"} : {m \in Members : f[m] = s} \subseteq With(c, s) \cup {x}
  PROVE  /\ recipient' \in [Campaigns -> [Members -> RecipientStatus \cup {"none"}]]
         /\ \A d \in Campaigns : IsFiniteSet(With(d, "SENT")') /\ IsFiniteSet(With(d, "FAILED")')
  <1>1. ASSUME NEW d \in Campaigns, NEW s \in {"SENT", "FAILED"} PROVE IsFiniteSet(With(d, s)')
    <2>1. IsFiniteSet(With(d, s))
      BY DEF MailerTyped
    <2>2. CASE d # c
      <3>1. With(d, s)' = With(d, s)
        BY <2>2 DEF With, MailerTyped
      <3>2. QED BY <2>1, <3>1
    <2>3. CASE d = c
      <3>1. With(d, s)' \subseteq With(d, s) \cup {x}
        BY <2>3 DEF With, MailerTyped
      <3>2. QED BY <2>1, <3>1, FS_AddElement, FS_Subset
    <2>4. QED BY <2>2, <2>3
  <1>2. QED BY <1>1 DEF MailerTyped

\* A statement throws because the campaign is gone, or a dispatcher stops.
LEMMA LeaveNext ==
  ASSUME MailerInv, NEW i \in Instances, NEW n \in LocalState, run' = [run EXCEPT ![i] = n],
         n.step \in {"idle", "claim"},
         UNCHANGED <<campaign, gift, counts, recipient, vouchers, mails, req, overtaken>>
  PROVE  MailerInv'
  <1>1. /\ run' \in [Instances -> LocalState] /\ run'[i] = n
        /\ \A j \in Instances : j # i => run'[j] = run[j]
    BY RunSet DEF MailerInv, MailerTyped
  <1>2. MailerTyped'
    BY <1>1, TypedRun DEF MailerInv
  <1>3. ~Working(i)'
    BY <1>1 DEF Working
  <1>4. QED BY <1>1, <1>2, <1>3, StepLeave

---------------------------------------------------------------------------
(* The dispatcher *)

\* A dispatcher that finds campaigns due keeps MailerInv.
LEMMA FindDueNext ==
  ASSUME MailerInv, NEW i \in Instances, FindDue(i)
  PROVE  MailerInv'
  <1> DEFINE found == {c \in Campaigns : campaign[c] = "SCHEDULED" /\ due[c]}
  <1>1. run' = [run EXCEPT ![i] = Resume(found)]
    BY DEF FindDue
  <1>2. Resume(found) \in LocalState /\ Resume(found).step \in {"idle", "claim"}
    BY ResumeFacts
  <1>3. QED BY <1>1, <1>2, LeaveNext DEF FindDue, rows, memberRows, admin

\* A dispatcher that fails keeps MailerInv.
LEMMA ThrowsNext ==
  ASSUME MailerInv, NEW i \in Instances, Throws(i),
         UNCHANGED <<due, gift, vouchers, blank, mails, admin, mishaps>>
  PROVE  MailerInv'
  <1>1. NoRun \in LocalState /\ NoRun.step = "idle"
    BY DEF NoRun, LocalState
  <1>2. QED BY <1>1, LeaveNext DEF Throws, admin

\* A dispatcher that dies keeps MailerInv.
LEMMA StopNext ==
  ASSUME MailerInv, NEW i \in Instances, Stop(i)
  PROVE  MailerInv'
  <1>1. NoRun \in LocalState /\ NoRun.step = "idle"
    BY DEF NoRun, LocalState
  <1>2. QED BY <1>1, LeaveNext DEF Stop, rows, memberRows, admin

\* Claiming a campaign keeps MailerInv: nobody else has it.
LEMMA ClaimNext ==
  ASSUME MailerInv, NEW i \in Instances, Claim(i)
  PROVE  MailerInv'
  <1>1. MailerTyped /\ run[i] \in LocalState /\ run[i].step = "claim"
    BY DEF MailerInv, MailerTyped, Claim, RunAt
  <1>2. PICK c \in run[i].queue :
          IF Claimable(c)
          THEN /\ campaign' = [campaign EXCEPT ![c] = "SENDING"]
               /\ run' = [run EXCEPT ![i] = [NoRun EXCEPT !.step = "start",
                                                         !.queue = run[i].queue \ {c}, !.at = c]]
          ELSE /\ run' = [run EXCEPT ![i] = Resume(run[i].queue \ {c})]
               /\ UNCHANGED campaign
    BY DEF Claim
  <1>3. PICK q \in SUBSET Campaigns : q = run[i].queue \ {c} /\ c \in Campaigns
    BY <1>1, <1>2 DEF LocalState
  <1>4. UNCHANGED <<gift, counts, recipient, vouchers, mails, req, overtaken>>
    BY DEF Claim, memberRows, admin
  <1>5. CASE ~Claimable(c)
    <2>1. Resume(q) \in LocalState /\ Resume(q).step \in {"idle", "claim"}
      BY ResumeFacts
    <2>2. QED BY <1>2, <1>3, <1>4, <1>5, <2>1, LeaveNext
  <1>6. CASE Claimable(c)
    <2>1. PICK n : n = [NoRun EXCEPT !.step = "start", !.queue = q, !.at = c]
      OBVIOUS
    <2>2. n \in LocalState /\ n.step = "start" /\ n.at = c /\ n.batch = {}
      BY <1>3, <2>1 DEF NoRun, LocalState
    <2>3. campaign' = [campaign EXCEPT ![c] = "SENDING"] /\ run' = [run EXCEPT ![i] = n]
      BY <1>2, <1>3, <1>6, <2>1
    <2>4. /\ run' \in [Instances -> LocalState] /\ run'[i] = n
          /\ \A j \in Instances : j # i => run'[j] = run[j]
      BY <1>1, <2>2, <2>3, RunSet DEF MailerTyped
    <2>5. MailerTyped'
      BY <1>1, <1>4, <2>3, <2>4 DEF MailerTyped, With, CampaignStatus
    <2>6. campaign[c] = "SCHEDULED" /\ campaign'[c] = "SENDING"
      BY <1>1, <1>3, <1>6, <2>3 DEF Claimable, MailerTyped
    <2>7. ~Working(i)
      BY <1>1 DEF Working
    <2>8. c \notin overtaken => Complete(c)' /\ \A m \in Members : mails[c][m] > 0 => recipient[c][m] = "SENT"
      BY <1>3, <1>4, <2>6, ZenonT(60) DEF MailerInv, Sound, Complete, With
    <2>9. c \notin overtaken => Sound(c)'
      BY <1>3, <1>4, <2>6, <2>8 DEF MailerInv, Sound
    <2>10. Engaged(i)'
      <3>1. c \notin overtaken => Progress(n, c)'
        BY <2>2, <2>8 DEF Progress, Complete, With
      <3>2. QED BY <1>3, <1>4, <2>2, <2>4, <2>6, <3>1 DEF Engaged, Serving
    <2>11. \A d \in Campaigns : d # c => SameRow(d)
      BY <1>1, <1>4, <2>3 DEF SameRow, MailerTyped
    <2>12. QED BY <1>3, <1>4, <2>2, <2>4, <2>5, <2>6, <2>7, <2>9, <2>10, <2>11, StepOne
  <1>7. QED BY <1>5, <1>6

\* A dispatcher goes on with its campaign and writes nothing, neither before nor after it has sent
\* a mail the row does not show.
LEMMA GoesOn ==
  ASSUME MailerInv, NEW i \in Instances, Working(i), NEW n \in LocalState,
         run' = [run EXCEPT ![i] = n], n.at = run[i].at,
         n.step \notin {"idle", "claim", "mark"}, run[i].step # "mark",
         n.step \in {"find", "issue", "send", "count"} => n.to \in n.batch,
         n.step \notin {"each", "find", "issue", "send", "count"} => n.batch = {},
         run[i].at \notin overtaken => Progress(n, run[i].at),
         UNCHANGED <<campaign, gift, counts, recipient, vouchers, mails, req, overtaken>>
  PROVE  MailerInv'
  <1>1. PICK c \in Campaigns : c = run[i].at
    BY DEF MailerInv, Engaged
  <1>2. /\ run' \in [Instances -> LocalState] /\ run'[i] = n
        /\ \A j \in Instances : j # i => run'[j] = run[j]
    BY RunSet DEF MailerInv, MailerTyped
  <1>3. MailerTyped'
    BY <1>2, TypedRun DEF MailerInv
  <1>4. c \notin overtaken => campaign[c] = "SENDING" /\ Sound(c)
    BY <1>1 DEF MailerInv, Engaged
  <1>5. c \notin overtaken => \A m \in Members : mails[c][m] > 0 => recipient[c][m] = "SENT"
    BY <1>1, <1>4 DEF Sound, Unmarked
  <1>6. c \notin overtaken => Sound(c)'
    BY <1>4, <1>5 DEF Sound
  <1>7. Engaged(i)'
    <2>1. c \notin overtaken => Progress(n, c)'
      BY <1>1 DEF Progress, Complete, With
    <2>2. QED BY <1>1, <1>2, <1>4, <2>1 DEF Engaged, Working, Serving
  <1>8. \A d \in Campaigns : SameRow(d)
    BY DEF SameRow
  <1>9. QED BY <1>1, <1>2, <1>3, <1>6, <1>7, <1>8, StepOne

\* What a dispatcher knows of its campaign: it is alone, and every mail that went out is on the
\* rows, but for the one it has just sent.
LEMMA AtWork ==
  ASSUME MailerInv, NEW i \in Instances, Working(i), run[i].at \notin overtaken
  PROVE  \E c \in Campaigns :
           /\ c = run[i].at /\ campaign[c] = "SENDING" /\ Progress(run[i], c)
           /\ \A m \in Members : mails[c][m] <= 1 /\ vouchers[c][m] <= 1
           /\ \A m \in Members : mails[c][m] > 0 =>
                recipient[c][m] = "SENT" \/ (run[i].to = m /\ Unmarked(run[i]) = "SENT")
           /\ \A j \in Instances : Working(j) /\ run[j].at = c => j = i
  <1>1. PICK c \in Campaigns : c = run[i].at
    BY DEF MailerInv, Engaged
  <1>2. campaign[c] = "SENDING" /\ Progress(run[i], c) /\ Sound(c)
    BY <1>1 DEF MailerInv, Engaged
  <1>3. \A j \in Instances : Working(j) /\ run[j].at = c => j = i
    BY <1>1 DEF MailerInv, Alone
  <1>4. QED BY <1>1, <1>2, <1>3 DEF Sound

\* A dispatcher goes on, and writes about its campaign.
LEMMA WritesOn ==
  ASSUME MailerInv, NEW i \in Instances, Working(i), NEW n \in LocalState, NEW c \in Campaigns,
         run[i].at = c, run' = [run EXCEPT ![i] = n], n.at = c, n.step \notin {"idle", "claim"},
         n.step \in {"find", "issue", "send", "mark", "count"} => n.to \in n.batch,
         n.step \notin {"each", "find", "issue", "send", "mark", "count"} => n.batch = {},
         MailerTyped', overtaken' = overtaken, campaign' = campaign,
         \A d \in Campaigns : d # c => SameRow(d),
         c \notin overtaken =>
           /\ Progress(n, c)'
           /\ \A m \in Members : mails'[c][m] <= 1 /\ vouchers'[c][m] <= 1
           /\ \A m \in Members : mails'[c][m] > 0 =>
                recipient'[c][m] = "SENT" \/ (n.to = m /\ Unmarked(n) = "SENT")
  PROVE  MailerInv'
  <1>1. /\ run'[i] = n /\ \A j \in Instances : j # i => run'[j] = run[j]
    BY RunSet DEF MailerInv, MailerTyped
  <1>2. c \notin overtaken => campaign[c] = "SENDING"
    BY AtWork
  <1>3. c \notin overtaken => \A j \in Instances : Working(j)' /\ run'[j].at = c => j = i
    BY <1>1, AtWork DEF Working
  <1>4. c \notin overtaken => Sound(c)'
    <2>1. SUFFICES ASSUME c \notin overtaken PROVE Sound(c)'
      OBVIOUS
    <2>2. \A m \in Members : n.to = m /\ Unmarked(n) = "SENT" =>
            \A j \in Instances : Working(j)' /\ run'[j].at = c => (run[j].to = m /\ Unmarked(run[j]) = "SENT")'
      BY <1>1, <1>3, <2>1
    <2>3. QED BY <1>2, <2>1, <2>2 DEF Sound
  <1>5. Engaged(i)'
    BY <1>1, <1>2 DEF Engaged, Working, Serving
  <1>6. QED BY <1>1, <1>4, <1>5, StepOne

\* Beginning with the recipients keeps MailerInv.
LEMMA StartRunNext ==
  ASSUME MailerInv, NEW i \in Instances, Start(i)
  PROVE  MailerInv'
  <1>1. /\ run[i] \in LocalState /\ run[i].step = "start" /\ Working(i)
        /\ UNCHANGED <<campaign, gift, counts, recipient, vouchers, mails, req, overtaken>>
        /\ run \in [Instances -> LocalState] /\ gift \in [Campaigns -> BOOLEAN]
    BY DEF MailerInv, MailerTyped, Start, RunAt, Working, rows, memberRows, admin
  <1>2. PICK c \in Campaigns : c = run[i].at /\ run[i].batch = {}
    BY <1>1 DEF MailerInv, Engaged, Serving
  <1>3. c \notin overtaken => Complete(c)
    BY <1>1, <1>2, AtWork DEF Progress
  <1>4. CASE run' = [run EXCEPT ![i] = Resume(@.queue)]
    <2>1. PICK q \in SUBSET Campaigns : q = run[i].queue
      BY <1>1 DEF LocalState
    <2>2. Resume(q) \in LocalState /\ Resume(q).step \in {"idle", "claim"}
      BY ResumeFacts
    <2>3. QED BY <1>1, <1>4, <2>1, <2>2, LeaveNext
  <1>5. CASE RunTo(i, "refuse")
    <2>1. PICK n : n = [run[i] EXCEPT !.step = "refuse"]
      OBVIOUS
    <2>2. n \in LocalState /\ n.step = "refuse" /\ n.at = c /\ n.batch = {}
      BY <1>1, <1>2, <2>1 DEF LocalState
    <2>3. run' = [run EXCEPT ![i] = n]
      BY <1>5, <2>1 DEF RunTo
    <2>4. c \notin overtaken => Progress(n, c)
      BY <1>3, <2>2 DEF Progress
    <2>5. QED BY <1>1, <1>2, <2>2, <2>3, <2>4, GoesOn
  <1>6. CASE run' = [run EXCEPT ![i].step = "list", ![i].gift = gift[c]]
    <2>1. PICK n : n = [run[i] EXCEPT !.step = "list", !.gift = gift[c]]
      OBVIOUS
    <2>2. n \in LocalState /\ n.step = "list" /\ n.at = c /\ n.batch = {}
      BY <1>1, <1>2, <2>1 DEF LocalState
    <2>3. run' = [run EXCEPT ![i] = n]
      BY <1>1, <1>6, <2>1
    <2>4. c \notin overtaken => Progress(n, c)
      BY <1>3, <2>2 DEF Progress
    <2>5. QED BY <1>1, <1>2, <2>2, <2>3, <2>4, GoesOn
  <1>7. QED BY <1>2, <1>4, <1>5, <1>6 DEF Start

\* Counting who was dealt with before keeps MailerInv.
LEMMA CountPriorNext ==
  ASSUME MailerInv, NEW i \in Instances, CountPrior(i)
  PROVE  MailerInv'
  <1>1. /\ run[i] \in LocalState /\ run[i].step = "prior" /\ Working(i) /\ MailerTyped
        /\ UNCHANGED <<campaign, gift, counts, recipient, vouchers, mails, req, overtaken>>
    BY DEF MailerInv, MailerTyped, CountPrior, RunAt, Working, rows, memberRows, admin
  <1>2. PICK c \in Campaigns : c = run[i].at /\ run[i].batch = {}
    BY <1>1 DEF MailerInv, Engaged, Serving
  <1>3. PICK s \in Nat, f \in Nat : s = Cardinality(With(c, "SENT")) /\ f = Cardinality(With(c, "FAILED"))
    BY <1>1, FS_CardinalityType DEF MailerTyped
  <1>4. PICK n : n = [run[i] EXCEPT !.step = "fetch", !.sent = s, !.failed = f]
    OBVIOUS
  <1>5. /\ n \in LocalState /\ n.step = "fetch" /\ n.at = c /\ n.batch = {}
        /\ n.sent = s /\ n.failed = f
    BY <1>1, <1>2, <1>4 DEF LocalState
  <1>6. run' = [run EXCEPT ![i] = n]
    BY <1>1, <1>2, <1>3, <1>4 DEF CountPrior, MailerTyped
  <1>7. Progress(n, c)
    BY <1>3, <1>5 DEF Progress, Unmarked
  <1>8. QED BY <1>1, <1>2, <1>5, <1>6, <1>7, GoesOn

\* Fetching a batch of recipients keeps MailerInv.
LEMMA FetchBatchNext ==
  ASSUME MailerInv, NEW i \in Instances, FetchBatch(i)
  PROVE  MailerInv'
  <1>1. /\ run[i] \in LocalState /\ run[i].step = "fetch" /\ Working(i) /\ MailerTyped
        /\ UNCHANGED <<campaign, gift, counts, recipient, vouchers, mails, req, overtaken>>
    BY DEF MailerInv, MailerTyped, FetchBatch, RunAt, Working, rows, memberRows, admin
  <1>2. PICK c \in Campaigns : c = run[i].at /\ run[i].batch = {}
    BY <1>1 DEF MailerInv, Engaged, Serving
  <1>3. c \notin overtaken =>
          /\ run[i].sent = Cardinality(With(c, "SENT")) /\ run[i].failed = Cardinality(With(c, "FAILED"))
    <2>1. SUFFICES ASSUME c \notin overtaken
          PROVE  run[i].sent = Cardinality(With(c, "SENT")) + 0
                 /\ run[i].failed = Cardinality(With(c, "FAILED")) + 0
      BY <1>1, FS_CardinalityType DEF MailerTyped
    <2>2. Progress(run[i], c)
      BY <1>1, <1>2, <2>1, AtWork
    <2>3. QED BY <1>1, <2>2 DEF Progress, Unmarked
  <1>4. PICK s \in {"finish", "each"}, b \in SUBSET With(c, "PENDING") :
          /\ run' = [run EXCEPT ![i] = [run[i] EXCEPT !.step = s, !.batch = b]]
          /\ s = "finish" => b = {} /\ With(c, "PENDING") = {}
    <2>1. CASE With(c, "PENDING") = {}
      <3>1. RunTo(i, "finish")
        BY <1>2, <2>1 DEF FetchBatch
      <3>2. [run[i] EXCEPT !.step = "finish", !.batch = {}] = [run[i] EXCEPT !.step = "finish"]
        BY <1>1, <1>2 DEF LocalState
      <3>3. QED BY <2>1, <3>1, <3>2 DEF RunTo
    <2>2. CASE With(c, "PENDING") # {}
      <3>1. PICK b \in SUBSET With(c, "PENDING") : run' = [run EXCEPT ![i].step = "each", ![i].batch = b]
        BY <1>2, <2>2 DEF FetchBatch
      <3>2. run' = [run EXCEPT ![i] = [run[i] EXCEPT !.step = "each", !.batch = b]]
        BY <1>1, <3>1 DEF MailerTyped
      <3>3. QED BY <3>2
    <2>3. QED BY <2>1, <2>2
  <1>5. PICK n : n = [run[i] EXCEPT !.step = s, !.batch = b]
    OBVIOUS
  <1>6. /\ n \in LocalState /\ n.step = s /\ n.at = c /\ n.batch = b
        /\ n.sent = run[i].sent /\ n.failed = run[i].failed
    BY <1>1, <1>2, <1>5 DEF LocalState, With
  <1>7. c \notin overtaken => Progress(n, c)
    <2>1. \A m \in b : recipient[c][m] = "PENDING"
      BY DEF With
    <2>2. Cardinality(With(c, "SENT")) \in Nat /\ Cardinality(With(c, "FAILED")) \in Nat
      BY <1>1, FS_CardinalityType DEF MailerTyped
    <2>3. QED BY <1>3, <1>4, <1>6, <2>1, <2>2 DEF Progress, Unmarked
  <1>8. QED BY <1>1, <1>2, <1>4, <1>5, <1>6, <1>7, GoesOn

---------------------------------------------------------------------------
(* A recipient *)

\* What counting up one field of a table does to it.
LEMMA AddOne ==
  ASSUME NEW f \in [Campaigns -> [Members -> Nat]], NEW c \in Campaigns, NEW m \in Members,
         NEW g, g = [f EXCEPT ![c][m] = @ + 1]
  PROVE  /\ g \in [Campaigns -> [Members -> Nat]]
         /\ g[c][m] = f[c][m] + 1 /\ \A x \in Members : x # m => g[c][x] = f[c][x]
         /\ \A d \in Campaigns : d # c => g[d] = f[d]
  OBVIOUS

\* Where a dispatcher is, and what it has counted.
LEMMA AtRecipient ==
  ASSUME MailerInv, NEW i \in Instances, Serving(i)
  PROVE  /\ Working(i) /\ run[i] \in LocalState /\ MailerTyped
         /\ run[i].at \in Campaigns /\ run[i].to \in Members /\ run[i].to \in run[i].batch
  <1>1. Working(i) /\ run[i] \in LocalState /\ MailerTyped
    BY DEF Serving, Working, MailerInv, MailerTyped
  <1>2. QED BY <1>1 DEF MailerInv, Engaged, LocalState

\* Recipients can be counted.
LEMMA Tallied ==
  ASSUME MailerTyped, NEW c \in Campaigns
  PROVE  Cardinality(With(c, "SENT")) \in Nat /\ Cardinality(With(c, "FAILED")) \in Nat
  BY FS_CardinalityType DEF MailerTyped

\* A dispatcher that is about to send has sent nothing the rows do not show.
LEMMA BeforeMail ==
  ASSUME MailerInv, NEW i \in Instances, Working(i), NEW c \in Campaigns, c = run[i].at,
         c \notin overtaken, run[i].step \in {"fetch", "each", "find", "issue", "send", "finish"}
  PROVE  /\ campaign[c] = "SENDING"
         /\ run[i].sent = Cardinality(With(c, "SENT")) /\ run[i].failed = Cardinality(With(c, "FAILED"))
         /\ \A m \in run[i].batch : recipient[c][m] = "PENDING"
         /\ \A m \in Members : mails[c][m] <= 1 /\ vouchers[c][m] <= 1
         /\ \A m \in Members : mails[c][m] > 0 => recipient[c][m] = "SENT"
  <1>1. Progress(run[i], c) /\ Unmarked(run[i]) = "none" /\ campaign[c] = "SENDING"
    BY AtWork DEF Unmarked
  <1>2. Cardinality(With(c, "SENT")) \in Nat /\ Cardinality(With(c, "FAILED")) \in Nat
    BY Tallied DEF MailerInv
  <1>3. run[i].sent = Cardinality(With(c, "SENT")) /\ run[i].failed = Cardinality(With(c, "FAILED"))
    <2>1. run[i].sent = Cardinality(With(c, "SENT")) + 0 /\ run[i].failed = Cardinality(With(c, "FAILED")) + 0
      BY <1>1 DEF Progress
    <2>2. QED BY <1>2, <2>1
  <1>4. \A m \in run[i].batch : recipient[c][m] = "PENDING"
    BY <1>1 DEF Progress
  <1>5. QED BY <1>1, <1>3, <1>4, AtWork

\* Looking for the voucher of a member keeps MailerInv.
LEMMA FindVoucherNext ==
  ASSUME MailerInv, NEW i \in Instances, FindVoucher(i)
  PROVE  MailerInv'
  <1>1. /\ run[i].step = "find" /\ Serving(i)
        /\ UNCHANGED <<campaign, gift, counts, recipient, vouchers, mails, req, overtaken>>
    BY DEF FindVoucher, RunAt, Serving, rows, memberRows, admin
  <1>2. PICK c \in Campaigns, m \in Members, l \in LocalState :
          c = run[i].at /\ m = run[i].to /\ l = run[i] /\ m \in l.batch
    BY <1>1, AtRecipient
  <1>3. PICK s \in {"send", "issue"} : RunTo(i, s) /\ s = (IF vouchers[c][m] > 0 THEN "send" ELSE "issue")
    BY <1>2 DEF FindVoucher
  <1>4. PICK n : n = [l EXCEPT !.step = s]
    OBVIOUS
  <1>5. /\ n \in LocalState /\ n.step = s /\ n.at = c /\ n.to = m /\ n.batch = l.batch
        /\ n.sent = l.sent /\ n.failed = l.failed
    BY <1>2, <1>4 DEF LocalState
  <1>6. run' = [run EXCEPT ![i] = n]
    BY <1>2, <1>3, <1>4 DEF RunTo
  <1>7. c \notin overtaken => Progress(n, c)
    <2>1. SUFFICES ASSUME c \notin overtaken PROVE Progress(n, c)
      OBVIOUS
    <2>2. vouchers[c][m] \in Nat
      BY DEF MailerInv, MailerTyped
    <2>3. Cardinality(With(c, "SENT")) \in Nat /\ Cardinality(With(c, "FAILED")) \in Nat
      BY Tallied DEF MailerInv
    <2>4. /\ n.sent = Cardinality(With(c, "SENT")) /\ n.failed = Cardinality(With(c, "FAILED"))
          /\ \A x \in n.batch : recipient[c][x] = "PENDING"
      BY <1>1, <1>2, <1>5, <2>1, AtRecipient, BeforeMail
    <2>5. QED BY <1>3, <1>5, <2>2, <2>3, <2>4 DEF Progress, Unmarked
  <1>8. QED BY <1>1, <1>2, <1>3, <1>5, <1>6, <1>7, AtRecipient, GoesOn

\* Issuing a voucher keeps MailerInv: the member has none.
LEMMA IssueVoucherNext ==
  ASSUME MailerInv, NEW i \in Instances, IssueVoucher(i)
  PROVE  MailerInv'
  <1>1. /\ run[i].step = "issue" /\ Serving(i) /\ RunTo(i, "send") /\ MailerTyped
        /\ vouchers' = [vouchers EXCEPT ![run[i].at][run[i].to] = @ + 1]
        /\ UNCHANGED <<campaign, gift, counts, recipient, mails, req, overtaken>>
    BY DEF IssueVoucher, RunAt, Serving, rows, memberRows, admin, MailerInv
  <1>2. PICK c \in Campaigns, m \in Members, l \in LocalState :
          c = run[i].at /\ m = run[i].to /\ l = run[i] /\ m \in l.batch
    BY <1>1, AtRecipient
  <1>3. PICK n : n = [l EXCEPT !.step = "send"]
    OBVIOUS
  <1>4. /\ n \in LocalState /\ n.step = "send" /\ n.at = c /\ n.to = m /\ n.batch = l.batch
        /\ n.sent = l.sent /\ n.failed = l.failed
    BY <1>2, <1>3 DEF LocalState
  <1>5. run' = [run EXCEPT ![i] = n]
    BY <1>1, <1>2, <1>3 DEF RunTo
  <1>6. /\ vouchers' \in [Campaigns -> [Members -> Nat]]
        /\ vouchers'[c][m] = vouchers[c][m] + 1
        /\ \A x \in Members : x # m => vouchers'[c][x] = vouchers[c][x]
        /\ \A d \in Campaigns : d # c => vouchers'[d] = vouchers[d]
    <2>1. vouchers \in [Campaigns -> [Members -> Nat]] /\ vouchers' = [vouchers EXCEPT ![c][m] = @ + 1]
      BY <1>1, <1>2 DEF MailerTyped
    <2>2. QED BY <2>1, AddOne
  <1>7. MailerTyped'
    <2>1. run' \in [Instances -> LocalState]
      BY <1>1, <1>4, <1>5, RunSet DEF MailerTyped
    <2>2. \A d \in Campaigns : IsFiniteSet(With(d, "SENT")') /\ IsFiniteSet(With(d, "FAILED")')
      BY <1>1 DEF MailerTyped, With
    <2>3. QED BY <1>1, <1>6, <2>1, <2>2 DEF MailerTyped
  <1>8. c \notin overtaken =>
          /\ Progress(n, c)'
          /\ \A x \in Members : mails'[c][x] <= 1 /\ vouchers'[c][x] <= 1
          /\ \A x \in Members : mails'[c][x] > 0 => recipient'[c][x] = "SENT"
    <2>1. SUFFICES ASSUME c \notin overtaken
          PROVE  /\ Progress(n, c)'
                 /\ \A x \in Members : mails'[c][x] <= 1 /\ vouchers'[c][x] <= 1
                 /\ \A x \in Members : mails'[c][x] > 0 => recipient'[c][x] = "SENT"
      OBVIOUS
    <2>2. vouchers[c][m] = 0
      BY <1>1, <1>2, <2>1, AtRecipient, AtWork DEF Progress
    <2>3. /\ n.sent = Cardinality(With(c, "SENT")) /\ n.failed = Cardinality(With(c, "FAILED"))
          /\ \A x \in n.batch : recipient[c][x] = "PENDING"
          /\ \A x \in Members : mails[c][x] <= 1 /\ vouchers[c][x] <= 1
          /\ \A x \in Members : mails[c][x] > 0 => recipient[c][x] = "SENT"
      BY <1>1, <1>2, <1>4, <2>1, AtRecipient, BeforeMail
    <2>4. With(c, "SENT")' = With(c, "SENT") /\ With(c, "FAILED")' = With(c, "FAILED")
      BY <1>1 DEF With
    <2>5. Cardinality(With(c, "SENT")) \in Nat /\ Cardinality(With(c, "FAILED")) \in Nat
      BY <1>1, Tallied
    <2>6. vouchers'[c][m] = 1
      BY <1>6, <2>2
    <2>7. Progress(n, c)'
      BY <1>1, <1>4, <2>3, <2>4, <2>5, <2>6 DEF Progress, Unmarked
    <2>8. \A x \in Members : vouchers'[c][x] <= 1
      BY <1>6, <2>3, <2>6
    <2>9. UNCHANGED <<mails, recipient>>
      BY <1>1
    <2>10. QED BY <2>3, <2>7, <2>8, <2>9
  <1>9. \A d \in Campaigns : d # c => SameRow(d)
    BY <1>1, <1>6 DEF SameRow
  <1>10. QED BY <1>1, <1>2, <1>4, <1>5, <1>7, <1>8, <1>9, AtRecipient, WritesOn

\* Sending a mail keeps MailerInv: the recipient has none.
LEMMA SendNext ==
  ASSUME MailerInv, NEW i \in Instances, Send(i)
  PROVE  MailerInv'
  <1>1. /\ run[i].step = "send" /\ Serving(i) /\ MailerTyped
        /\ UNCHANGED <<campaign, gift, counts, recipient, vouchers, req, overtaken>>
    BY DEF Send, RunAt, Serving, rows, admin, MailerInv
  <1>2. PICK c \in Campaigns, m \in Members, l \in LocalState :
          c = run[i].at /\ m = run[i].to /\ l = run[i] /\ m \in l.batch
    BY <1>1, AtRecipient
  <1>3. /\ mails \in [Campaigns -> [Members -> Nat]] /\ run \in [Instances -> LocalState]
        /\ l.sent \in Nat /\ l.failed \in Nat /\ l.step = "send"
    BY <1>1, <1>2 DEF MailerTyped, LocalState
  <1>4. PICK e \in {"SENT", "FAILED"}, n \in LocalState :
          /\ run' = [run EXCEPT ![i] = n]
          /\ n.step = "mark" /\ n.at = c /\ n.to = m /\ n.batch = l.batch
          /\ n.result = e /\ n.gift = l.gift
          /\ n.sent = l.sent + (IF e = "SENT" THEN 1 ELSE 0)
          /\ n.failed = l.failed + (IF e = "FAILED" THEN 1 ELSE 0)
          /\ IF e = "SENT" THEN mails' = [mails EXCEPT ![c][m] = @ + 1] ELSE mails' = mails
    <2>1. CASE /\ mails' = [mails EXCEPT ![c][m] = @ + 1]
               /\ run' = [run EXCEPT ![i].step = "mark", ![i].result = "SENT", ![i].sent = @ + 1]
      <3> PICK k \in Nat : k = l.sent + 1
        BY <1>3
      <3>1. PICK n : n = [l EXCEPT !.step = "mark", !.result = "SENT", !.sent = k]
        OBVIOUS
      <3>2. run' = [run EXCEPT ![i] = n]
        BY <1>2, <1>3, <2>1, <3>1
      <3>3. /\ n \in LocalState /\ n.step = "mark" /\ n.at = c /\ n.to = m /\ n.batch = l.batch
            /\ n.result = "SENT" /\ n.gift = l.gift /\ n.sent = k /\ n.failed = l.failed
        BY <1>2, <3>1 DEF LocalState
      <3>4. n.sent = l.sent + 1 /\ n.failed = l.failed + 0
        BY <1>3, <3>1, <3>3
      <3>5. QED BY <2>1, <3>2, <3>3, <3>4
    <2>2. CASE /\ mails' = mails
               /\ run' = [run EXCEPT ![i].step = "mark", ![i].result = "FAILED", ![i].failed = @ + 1]
      <3> PICK k \in Nat : k = l.failed + 1
        BY <1>3
      <3>1. PICK n : n = [l EXCEPT !.step = "mark", !.result = "FAILED", !.failed = k]
        OBVIOUS
      <3>2. run' = [run EXCEPT ![i] = n]
        BY <1>2, <1>3, <2>2, <3>1
      <3>3. /\ n \in LocalState /\ n.step = "mark" /\ n.at = c /\ n.to = m /\ n.batch = l.batch
            /\ n.result = "FAILED" /\ n.gift = l.gift /\ n.sent = l.sent /\ n.failed = k
        BY <1>2, <3>1 DEF LocalState
      <3>4. n.sent = l.sent + 0 /\ n.failed = l.failed + 1
        BY <1>3, <3>1, <3>3
      <3>5. QED BY <2>2, <3>2, <3>3, <3>4
    <2>3. QED BY <1>2, <2>1, <2>2 DEF Send
  <1>6. /\ mails' \in [Campaigns -> [Members -> Nat]]
        /\ e = "SENT" => mails'[c][m] = mails[c][m] + 1
        /\ e = "FAILED" => mails' = mails
        /\ \A x \in Members : x # m => mails'[c][x] = mails[c][x]
        /\ \A d \in Campaigns : d # c => mails'[d] = mails[d]
    <2>1. CASE e = "SENT"
      <3>1. mails' = [mails EXCEPT ![c][m] = @ + 1]
        BY <1>4, <2>1
      <3>2. QED BY <1>3, <2>1, <3>1, AddOne
    <2>2. CASE e = "FAILED"
      BY <1>3, <1>4, <2>2
    <2>3. QED BY <2>1, <2>2
  <1>7. MailerTyped'
    <2>1. run' \in [Instances -> LocalState]
      BY <1>3, <1>4, RunSet
    <2>2. \A d \in Campaigns : IsFiniteSet(With(d, "SENT")') /\ IsFiniteSet(With(d, "FAILED")')
      BY <1>1 DEF MailerTyped, With
    <2>3. QED BY <1>1, <1>6, <2>1, <2>2 DEF MailerTyped
  <1>8. c \notin overtaken =>
          /\ Progress(n, c)'
          /\ \A x \in Members : mails'[c][x] <= 1 /\ vouchers'[c][x] <= 1
          /\ \A x \in Members : mails'[c][x] > 0 =>
               recipient'[c][x] = "SENT" \/ (n.to = x /\ Unmarked(n) = "SENT")
    <2> SUFFICES ASSUME c \notin overtaken
                 PROVE  /\ Progress(n, c)'
                        /\ \A x \in Members : mails'[c][x] <= 1 /\ vouchers'[c][x] <= 1
                        /\ \A x \in Members : mails'[c][x] > 0 =>
                             recipient'[c][x] = "SENT" \/ (n.to = x /\ Unmarked(n) = "SENT")
      OBVIOUS
    <2>1. l.gift => vouchers[c][m] > 0
      BY <1>1, <1>2, AtRecipient, AtWork DEF Progress
    <2>2. /\ l.sent = Cardinality(With(c, "SENT")) /\ l.failed = Cardinality(With(c, "FAILED"))
          /\ \A x \in l.batch : recipient[c][x] = "PENDING"
          /\ \A x \in Members : mails[c][x] <= 1 /\ vouchers[c][x] <= 1
          /\ \A x \in Members : mails[c][x] > 0 => recipient[c][x] = "SENT"
      BY <1>1, <1>2, AtRecipient, BeforeMail
    <2>3. With(c, "SENT")' = With(c, "SENT") /\ With(c, "FAILED")' = With(c, "FAILED")
      BY <1>1 DEF With
    <2>4. mails[c][m] = 0
      <3>1. mails[c][m] \in Nat /\ ~(mails[c][m] > 0)
        BY <1>2, <1>3, <2>2
      <3>2. QED BY <3>1
    <2>5. Progress(n, c)'
      <3>1. /\ n.sent = Cardinality(With(c, "SENT")') + (IF Unmarked(n) = "SENT" THEN 1 ELSE 0)
            /\ n.failed = Cardinality(With(c, "FAILED")') + (IF Unmarked(n) = "FAILED" THEN 1 ELSE 0)
        BY <1>4, <2>2, <2>3 DEF Unmarked
      <3>2. QED BY <1>1, <1>4, <2>1, <2>2, <3>1 DEF Progress
    <2>6. \A x \in Members : mails'[c][x] <= 1
      BY <1>6, <2>2, <2>4
    <2>7. \A x \in Members : mails'[c][x] > 0 =>
             recipient'[c][x] = "SENT" \/ (n.to = x /\ Unmarked(n) = "SENT")
      BY <1>1, <1>4, <1>6, <2>2 DEF Unmarked
    <2>8. QED BY <1>1, <2>2, <2>5, <2>6, <2>7
  <1>9. \A d \in Campaigns : d # c => SameRow(d)
    BY <1>1, <1>6 DEF SameRow
  <1>10. QED BY <1>1, <1>2, <1>4, <1>7, <1>8, <1>9, AtRecipient, WritesOn, ZenonT(60)

\* The row of one recipient is written.
LEMMA MarkOne ==
  ASSUME MailerTyped, NEW c \in Campaigns, NEW m \in Members, NEW e \in RecipientStatus,
         recipient' = [recipient EXCEPT ![c][m] = e]
  PROVE  /\ recipient' \in [Campaigns -> [Members -> RecipientStatus \cup {"none"}]]
         /\ \A d \in Campaigns : IsFiniteSet(With(d, "SENT")') /\ IsFiniteSet(With(d, "FAILED")')
         /\ recipient'[c][m] = e /\ \A x \in Members : x # m => recipient'[c][x] = recipient[c][x]
         /\ \A d \in Campaigns : d # c => recipient'[d] = recipient[d]
  <1>1. recipient \in [Campaigns -> [Members -> RecipientStatus \cup {"none"}]]
    BY DEF MailerTyped
  <1>2. PICK f \in [Members -> RecipientStatus \cup {"none"}] : f = [recipient[c] EXCEPT ![m] = e]
    BY <1>1
  <1>3. recipient' = [recipient EXCEPT ![c] = f]
    BY <1>1, <1>2
  <1>4. \A s \in {"SENT", "FAILED"} : {x \in Members : f[x] = s} \subseteq With(c, s) \cup {m}
    BY <1>1, <1>2 DEF With
  <1>5. QED BY <1>1, <1>2, <1>3, <1>4, TypedRecipients

\* Its count, if it was pending.
LEMMA MarkCounts ==
  ASSUME MailerTyped, NEW c \in Campaigns, NEW m \in Members, NEW e \in RecipientStatus,
         recipient[c][m] = "PENDING", recipient' = [recipient EXCEPT ![c][m] = e]
  PROVE  \A s \in {"SENT", "FAILED"} :
           Cardinality(With(c, s)') = Cardinality(With(c, s)) + (IF e = s THEN 1 ELSE 0)
  <1>1. ASSUME NEW s \in {"SENT", "FAILED"}
        PROVE  Cardinality(With(c, s)') = Cardinality(With(c, s)) + (IF e = s THEN 1 ELSE 0)
    <2>1. /\ IsFiniteSet(With(c, s)) /\ Cardinality(With(c, s)) \in Nat
          /\ recipient[c][m] # s
          /\ recipient'[c][m] = e /\ \A x \in Members : x # m => recipient'[c][x] = recipient[c][x]
      BY Tallied, MarkOne DEF MailerTyped
    <2>2. CASE e = s
      <3>1. With(c, s)' = With(c, s) \cup {m}
        BY <2>1, <2>2 DEF With
      <3>2. m \notin With(c, s)
        BY <2>1 DEF With
      <3>3. QED BY <2>1, <2>2, <3>1, <3>2, FS_AddElement
    <2>3. CASE e # s
      <3>1. With(c, s)' = With(c, s)
        BY <2>1, <2>3 DEF With
      <3>2. QED BY <2>1, <2>3, <3>1
    <2>4. QED BY <2>2, <2>3
  <1>2. QED BY <1>1

\* Marking a recipient keeps MailerInv.
LEMMA MarkNext ==
  ASSUME MailerInv, NEW i \in Instances, Mark(i)
  PROVE  MailerInv'
  <1>1. /\ run[i].step = "mark" /\ Serving(i) /\ MailerTyped
        /\ UNCHANGED <<due, gift, vouchers, blank, mails, admin, mishaps>>
        /\ UNCHANGED <<gift, vouchers, mails, req, overtaken>>
    BY DEF Mark, RunAt, Serving, admin, MailerInv
  <1>2. PICK c \in Campaigns, m \in Members, l \in LocalState :
          c = run[i].at /\ m = run[i].to /\ l = run[i] /\ m \in l.batch
    BY <1>1, AtRecipient
  <1>3. CASE Throws(i)
    BY <1>1, <1>3, ThrowsNext
  <1>4. CASE /\ RunTo(i, "count") /\ recipient' = [recipient EXCEPT ![c][m] = l.result]
             /\ UNCHANGED <<campaign, counts>>
    <2>1. PICK e \in {"SENT", "FAILED"} : e = l.result
      BY <1>2 DEF LocalState
    <2>2. PICK n : n = [l EXCEPT !.step = "count"]
      OBVIOUS
    <2>3. /\ n \in LocalState /\ n.step = "count" /\ n.at = c /\ n.to = m /\ n.batch = l.batch
          /\ n.sent = l.sent /\ n.failed = l.failed
      BY <1>2, <2>2 DEF LocalState
    <2>4. run' = [run EXCEPT ![i] = n]
      BY <1>2, <1>4, <2>2 DEF RunTo
    <2>5. e \in RecipientStatus /\ recipient' = [recipient EXCEPT ![c][m] = e]
      BY <1>4, <2>1 DEF RecipientStatus
    <2>6. MailerTyped'
      <3>1. run' \in [Instances -> LocalState]
        BY <1>1, <2>3, <2>4, RunSet DEF MailerTyped
      <3>2. QED BY <1>1, <1>4, <2>5, <3>1, MarkOne DEF MailerTyped
    <2>7. c \notin overtaken =>
            /\ Progress(n, c)'
            /\ \A x \in Members : mails'[c][x] <= 1 /\ vouchers'[c][x] <= 1
            /\ \A x \in Members : mails'[c][x] > 0 => recipient'[c][x] = "SENT"
      <3> SUFFICES ASSUME c \notin overtaken
                   PROVE  /\ Progress(n, c)'
                          /\ \A x \in Members : mails'[c][x] <= 1 /\ vouchers'[c][x] <= 1
                          /\ \A x \in Members : mails'[c][x] > 0 => recipient'[c][x] = "SENT"
        OBVIOUS
      <3>1. /\ Progress(l, c) /\ l.step = "mark" /\ Unmarked(l) = e
            /\ \A x \in Members : mails[c][x] <= 1 /\ vouchers[c][x] <= 1
            /\ \A x \in Members : mails[c][x] > 0 => recipient[c][x] = "SENT" \/ (m = x /\ e = "SENT")
        BY <1>1, <1>2, <2>1, AtRecipient, AtWork DEF Unmarked
      <3>2. /\ l.sent = Cardinality(With(c, "SENT")) + (IF e = "SENT" THEN 1 ELSE 0)
            /\ l.failed = Cardinality(With(c, "FAILED")) + (IF e = "FAILED" THEN 1 ELSE 0)
            /\ \A x \in l.batch : recipient[c][x] = "PENDING"
        BY <3>1 DEF Progress
      <3>3. /\ Cardinality(With(c, "SENT")') = Cardinality(With(c, "SENT")) + (IF e = "SENT" THEN 1 ELSE 0)
            /\ Cardinality(With(c, "FAILED")') = Cardinality(With(c, "FAILED")) + (IF e = "FAILED" THEN 1 ELSE 0)
        BY <1>1, <1>2, <2>5, <3>2, MarkCounts
      <3>4. /\ recipient'[c][m] = e /\ \A x \in Members : x # m => recipient'[c][x] = recipient[c][x]
        BY <1>1, <2>5, MarkOne, ZenonT(60)
      <3>5. \A x \in n.batch : recipient'[c][x] = "PENDING" \/ x = m
        BY <1>2, <2>3, <3>2, <3>4 DEF LocalState
      <3>6. Progress(n, c)'
        <4>1. /\ Cardinality(With(c, "SENT")) \in Nat /\ Cardinality(With(c, "FAILED")) \in Nat
          BY <1>1, Tallied
        <4>2. /\ n.sent = Cardinality(With(c, "SENT")') + (IF Unmarked(n) = "SENT" THEN 1 ELSE 0)
              /\ n.failed = Cardinality(With(c, "FAILED")') + (IF Unmarked(n) = "FAILED" THEN 1 ELSE 0)
          BY <2>3, <3>2, <3>3, <4>1 DEF Unmarked
        <4>3. \A x \in n.batch : recipient'[c][x] = "PENDING" \/ x = n.to
          BY <2>3, <3>5
        <4>4. QED BY <2>3, <4>2, <4>3 DEF Progress
      <3>7. recipient[c][m] = "PENDING"
        BY <1>2, <3>2
      <3>8. \A x \in Members : mails'[c][x] > 0 => recipient'[c][x] = "SENT"
        BY <1>1, <3>1, <3>4, <3>7
      <3>9. QED BY <1>1, <3>1, <3>6, <3>8
    <2>8. \A d \in Campaigns : d # c => SameRow(d)
      BY <1>1, <1>4, <2>5, MarkOne DEF SameRow
    <2>9. QED BY <1>1, <1>2, <1>4, <2>3, <2>4, <2>6, <2>7, <2>8, AtRecipient, WritesOn
  <1>5. QED BY <1>2, <1>3, <1>4 DEF Mark

\* Done with a recipient, whom the rows show.
LEMMA OnwardProgress ==
  ASSUME NEW l \in LocalState, NEW c \in Campaigns, NEW n, n = Onward(l),
         l.sent = Cardinality(With(c, "SENT"))', l.failed = Cardinality(With(c, "FAILED"))',
         Cardinality(With(c, "SENT"))' \in Nat, Cardinality(With(c, "FAILED"))' \in Nat,
         \A m \in l.batch : m # l.to => recipient'[c][m] = "PENDING"
  PROVE  Progress(n, c)'
  <1>1. /\ n.batch = l.batch \ {l.to} /\ n.step \in {"fetch", "each"}
        /\ n.sent = l.sent /\ n.failed = l.failed
    BY OnwardFacts
  <1>2. /\ n.sent = Cardinality(With(c, "SENT"))' + (IF Unmarked(n) = "SENT" THEN 1 ELSE 0)
        /\ n.failed = Cardinality(With(c, "FAILED"))' + (IF Unmarked(n) = "FAILED" THEN 1 ELSE 0)
    BY <1>1 DEF Unmarked
  <1>3. QED BY <1>1, <1>2 DEF Progress

\* Counting a recipient keeps MailerInv.
LEMMA CountNext ==
  ASSUME MailerInv, NEW i \in Instances, Count(i)
  PROVE  MailerInv'
  <1>1. /\ run[i].step = "count" /\ Serving(i) /\ MailerTyped
        /\ UNCHANGED <<due, gift, vouchers, blank, mails, admin, mishaps>>
        /\ UNCHANGED <<gift, vouchers, mails, req, overtaken>>
    BY DEF Count, RunAt, Serving, admin, MailerInv
  <1>2. PICK c \in Campaigns, m \in Members, l \in LocalState :
          c = run[i].at /\ m = run[i].to /\ l = run[i] /\ m \in l.batch
    BY <1>1, AtRecipient
  <1>3. CASE Throws(i)
    BY <1>1, <1>3, ThrowsNext
  <1>4. CASE /\ run' = [run EXCEPT ![i] = Onward(@)]
             /\ counts' = [counts EXCEPT ![c] = [sent |-> l.sent, failed |-> l.failed]]
             /\ UNCHANGED <<campaign, recipient>>
    <2>1. PICK n : n = Onward(l)
      OBVIOUS
    <2>2. /\ n \in LocalState /\ n.step \in {"fetch", "each"} /\ (n.step = "fetch" => n.batch = {})
          /\ n.at = c /\ n.batch = l.batch \ {m} /\ n.sent = l.sent /\ n.failed = l.failed
      BY <1>2, <2>1, OnwardFacts
    <2>3. run' = [run EXCEPT ![i] = n]
      BY <1>2, <1>4, <2>1
    <2>4. [sent |-> l.sent, failed |-> l.failed] \in [sent : Nat, failed : Nat]
      BY <1>2 DEF LocalState
    <2>5. MailerTyped'
      <3>1. run' \in [Instances -> LocalState]
        BY <1>1, <2>2, <2>3, RunSet DEF MailerTyped
      <3>2. counts' \in [Campaigns -> [sent : Nat, failed : Nat]]
        BY <1>1, <1>4, <2>4 DEF MailerTyped
      <3>3. \A d \in Campaigns : IsFiniteSet(With(d, "SENT")') /\ IsFiniteSet(With(d, "FAILED")')
        BY <1>1, <1>4 DEF MailerTyped, With
      <3>4. QED BY <1>1, <1>4, <3>1, <3>2, <3>3 DEF MailerTyped
    <2>6. c \notin overtaken =>
            /\ Progress(n, c)'
            /\ \A x \in Members : mails'[c][x] <= 1 /\ vouchers'[c][x] <= 1
            /\ \A x \in Members : mails'[c][x] > 0 => recipient'[c][x] = "SENT"
      <3> SUFFICES ASSUME c \notin overtaken
                   PROVE  /\ Progress(n, c)'
                          /\ \A x \in Members : mails'[c][x] <= 1 /\ vouchers'[c][x] <= 1
                          /\ \A x \in Members : mails'[c][x] > 0 => recipient'[c][x] = "SENT"
        OBVIOUS
      <3>1. /\ Progress(l, c) /\ l.step = "count" /\ Unmarked(l) = "none"
            /\ \A x \in Members : mails[c][x] <= 1 /\ vouchers[c][x] <= 1
            /\ \A x \in Members : mails[c][x] > 0 => recipient[c][x] = "SENT"
        BY <1>1, <1>2, AtRecipient, AtWork DEF Unmarked
      <3>2. /\ Cardinality(With(c, "SENT")) \in Nat /\ Cardinality(With(c, "FAILED")) \in Nat
        BY <1>1, Tallied
      <3>3. l.sent = Cardinality(With(c, "SENT")) + 0 /\ l.failed = Cardinality(With(c, "FAILED")) + 0
        BY <3>1 DEF Progress
      <3>4. \A x \in l.batch : x # m => recipient[c][x] = "PENDING"
        BY <1>2, <3>1 DEF Progress
      <3>5. With(c, "SENT")' = With(c, "SENT") /\ With(c, "FAILED")' = With(c, "FAILED")
        BY <1>4 DEF With
      <3>6. l.sent = Cardinality(With(c, "SENT")) /\ l.failed = Cardinality(With(c, "FAILED"))
        BY <3>2, <3>3
      <3>7. Progress(n, c)'
        BY <1>2, <1>4, <2>1, <3>2, <3>4, <3>5, <3>6, OnwardProgress
      <3>8. QED BY <1>1, <1>4, <3>1, <3>7
    <2>7. \A d \in Campaigns : d # c => SameRow(d)
      BY <1>1, <1>4 DEF SameRow, MailerTyped
    <2>8. /\ Working(i)
          /\ n.step \in {"find", "issue", "send", "mark", "count"} => n.to \in n.batch
          /\ n.step \notin {"each", "find", "issue", "send", "mark", "count"} => n.batch = {}
          /\ n.step \notin {"idle", "claim"}
          /\ run[i].at = c /\ overtaken' = overtaken /\ campaign' = campaign
      BY <1>1, <1>2, <1>4, <2>2, AtRecipient
    <2>9. QED BY <2>2, <2>3, <2>5, <2>6, <2>7, <2>8, WritesOn
  <1>5. QED BY <1>2, <1>3, <1>4 DEF Count, Tally

\* Going on to the next recipient keeps MailerInv.
LEMMA NextRecipientNext ==
  ASSUME MailerInv, NEW i \in Instances, NextRecipient(i)
  PROVE  MailerInv'
  <1>1. /\ run[i].step = "each" /\ Working(i) /\ MailerTyped
        /\ UNCHANGED <<due, gift, vouchers, blank, mails, admin, mishaps>>
        /\ UNCHANGED <<gift, vouchers, mails, req, overtaken>>
    BY DEF NextRecipient, RunAt, Working, admin, MailerInv
  <1>2. PICK l \in LocalState, c \in Campaigns : l = run[i] /\ c = l.at
    BY <1>1 DEF MailerInv, Engaged, MailerTyped
  <1>3. PICK m \in l.batch :
          \/ m \in blank /\ Throws(i)
          \/ /\ recipient' = Skipped(c, m)
             /\ run' = [run EXCEPT ![i] = Onward([@ EXCEPT !.to = m])]
             /\ UNCHANGED <<campaign, counts>>
          \/ /\ run' = [run EXCEPT ![i].to = m, ![i].step = IF run[i].gift THEN "find" ELSE "send"]
             /\ UNCHANGED <<campaign, counts, recipient>>
    BY <1>2 DEF NextRecipient
  <1>4. m \in Members
    BY <1>2 DEF LocalState
  <1>5. c \notin overtaken =>
          /\ l.sent = Cardinality(With(c, "SENT")) /\ l.failed = Cardinality(With(c, "FAILED"))
          /\ \A x \in l.batch : recipient[c][x] = "PENDING"
          /\ \A x \in Members : mails[c][x] <= 1 /\ vouchers[c][x] <= 1
          /\ \A x \in Members : mails[c][x] > 0 => recipient[c][x] = "SENT"
    BY <1>1, <1>2, BeforeMail
  <1>6. CASE Throws(i)
    BY <1>1, <1>6, ThrowsNext
  <1>7. CASE /\ recipient' = Skipped(c, m)
             /\ run' = [run EXCEPT ![i] = Onward([@ EXCEPT !.to = m])]
             /\ UNCHANGED <<campaign, counts>>
    <2>1. PICK k : k = [l EXCEPT !.to = m]
      OBVIOUS
    <2>2. /\ k \in LocalState /\ k.at = c /\ k.to = m /\ k.batch = l.batch
          /\ k.sent = l.sent /\ k.failed = l.failed
      BY <1>2, <1>4, <2>1 DEF LocalState
    <2>3. PICK n : n = Onward(k)
      OBVIOUS
    <2>4. /\ n \in LocalState /\ n.step \in {"fetch", "each"} /\ (n.step = "fetch" => n.batch = {})
          /\ n.at = c
      BY <2>2, <2>3, OnwardFacts
    <2>5. run' = [run EXCEPT ![i] = n]
      BY <1>2, <1>7, <2>1, <2>3
    <2>6. recipient' = [recipient EXCEPT ![c][m] = "SKIPPED"] /\ "SKIPPED" \in RecipientStatus
      BY <1>7 DEF Skipped, RecipientStatus
    <2>7. MailerTyped'
      <3>1. run' \in [Instances -> LocalState]
        BY <1>1, <2>4, <2>5, RunSet DEF MailerTyped
      <3>2. QED BY <1>1, <1>4, <1>7, <2>6, <3>1, MarkOne DEF MailerTyped
    <2>8. c \notin overtaken =>
            /\ Progress(n, c)'
            /\ \A x \in Members : mails'[c][x] <= 1 /\ vouchers'[c][x] <= 1
            /\ \A x \in Members : mails'[c][x] > 0 => recipient'[c][x] = "SENT"
      <3> SUFFICES ASSUME c \notin overtaken
                   PROVE  /\ Progress(n, c)'
                          /\ \A x \in Members : mails'[c][x] <= 1 /\ vouchers'[c][x] <= 1
                          /\ \A x \in Members : mails'[c][x] > 0 => recipient'[c][x] = "SENT"
        OBVIOUS
      <3>1. recipient[c][m] = "PENDING" /\ \A x \in Members : x # m => recipient'[c][x] = recipient[c][x]
        BY <1>1, <1>4, <1>5, <2>6, MarkOne
      <3>2. Cardinality(With(c, "SENT")) \in Nat /\ Cardinality(With(c, "FAILED")) \in Nat
        BY <1>1, Tallied
      <3>3. /\ Cardinality(With(c, "SENT")') = Cardinality(With(c, "SENT")) + (IF "SKIPPED" = "SENT" THEN 1 ELSE 0)
            /\ Cardinality(With(c, "FAILED")') = Cardinality(With(c, "FAILED")) + (IF "SKIPPED" = "FAILED" THEN 1 ELSE 0)
        BY <1>1, <1>4, <2>6, <3>1, MarkCounts
      <3>4. l.sent = Cardinality(With(c, "SENT")') /\ l.failed = Cardinality(With(c, "FAILED")')
        BY <1>5, <3>2, <3>3
      <3>5. \A x \in l.batch : x # m => recipient'[c][x] = "PENDING"
        BY <1>2, <1>5, <3>1 DEF LocalState
      <3>6. Progress(n, c)'
        <4>1. Cardinality(With(c, "SENT")') \in Nat /\ Cardinality(With(c, "FAILED")') \in Nat
          BY <3>2, <3>3
        <4>2. QED BY <2>2, <2>3, <4>1, <3>4, <3>5, OnwardProgress
      <3>7. QED BY <1>1, <1>5, <3>1, <3>6
    <2>9. \A d \in Campaigns : d # c => SameRow(d)
      BY <1>1, <1>4, <1>7, <2>6, MarkOne DEF SameRow
    <2>10. /\ Working(i)
           /\ n.step \in {"find", "issue", "send", "mark", "count"} => n.to \in n.batch
           /\ n.step \notin {"each", "find", "issue", "send", "mark", "count"} => n.batch = {}
           /\ n.step \notin {"idle", "claim"}
           /\ run[i].at = c /\ overtaken' = overtaken /\ campaign' = campaign
      BY <1>1, <1>2, <1>7, <2>4
    <2>11. QED BY <2>4, <2>5, <2>7, <2>8, <2>9, <2>10, WritesOn
  <1>8. CASE /\ run' = [run EXCEPT ![i].to = m, ![i].step = IF run[i].gift THEN "find" ELSE "send"]
             /\ UNCHANGED <<campaign, counts, recipient>>
    <2>1. PICK s \in {"find", "send"} : s = (IF l.gift THEN "find" ELSE "send") /\ (s = "send" => ~l.gift)
      BY <1>2 DEF LocalState
    <2>2. PICK n : n = [l EXCEPT !.to = m, !.step = s]
      OBVIOUS
    <2>3. /\ n \in LocalState /\ n.step = s /\ n.at = c /\ n.to = m /\ n.batch = l.batch
          /\ n.sent = l.sent /\ n.failed = l.failed /\ n.gift = l.gift
      BY <1>2, <1>4, <2>2 DEF LocalState
    <2>4. run' = [run EXCEPT ![i] = n]
      BY <1>1, <1>2, <1>8, <2>1, <2>2 DEF MailerTyped
    <2>5. c \notin overtaken => Progress(n, c)
      <3>1. Cardinality(With(c, "SENT")) \in Nat /\ Cardinality(With(c, "FAILED")) \in Nat
        BY <1>1, Tallied
      <3>2. SUFFICES ASSUME c \notin overtaken PROVE Progress(n, c)
        OBVIOUS
      <3>3. /\ n.sent = Cardinality(With(c, "SENT")) + (IF Unmarked(n) = "SENT" THEN 1 ELSE 0)
            /\ n.failed = Cardinality(With(c, "FAILED")) + (IF Unmarked(n) = "FAILED" THEN 1 ELSE 0)
        BY <1>5, <2>3, <3>1, <3>2 DEF Unmarked
      <3>4. QED BY <1>5, <2>1, <2>3, <3>2, <3>3 DEF Progress
    <2>6. /\ n.step \in {"find", "issue", "send", "count"} => n.to \in n.batch
          /\ n.step \notin {"each", "find", "issue", "send", "count"} => n.batch = {}
          /\ n.step \notin {"idle", "claim", "mark"} /\ run[i].step # "mark" /\ run[i].at = c
          /\ UNCHANGED <<campaign, gift, counts, recipient, vouchers, mails, req, overtaken>>
      BY <1>1, <1>2, <1>8, <2>1, <2>3
    <2>7. QED BY <1>1, <2>3, <2>4, <2>5, <2>6, GoesOn
  <1>9. QED BY <1>3, <1>6, <1>7, <1>8

---------------------------------------------------------------------------
(* The beginning and the end *)

\* Listing the recipients keeps MailerInv.
LEMMA ListRecipientsNext ==
  ASSUME MailerInv, NEW i \in Instances, ListRecipients(i)
  PROVE  MailerInv'
  <1>1. /\ run[i].step = "list" /\ Working(i) /\ MailerTyped
        /\ UNCHANGED <<due, gift, vouchers, blank, mails, admin, mishaps>>
        /\ UNCHANGED <<gift, vouchers, mails, req, overtaken>>
    BY DEF ListRecipients, RunAt, Working, admin, MailerInv
  <1>2. PICK l \in LocalState, c \in Campaigns : l = run[i] /\ c = l.at /\ l.batch = {}
    BY <1>1 DEF MailerInv, Engaged, MailerTyped, Serving
  <1>3. CASE Throws(i)
    BY <1>1, <1>3, ThrowsNext
  <1>4. ASSUME NEW audience \in SUBSET Members, RunTo(i, "prior"), UNCHANGED <<campaign, counts>>,
               recipient' = [recipient EXCEPT ![c] = [m \in Members |->
                 IF m \in audience /\ @[m] = "none" THEN "PENDING" ELSE @[m]]]
        PROVE  MailerInv'
    <2>1. recipient \in [Campaigns -> [Members -> RecipientStatus \cup {"none"}]]
      BY <1>1 DEF MailerTyped
    <2>2. PICK f : f = [m \in Members |->
                          IF m \in audience /\ recipient[c][m] = "none" THEN "PENDING" ELSE recipient[c][m]]
      OBVIOUS
    <2>3. recipient' = [recipient EXCEPT ![c] = f]
      BY <1>4, <2>1, <2>2
    <2>4. /\ f \in [Members -> RecipientStatus \cup {"none"}]
          /\ \A m \in Members : f[m] = recipient[c][m] \/ (f[m] = "PENDING" /\ recipient[c][m] = "none")
      BY <2>1, <2>2 DEF RecipientStatus
    <2>5. recipient'[c] = f /\ \A d \in Campaigns : d # c => recipient'[d] = recipient[d]
      BY <2>1, <2>3
    <2>6. \A s \in {"SENT", "FAILED"} : {m \in Members : f[m] = s} \subseteq With(c, s) \cup {"none"}
      BY <2>4 DEF With
    <2>7. PICK n : n = [l EXCEPT !.step = "prior"]
      OBVIOUS
    <2>8. n \in LocalState /\ n.step = "prior" /\ n.at = c /\ n.batch = {}
      BY <1>2, <2>7 DEF LocalState
    <2>9. run' = [run EXCEPT ![i] = n]
      BY <1>2, <1>4, <2>7 DEF RunTo
    <2>10. MailerTyped'
      <3>1. run' \in [Instances -> LocalState]
        BY <1>1, <2>8, <2>9, RunSet DEF MailerTyped
      <3>2. /\ recipient' \in [Campaigns -> [Members -> RecipientStatus \cup {"none"}]]
            /\ \A d \in Campaigns : IsFiniteSet(With(d, "SENT")') /\ IsFiniteSet(With(d, "FAILED")')
        BY <1>1, <2>3, <2>4, <2>6, TypedRecipients
      <3>3. QED BY <1>1, <1>4, <3>1, <3>2 DEF MailerTyped
    <2>11. c \notin overtaken =>
             /\ Progress(n, c)'
             /\ \A m \in Members : mails'[c][m] <= 1 /\ vouchers'[c][m] <= 1
             /\ \A m \in Members : mails'[c][m] > 0 => recipient'[c][m] = "SENT"
      <3>1. SUFFICES ASSUME c \notin overtaken
                     PROVE  /\ Progress(n, c)'
                            /\ \A m \in Members : mails'[c][m] <= 1 /\ vouchers'[c][m] <= 1
                            /\ \A m \in Members : mails'[c][m] > 0 => recipient'[c][m] = "SENT"
        OBVIOUS
      <3>2. /\ \A m \in Members : mails[c][m] <= 1 /\ vouchers[c][m] <= 1
            /\ \A m \in Members : mails[c][m] > 0 => recipient[c][m] = "SENT"
        BY <1>1, <1>2, <3>1, AtWork DEF Unmarked
      <3>3. Progress(n, c)'
        BY <2>8 DEF Progress
      <3>4. \A m \in Members : recipient[c][m] = "SENT" => recipient'[c][m] = "SENT"
        BY <2>4, <2>5
      <3>5. QED BY <1>1, <3>2, <3>3, <3>4
    <2>12. \A d \in Campaigns : d # c => SameRow(d)
      BY <1>1, <1>4, <2>5 DEF SameRow
    <2>13. campaign' = campaign /\ overtaken' = overtaken /\ run[i].at = c
      BY <1>1, <1>2, <1>4
    <2>14. QED BY <1>1, <2>8, <2>9, <2>10, <2>11, <2>12, <2>13, WritesOn
  <1>5. QED BY <1>2, <1>3, <1>4 DEF ListRecipients

\* A campaign ends.
LEMMA EndNext ==
  ASSUME MailerInv, NEW i \in Instances, Working(i), NEW n \in LocalState, NEW c \in Campaigns,
         run[i].at = c, run' = [run EXCEPT ![i] = n], n.step \in {"idle", "claim"},
         NEW s \in {"SENT", "FAILED"}, campaign' = [campaign EXCEPT ![c] = s],
         counts' \in [Campaigns -> [sent : Nat, failed : Nat]],
         \A d \in Campaigns : d # c => counts'[d] = counts[d],
         UNCHANGED <<gift, recipient, vouchers, mails, req, overtaken>>,
         run[i].step # "mark", c \notin overtaken => Complete(c)'
  PROVE  MailerInv'
  <1>1. /\ run' \in [Instances -> LocalState] /\ run'[i] = n
        /\ \A j \in Instances : j # i => run'[j] = run[j]
    BY RunSet DEF MailerInv, MailerTyped
  <1>2. MailerTyped /\ campaign \in [Campaigns -> CampaignStatus \cup {"deleted"}] /\ s \in CampaignStatus
    BY DEF MailerInv, MailerTyped, CampaignStatus
  <1>3. campaign' \in [Campaigns -> CampaignStatus \cup {"deleted"}] /\ campaign'[c] = s
        /\ \A d \in Campaigns : d # c => campaign'[d] = campaign[d]
    BY <1>2
  <1>4. MailerTyped'
    <2>1. \A d \in Campaigns : IsFiniteSet(With(d, "SENT")') /\ IsFiniteSet(With(d, "FAILED")')
      BY <1>2 DEF MailerTyped, With
    <2>2. QED BY <1>1, <1>2, <1>3, <2>1 DEF MailerTyped
  <1>5. ~Working(i)'
    BY <1>1 DEF Working
  <1>6. c \notin overtaken => Sound(c)'
    <2>1. SUFFICES ASSUME c \notin overtaken PROVE Sound(c)'
      OBVIOUS
    <2>2. /\ \A m \in Members : mails[c][m] <= 1 /\ vouchers[c][m] <= 1
          /\ \A m \in Members : mails[c][m] > 0 => recipient[c][m] = "SENT"
      BY <2>1, AtWork DEF Unmarked
    <2>3. QED BY <1>3, <2>1, <2>2 DEF Sound
  <1>7. \A d \in Campaigns : d # c => SameRow(d)
    BY <1>3 DEF SameRow
  <1>8. Engaged(i)'
    BY <1>5 DEF Engaged
  <1>9. QED BY <1>1, <1>4, <1>5, <1>6, <1>7, <1>8, StepOne

\* Refusing a campaign keeps MailerInv.
LEMMA RefuseNext ==
  ASSUME MailerInv, NEW i \in Instances, Refuse(i)
  PROVE  MailerInv'
  <1>1. /\ run[i].step = "refuse" /\ Working(i) /\ MailerTyped
        /\ UNCHANGED <<due, gift, vouchers, blank, mails, admin, mishaps>>
        /\ UNCHANGED <<gift, vouchers, mails, req, overtaken>>
    BY DEF Refuse, RunAt, Working, admin, MailerInv
  <1>2. PICK l \in LocalState, c \in Campaigns : l = run[i] /\ c = l.at
    BY <1>1 DEF MailerInv, Engaged, MailerTyped
  <1>3. CASE Throws(i)
    BY <1>1, <1>3, ThrowsNext
  <1>4. CASE /\ Exists(c) /\ To(c, "FAILED")
             /\ run' = [run EXCEPT ![i] = Resume(@.queue)]
             /\ UNCHANGED <<counts, recipient>>
    <2>1. PICK q \in SUBSET Campaigns : q = l.queue
      BY <1>2 DEF LocalState
    <2>2. PICK n \in LocalState : n = Resume(q) /\ n.step \in {"idle", "claim"}
      BY ResumeFacts
    <2>3. run' = [run EXCEPT ![i] = n] /\ campaign' = [campaign EXCEPT ![c] = "FAILED"]
      BY <1>2, <1>4, <2>1, <2>2 DEF To
    <2>4. c \notin overtaken => Complete(c)
      BY <1>1, <1>2, AtWork DEF Progress
    <2>5. c \notin overtaken => Complete(c)'
      BY <1>4, <2>4 DEF Complete, With
    <2>6. counts \in [Campaigns -> [sent : Nat, failed : Nat]] /\ counts' = counts
      BY <1>1, <1>4 DEF MailerTyped
    <2>7. QED BY <1>1, <1>2, <1>4, <2>2, <2>3, <2>5, <2>6, EndNext
  <1>5. QED BY <1>2, <1>3, <1>4 DEF Refuse

\* Finishing a campaign keeps MailerInv: all recipients are dealt with, and counted.
LEMMA FinishNext ==
  ASSUME MailerInv, NEW i \in Instances, Finish(i)
  PROVE  MailerInv'
  <1>1. /\ run[i].step = "finish" /\ Working(i) /\ MailerTyped
        /\ UNCHANGED <<due, gift, vouchers, blank, mails, admin, mishaps>>
        /\ UNCHANGED <<gift, vouchers, mails, req, overtaken>>
    BY DEF Finish, RunAt, Working, admin, MailerInv
  <1>2. PICK l \in LocalState, c \in Campaigns : l = run[i] /\ c = l.at
    BY <1>1 DEF MailerInv, Engaged, MailerTyped
  <1>3. CASE Throws(i)
    BY <1>1, <1>3, ThrowsNext
  <1>4. CASE /\ Exists(c) /\ Tally(i)
             /\ To(c, IF l.sent = 0 /\ l.failed > 0 THEN "FAILED" ELSE "SENT")
             /\ run' = [run EXCEPT ![i] = Resume(@.queue)]
             /\ UNCHANGED recipient
    <2>1. PICK q \in SUBSET Campaigns : q = l.queue
      BY <1>2 DEF LocalState
    <2>2. PICK n \in LocalState : n = Resume(q) /\ n.step \in {"idle", "claim"}
      BY ResumeFacts
    <2>3. run' = [run EXCEPT ![i] = n]
      BY <1>2, <1>4, <2>1, <2>2
    <2>4. PICK s \in {"SENT", "FAILED"} : s = (IF l.sent = 0 /\ l.failed > 0 THEN "FAILED" ELSE "SENT")
      OBVIOUS
    <2>5. campaign' = [campaign EXCEPT ![c] = s]
      BY <1>4, <2>4 DEF To
    <2>6. l.sent \in Nat /\ l.failed \in Nat
      BY <1>2 DEF LocalState
    <2>7. counts' = [counts EXCEPT ![c] = [sent |-> l.sent, failed |-> l.failed]]
      BY <1>2, <1>4 DEF Tally
    <2>8. /\ counts' \in [Campaigns -> [sent : Nat, failed : Nat]]
          /\ counts'[c].sent = l.sent /\ counts'[c].failed = l.failed
          /\ \A d \in Campaigns : d # c => counts'[d] = counts[d]
      BY <1>1, <2>6, <2>7 DEF MailerTyped
    <2>9. c \notin overtaken => Complete(c)'
      <3>1. SUFFICES ASSUME c \notin overtaken PROVE Complete(c)'
        OBVIOUS
      <3>2. With(c, "PENDING") = {}
        BY <1>1, <1>2, <3>1, AtWork DEF Progress
      <3>3. l.sent = Cardinality(With(c, "SENT")) /\ l.failed = Cardinality(With(c, "FAILED"))
        BY <1>1, <1>2, <3>1, BeforeMail
      <3>4. \A t \in {"PENDING", "SENT", "FAILED"} : With(c, t)' = With(c, t)
        BY <1>4 DEF With
      <3>5. QED BY <2>8, <3>2, <3>3, <3>4 DEF Complete
    <2>10. run[i].at = c /\ UNCHANGED <<gift, recipient, vouchers, mails, req, overtaken>>
      BY <1>1, <1>2, <1>4
    <2>11. QED BY <1>1, <2>2, <2>3, <2>5, <2>8, <2>9, <2>10, EndNext
  <1>5. QED BY <1>2, <1>3, <1>4 DEF Finish

---------------------------------------------------------------------------
(* Administrators *)

\* Nothing the invariant is about changes.
LEMMA StepAside ==
  ASSUME MailerInv, MailerTyped', UNCHANGED <<campaign, counts, recipient, vouchers, mails, run, overtaken>>
  PROVE  MailerInv'
  <1>1. \A c \in Campaigns : SameRow(c)
    BY DEF SameRow
  <1>2. ASSUME NEW i \in Instances PROVE Engaged(i)'
    BY <1>1, EngagedKept DEF MailerInv, Engaged
  <1>3. ASSUME NEW c \in Campaigns \ overtaken PROVE Sound(c)'
    BY <1>1, <1>3, SoundKept DEF MailerInv
  <1>4. Alone'
    BY DEF MailerInv, Alone, Working
  <1>5. QED BY <1>2, <1>3, <1>4 DEF MailerInv

\* An administrator who writes over a campaign that is being sent has overtaken it.
LEMMA WritesFacts ==
  ASSUME MailerTyped, NEW r \in Requests, NEW op \in Operations, Writes(r, op)
  PROVE  \E c \in Campaigns :
           /\ c = req[r].at
           /\ req' \in [Requests -> [op : Operations, at : Campaigns] \cup {NoRequest}]
           /\ overtaken \subseteq overtaken' /\ overtaken' \subseteq Campaigns
           /\ op = "edit" => overtaken' = overtaken
           /\ op # "edit" /\ campaign[c] = "SENDING" => c \in overtaken'
           /\ \A d \in Campaigns : d # c /\ d \in overtaken' => d \in overtaken
           /\ UNCHANGED <<counts, vouchers, mails, run>>
  <1>1. req \in [Requests -> [op : Operations, at : Campaigns] \cup {NoRequest}] /\ overtaken \subseteq Campaigns
    BY DEF MailerTyped
  <1>2. req[r].op = op /\ req' = [req EXCEPT ![r] = NoRequest]
    BY DEF Writes
  <1>3. req[r] # NoRequest
    BY <1>2 DEF NoRequest, Operations
  <1>4. PICK c \in Campaigns : c = req[r].at
    BY <1>1, <1>3
  <1>5. overtaken' = overtaken \cup {d \in {c} : op # "edit" /\ campaign[d] = "SENDING"}
    BY <1>4 DEF Writes
  <1>6. req' \in [Requests -> [op : Operations, at : Campaigns] \cup {NoRequest}]
    BY <1>1, <1>2
  <1>7. QED BY <1>1, <1>4, <1>5, <1>6 DEF Writes

\* An administrator reads, or edits, or a campaign becomes due.
LEMMA AsideNext ==
  ASSUME MailerInv,
         \/ \E r \in Requests, op \in Operations, c \in Campaigns : AdminRead(r, op, c)
         \/ \E r \in Requests : EditWrite(r)
         \/ \E c \in Campaigns : TimeComes(c)
         \/ UNCHANGED mailerVars
  PROVE  MailerInv'
  <1>1. MailerTyped
    BY DEF MailerInv
  <1>2. ASSUME NEW r \in Requests, NEW op \in Operations, NEW c \in Campaigns, AdminRead(r, op, c)
        PROVE  MailerInv'
    <2>1. UNCHANGED <<campaign, gift, counts, recipient, vouchers, mails, run, overtaken>>
      BY <1>2 DEF AdminRead, rows, memberRows
    <2>2. [op |-> op, at |-> c] \in [op : Operations, at : Campaigns]
      OBVIOUS
    <2>3. req' \in [Requests -> [op : Operations, at : Campaigns] \cup {NoRequest}]
      BY <1>1, <1>2, <2>2 DEF AdminRead, MailerTyped
    <2>4. MailerTyped'
      BY <1>1, <2>1, <2>3 DEF MailerTyped, With
    <2>5. QED BY <2>1, <2>4, StepAside
  <1>3. ASSUME NEW r \in Requests, EditWrite(r) PROVE MailerInv'
    <2>1. "edit" \in Operations /\ Writes(r, "edit")
      BY <1>3 DEF EditWrite, Operations
    <2>2. PICK c \in Campaigns :
            /\ c = req[r].at
            /\ req' \in [Requests -> [op : Operations, at : Campaigns] \cup {NoRequest}]
            /\ overtaken' = overtaken /\ UNCHANGED <<counts, vouchers, mails, run>>
      BY <1>1, <2>1, WritesFacts
    <2>3. UNCHANGED <<campaign, counts, recipient, vouchers, mails, run, overtaken>>
      BY <1>3, <2>2 DEF EditWrite
    <2>4. gift' = [gift EXCEPT ![c] = ~@] /\ gift \in [Campaigns -> BOOLEAN]
      BY <1>1, <1>3, <2>2 DEF EditWrite, MailerTyped
    <2>5. gift' \in [Campaigns -> BOOLEAN]
      BY <2>4
    <2>6. MailerTyped'
      BY <1>1, <2>2, <2>3, <2>5 DEF MailerTyped, With
    <2>7. QED BY <2>3, <2>6, StepAside
  <1>4. ASSUME NEW c \in Campaigns, TimeComes(c) PROVE MailerInv'
    <2>1. UNCHANGED <<campaign, gift, counts, recipient, vouchers, mails, run, req, overtaken>>
      BY <1>4 DEF TimeComes, memberRows, admin
    <2>2. MailerTyped'
      BY <1>1, <2>1 DEF MailerTyped, With
    <2>3. QED BY <2>1, <2>2, StepAside
  <1>5. CASE UNCHANGED mailerVars
    <2>1. UNCHANGED <<campaign, gift, counts, recipient, vouchers, mails, run, req, overtaken>>
      BY <1>5 DEF mailerVars, rows, memberRows, admin
    <2>2. MailerTyped'
      BY <1>1, <2>1 DEF MailerTyped, With
    <2>3. QED BY <2>1, <2>2, StepAside
  <1>6. QED BY <1>2, <1>3, <1>4, <1>5

\* A request writes the status of a campaign.
LEMMA StatusNext ==
  ASSUME MailerInv, NEW r \in Requests, NEW op \in Operations, op # "edit", Writes(r, op),
         NEW s \in {"SCHEDULED", "CANCELLED"}, To(req[r].at, s), UNCHANGED <<gift, recipient>>
  PROVE  MailerInv'
  <1>1. MailerTyped
    BY DEF MailerInv
  <1>2. PICK c \in Campaigns :
          /\ c = req[r].at
          /\ req' \in [Requests -> [op : Operations, at : Campaigns] \cup {NoRequest}]
          /\ overtaken \subseteq overtaken' /\ overtaken' \subseteq Campaigns
          /\ campaign[c] = "SENDING" => c \in overtaken'
          /\ \A d \in Campaigns : d # c /\ d \in overtaken' => d \in overtaken
          /\ UNCHANGED <<counts, vouchers, mails, run>>
    BY <1>1, WritesFacts
  <1>3. /\ campaign \in [Campaigns -> CampaignStatus \cup {"deleted"}] /\ s \in CampaignStatus
        /\ campaign' = IF campaign[c] # "deleted" THEN [campaign EXCEPT ![c] = s] ELSE campaign
    BY <1>1, <1>2 DEF MailerTyped, CampaignStatus, EditableStatuses, To, Exists
  <1>4. /\ campaign' \in [Campaigns -> CampaignStatus \cup {"deleted"}]
        /\ \A d \in Campaigns : d # c => campaign'[d] = campaign[d]
        /\ campaign[c] = "deleted" => campaign'[c] = campaign[c]
        /\ campaign[c] # "deleted" => campaign'[c] = s
    BY <1>3
  <1>5. MailerTyped'
    <2>1. \A d \in Campaigns : IsFiniteSet(With(d, "SENT")') /\ IsFiniteSet(With(d, "FAILED")')
      BY <1>1 DEF MailerTyped, With
    <2>2. QED BY <1>1, <1>2, <1>4, <2>1 DEF MailerTyped
  <1>6. ASSUME c \notin overtaken' PROVE campaign[c] # "SENDING" /\ Sound(c)'
    <2>1. campaign[c] # "SENDING" /\ Sound(c)
      BY <1>2, <1>6 DEF MailerInv
    <2>2. CASE campaign[c] = "deleted"
      <3>1. SameRow(c)
        BY <1>2, <1>4, <2>2 DEF SameRow
      <3>2. QED BY <1>2, <2>1, <3>1, SoundKept
    <2>3. CASE campaign[c] # "deleted"
      <3>1. /\ Complete(c) /\ \A m \in Members : mails[c][m] <= 1 /\ vouchers[c][m] <= 1
            /\ \A m \in Members : mails[c][m] > 0 => recipient[c][m] = "SENT"
        BY <2>1, <2>3 DEF Sound
      <3>2. Complete(c)'
        BY <1>2, <3>1 DEF Complete, With
      <3>3. QED BY <1>2, <2>1, <3>1, <3>2 DEF Sound
    <2>4. QED BY <2>2, <2>3
  <1>7. \A d \in Campaigns : d # c => SameRow(d)
    BY <1>2, <1>4 DEF SameRow
  <1>8. QED BY <1>2, <1>5, <1>6, <1>7, StepOutside

\* An administrator who deletes a campaign keeps MailerInv.
LEMMA DeleteNext ==
  ASSUME MailerInv, NEW r \in Requests, DeleteWrite(r)
  PROVE  MailerInv'
  <1>1. MailerTyped /\ "delete" \in Operations /\ Writes(r, "delete")
    BY DEF MailerInv, DeleteWrite, Operations
  <1>2. PICK c \in Campaigns :
          /\ c = req[r].at
          /\ req' \in [Requests -> [op : Operations, at : Campaigns] \cup {NoRequest}]
          /\ overtaken \subseteq overtaken' /\ overtaken' \subseteq Campaigns
          /\ campaign[c] = "SENDING" => c \in overtaken'
          /\ \A d \in Campaigns : d # c /\ d \in overtaken' => d \in overtaken
          /\ UNCHANGED <<counts, vouchers, mails, run>>
    BY <1>1, WritesFacts
  <1>3. PICK f \in [Members -> RecipientStatus \cup {"none"}] : f = [m \in Members |-> "none"]
    OBVIOUS
  <1>4. campaign' = [campaign EXCEPT ![c] = "deleted"] /\ recipient' = [recipient EXCEPT ![c] = f]
    BY <1>2, <1>3 DEF DeleteWrite
  <1>5. /\ campaign' \in [Campaigns -> CampaignStatus \cup {"deleted"}] /\ campaign'[c] = "deleted"
        /\ \A d \in Campaigns : d # c => campaign'[d] = campaign[d] /\ recipient'[d] = recipient[d]
    BY <1>1, <1>4 DEF MailerTyped
  <1>6. \A s \in {"SENT", "FAILED"} : {m \in Members : f[m] = s} \subseteq With(c, s) \cup {"none"}
    BY <1>3
  <1>7. MailerTyped'
    <2>1. /\ recipient' \in [Campaigns -> [Members -> RecipientStatus \cup {"none"}]]
          /\ \A d \in Campaigns : IsFiniteSet(With(d, "SENT")') /\ IsFiniteSet(With(d, "FAILED")')
      BY <1>1, <1>4, <1>6, TypedRecipients
    <2>2. gift' = gift
      BY DEF DeleteWrite
    <2>3. QED BY <1>1, <1>2, <1>5, <2>1, <2>2 DEF MailerTyped
  <1>8. c \notin overtaken' => campaign[c] # "SENDING" /\ Sound(c)'
    BY <1>2, <1>5 DEF MailerInv, Sound
  <1>9. \A d \in Campaigns : d # c => SameRow(d)
    BY <1>2, <1>5 DEF SameRow
  <1>10. QED BY <1>2, <1>7, <1>8, <1>9, StepOutside

---------------------------------------------------------------------------
(* The invariant and what follows from it *)

\* No campaign has been started in the initial states.
LEMMA MailerBegins ==
  ASSUME MailerInit
  PROVE  MailerInv
  <1>1. \A c \in Campaigns, s \in RecipientStatus : With(c, s) = {}
    BY DEF MailerInit, With, RecipientStatus
  <1>2. Cardinality({}) = 0 /\ IsFiniteSet({})
    BY FS_EmptySet
  <1>3. NoRun \in LocalState /\ NoRun.step = "idle"
    BY DEF NoRun, LocalState
  <1>4. MailerTyped
    BY <1>1, <1>2, <1>3 DEF MailerInit, MailerTyped, CampaignStatus, EditableStatuses, RecipientStatus
  <1>5. \A i \in Instances : ~Working(i)
    BY <1>3 DEF MailerInit, Working
  <1>6. ASSUME NEW c \in Campaigns PROVE Sound(c)
    <2>1. Complete(c)
      BY <1>1, <1>2 DEF MailerInit, Complete, RecipientStatus
    <2>2. \A m \in Members : mails[c][m] = 0 /\ vouchers[c][m] = 0
      BY DEF MailerInit
    <2>3. QED BY <2>1, <2>2 DEF Sound
  <1>7. QED BY <1>4, <1>5, <1>6 DEF MailerInv, Alone, Engaged

\* Every step keeps MailerInv.
LEMMA MailerKept ==
  ASSUME MailerInv, [MailerNext]_mailerVars
  PROVE  MailerInv'
  <1>1. ASSUME NEW i \in Instances, Dispatch(i) \/ Stop(i) PROVE MailerInv'
    <2>1. CASE FindDue(i) \/ Claim(i) \/ Start(i) \/ Refuse(i) \/ ListRecipients(i) \/ CountPrior(i)
      BY <2>1, FindDueNext, ClaimNext, StartRunNext, RefuseNext, ListRecipientsNext, CountPriorNext
    <2>2. CASE FetchBatch(i) \/ NextRecipient(i) \/ FindVoucher(i) \/ IssueVoucher(i)
      BY <2>2, FetchBatchNext, NextRecipientNext, FindVoucherNext, IssueVoucherNext
    <2>3. CASE Send(i) \/ Mark(i) \/ Count(i) \/ Finish(i) \/ Stop(i)
      BY <2>3, SendNext, MarkNext, CountNext, FinishNext, StopNext
    <2>4. QED BY <1>1, <2>1, <2>2, <2>3 DEF Dispatch
  <1>2. ASSUME NEW r \in Requests, ScheduleWrite(r) \/ CancelWrite(r) PROVE MailerInv'
    <2>1. CASE ScheduleWrite(r)
      BY <2>1, StatusNext DEF ScheduleWrite, Operations
    <2>2. CASE CancelWrite(r)
      BY <2>2, StatusNext DEF CancelWrite, Operations
    <2>3. QED BY <1>2, <2>1, <2>2
  <1>3. QED BY <1>1, <1>2, AsideNext, DeleteNext DEF MailerNext

\* In every reachable state a campaign that no late request has written is sent by one dispatcher
\* at most, which has claimed it, and the rows agree with what it has done and counted
\* (dispatchDueCampaigns, runCampaign).
THEOREM MailerInvariant == MailerSpec => []MailerInv
  <1>1. QED BY MailerBegins, MailerKept, PTL DEF MailerSpec

\* Who is alone at a campaign mails it once.
LEMMA MailsOnce ==
  ASSUME MailerInv
  PROVE  OneMailOneGift
  <1>1. ASSUME NEW c \in Campaigns \ overtaken
        PROVE  \A m \in Members : mails[c][m] <= 1 /\ vouchers[c][m] <= 1
    BY DEF MailerInv, Sound
  <1>2. ASSUME NEW c \in Campaigns \ overtaken, NEW i \in Instances, RunAt(i, "mark"), run[i].at = c,
               run[i].gift
        PROVE  vouchers[c][run[i].to] = 1
    <2>1. Serving(i) /\ Working(i) /\ run[i].step = "mark"
      BY <1>2 DEF RunAt, Serving, Working
    <2>2. PICK m \in Members : m = run[i].to
      BY <2>1, AtRecipient
    <2>3. Progress(run[i], c)
      BY <1>2, <2>1 DEF MailerInv, Engaged
    <2>4. vouchers[c][m] > 0
      BY <1>2, <2>1, <2>2, <2>3 DEF Progress
    <2>5. vouchers[c][m] \in Nat /\ vouchers[c][m] <= 1
      BY <1>1, <1>2 DEF MailerInv, MailerTyped
    <2>6. QED BY <2>2, <2>4, <2>5
  <1>3. QED BY <1>1, <1>2 DEF OneMailOneGift

\* A member gets a campaign's mail and its voucher at most once, the voucher first, however
\* many processes dispatch and wherever they stop, unless a request that read the campaign
\* before it was claimed writes it afterwards (dispatchDueCampaigns, runCampaign).
THEOREM MailedOnce == MailerSpec => []OneMailOneGift
  <1>1. MailerInv => OneMailOneGift
    BY MailsOnce
  <1>2. QED BY <1>1, MailerInvariant, PTL

\* What is over is complete.
LEMMA CompleteWhenOver ==
  ASSUME MailerInv
  PROVE  FinishedIsComplete
  <1>1. ASSUME NEW c \in Campaigns \ overtaken, campaign[c] \in Finished PROVE Complete(c)
    BY <1>1 DEF MailerInv, Sound, Finished
  <1>2. QED BY <1>1 DEF FinishedIsComplete, Complete

\* A campaign that is over has dealt with every recipient, and its counts are right, also if it
\* was sent in two runs, with the same exception (the loop and the counts of runCampaign).
THEOREM FinishedComplete == MailerSpec => []FinishedIsComplete
  <1>1. MailerInv => FinishedIsComplete
    BY CompleteWhenOver
  <1>2. QED BY <1>1, MailerInvariant, PTL

---------------------------------------------------------------------------
(***************************************************************************)
(* Proofs about SalesPlay, for any number of receipts, credit notes,        *)
(* webhooks and failures: receipts are worth their points once, whatever    *)
(* the clock does, and the reconcile misses nothing, for a window of any    *)
(* length.                                                                  *)
(*                                                                          *)
(* PointsExactlyOnce counts what is on its way to the points (Unawarded).    *)
(* That a receipt is on the way once, and only if it was stored, earns       *)
(* points and has not been given up, is AwardOwned.  NothingMissed compares  *)
(* the failures with the window; MissingInv charges them to the days on      *)
(* which a record could have been found.                                    *)
(***************************************************************************)
ItemState == [at : Records, step : {"find", "create", "award"}] \cup {Nothing}

\* A request that is about to award has stored the receipt itself.
AwardOwned ==
  /\ \A w \in Workers : ItemAt(w, "award") =>
       item[w].at \in Receipts /\ item[w].at \in stored \ (online \cup lost)
  /\ \A v, w \in Workers : ItemAt(v, "award") /\ ItemAt(w, "award") /\ item[v].at = item[w].at => v = w

PointsInv ==
  /\ item \in [Workers -> ItemState]
  /\ job \in [Jobs -> JobState]
  /\ points \in [Receipts -> {0, 1}]
  /\ lost \subseteq stored
  /\ AwardOwned
  /\ PointsExactlyOnce

---------------------------------------------------------------------------

\* No receipt is stored in the initial states.
LEMMA PointsInit == SalesPlayInit => PointsInv
  <1>1. SUFFICES ASSUME SalesPlayInit PROVE PointsInv
    OBVIOUS
  <1>2. \A w \in Workers : item[w] = Nothing /\ ~ItemAt(w, "award")
    BY <1>1 DEF SalesPlayInit, ItemAt, Nothing
  <1>3. Unawarded(Workers) = {}
    BY <1>2 DEF Unawarded
  <1>4. item \in [Workers -> ItemState] /\ job \in [Jobs -> JobState]
    BY <1>1 DEF SalesPlayInit, ItemState, IdleJob, JobState
  <1>5. QED BY <1>1, <1>2, <1>3, <1>4 DEF SalesPlayInit, PointsInv, AwardOwned, PointsExactlyOnce

\* Steps that touch no award, no receipt and no points keep the invariant.
LEMMA CalmPoints ==
  ASSUME PointsInv, item' \in [Workers -> ItemState],
         job' \in [Jobs -> JobState],
         UNCHANGED <<online, points, lost>>, stored \subseteq stored',
         \A x \in Receipts \ online : x \in stored' => x \in stored,
         \A w \in Workers : item'[w].step = "award" \/ ItemAt(w, "award") => item'[w] = item[w]
  PROVE  PointsInv'
  <1>1. \A w \in Workers : item'[w].step = "award" <=> item[w].step = "award"
    BY DEF ItemAt
  <1>2. Unawarded(Workers)' = Unawarded(Workers)
    BY <1>1 DEF Unawarded, ItemAt
  <1>3. AwardOwned'
    BY <1>1 DEF PointsInv, AwardOwned, ItemAt
  <1>4. PointsExactlyOnce'
    <2>1. SUFFICES ASSUME NEW x \in Receipts
                   PROVE  x \in stored' \ (online \cup lost \cup Unawarded(Workers)) <=>
                          x \in stored \ (online \cup lost \cup Unawarded(Workers))
      BY <1>2 DEF PointsInv, PointsExactlyOnce
    <2>2. QED OBVIOUS
  <1>5. QED BY <1>3, <1>4 DEF PointsInv

\* A record is found, and it is new or known.
LEMMA FindPoints ==
  ASSUME PointsInv, NEW w \in Workers, Find(w)
  PROVE  PointsInv'
  <1>1. item[w] \in [at : Records, step : {"find", "create", "award"}]
    BY DEF PointsInv, Find, ItemAt, ItemState, Nothing
  <1>2. item' \in [Workers -> ItemState] /\ \A v \in Workers : v # w => item'[v] = item[v]
    BY <1>1 DEF PointsInv, Find, Done, ItemTo, ItemState
  <1>3. item'[w].step # "award" /\ item[w].step # "award"
    BY <1>1 DEF PointsInv, Find, Done, ItemTo, ItemAt, Nothing
  <1>4. QED BY <1>2, <1>3, CalmPoints DEF Find, ItemAt, PointsInv

\* A record is stored: by this request only, so its points are on the way once.
LEMMA CreatePoints ==
  ASSUME PointsInv, NEW w \in Workers, Create(w)
  PROVE  PointsInv'
  <1> DEFINE x == item[w].at
  <1>1. item[w] \in [at : Records, step : {"find", "create", "award"}] /\ item[w].step = "create"
    BY DEF PointsInv, Create, ItemAt, ItemState, Nothing
  <1>2. item' \in [Workers -> ItemState] /\ \A v \in Workers : v # w => item'[v] = item[v]
    BY <1>1 DEF PointsInv, Create, Done, ItemTo, ItemState
  <1>3. CASE Taken(x) \/ ~Earns(x)
    <2>1. item'[w].step # "award"
      BY <1>1, <1>3 DEF PointsInv, Create, Done, Nothing
    <2>2. stored \subseteq stored' /\ \A y \in Receipts \ online : y \in stored' => y \in stored
      BY <1>3 DEF Create, Earns
    <2>3. QED BY <1>1, <1>2, <2>1, <2>2, CalmPoints DEF Create, ItemAt, PointsInv
  <1>4. CASE ~Taken(x) /\ Earns(x)
    <2>1. stored' = stored \cup {x} /\ item'[w] = [at |-> x, step |-> "award"]
      BY <1>1, <1>4 DEF PointsInv, Create, ItemTo
    <2>2. x \notin stored /\ x \in Receipts \ online
      BY <1>4 DEF Taken, Earns
    <2>3. x \notin lost /\ \A v \in Workers : ItemAt(v, "award") => item[v].at # x
      BY <2>2 DEF PointsInv, AwardOwned
    <2>4. Unawarded(Workers)' = Unawarded(Workers) \cup {x}
      BY <1>1, <1>2, <2>1 DEF Unawarded, ItemAt
    <2>5. AwardOwned'
      BY <1>1, <1>2, <2>1, <2>2, <2>3 DEF PointsInv, AwardOwned, ItemAt, Create
    <2>6. PointsExactlyOnce'
      <3>1. SUFFICES ASSUME NEW y \in Receipts
                     PROVE  y \in stored' \ (online \cup lost \cup Unawarded(Workers)') <=>
                            y \in stored \ (online \cup lost \cup Unawarded(Workers))
        BY DEF PointsInv, PointsExactlyOnce, Create
      <3>2. QED BY <2>1, <2>2, <2>4
    <2>7. QED BY <1>2, <2>1, <2>5, <2>6 DEF PointsInv, Create
  <1>5. QED BY <1>3, <1>4

\* The points are awarded: by the one request they were on the way in.
LEMMA AwardPoints ==
  ASSUME PointsInv, NEW w \in Workers, Award(w)
  PROVE  PointsInv'
  <1> DEFINE x == item[w].at
  <1>1. x \in Receipts /\ x \in stored \ (online \cup lost)
    BY DEF PointsInv, AwardOwned, Award
  <1>2. item' = [item EXCEPT ![w] = Nothing] /\ item' \in [Workers -> ItemState]
    BY DEF PointsInv, Award, Done, ItemState
  <1>3. \A v \in Workers : item'[v].step = "award" <=> item[v].step = "award" /\ v # w
    BY <1>2 DEF PointsInv, Nothing
  <1>4. \A v \in Workers : v # w => item'[v] = item[v]
    BY <1>2 DEF PointsInv
  <1>5. Unawarded(Workers)' = Unawarded(Workers) \ {x}
    <2>1. \A v \in Workers : v # w /\ item[v].step = "award" => item[v].at # x
      BY DEF PointsInv, AwardOwned, ItemAt, Award
    <2>2. QED BY <1>3, <1>4, <2>1 DEF Unawarded, ItemAt
  <1>6. points[x] = 0
    <2>1. x \in Unawarded(Workers)
      BY DEF Unawarded, Award
    <2>2. QED BY <1>1, <2>1 DEF PointsInv, PointsExactlyOnce
  <1>7. points' = [points EXCEPT ![x] = 1]
    BY <1>1, <1>6 DEF PointsInv, Award
  <1>8. AwardOwned'
    BY <1>3, <1>4 DEF PointsInv, AwardOwned, ItemAt, Award
  <1>9. PointsExactlyOnce'
    BY <1>1, <1>5, <1>7 DEF PointsInv, PointsExactlyOnce, Award
  <1>10. QED BY <1>1, <1>2, <1>7, <1>8, <1>9 DEF PointsInv, Award

\* Requests in W are given up.
LEMMA LosePoints ==
  ASSUME PointsInv, NEW W \in SUBSET Workers,
         item' = [w \in Workers |-> IF w \in W THEN Nothing ELSE item[w]],
         lost' = lost \cup Unawarded(W),
         UNCHANGED <<online, points, stored>>,
         job' \in [Jobs -> JobState]
  PROVE  PointsInv'
  <1>1. item' \in [Workers -> ItemState]
    BY DEF PointsInv, ItemState
  <1>2. \A v \in Workers : item'[v].step = "award" <=> item[v].step = "award" /\ v \notin W
    BY DEF PointsInv, Nothing
  <1>3. Unawarded(W) \subseteq stored
    BY DEF PointsInv, AwardOwned, Unawarded
  <1>4. AwardOwned'
    <2>1. \A v \in Workers : item[v].step = "award" /\ v \notin W => item[v].at \notin Unawarded(W)
      BY DEF PointsInv, AwardOwned, ItemAt, Unawarded
    <2>2. QED BY <1>2, <2>1 DEF PointsInv, AwardOwned, ItemAt
  <1>5. lost' \cup Unawarded(Workers)' = lost \cup Unawarded(Workers)
    BY <1>2 DEF Unawarded, ItemAt
  <1>6. PointsExactlyOnce'
    <2>1. \A x \in Receipts : x \in stored' \ (online' \cup lost' \cup Unawarded(Workers)') <=>
                              x \in stored \ (online \cup lost \cup Unawarded(Workers))
      BY <1>5
    <2>2. QED BY <2>1 DEF PointsInv, PointsExactlyOnce
  <1>7. QED BY <1>1, <1>3, <1>4, <1>6 DEF PointsInv

---------------------------------------------------------------------------

\* Everything else lets awards alone.
LEMMA OtherPoints ==
  ASSUME PointsInv, SalesPlayNext,
         \A w \in Workers : ~Find(w) /\ ~Create(w) /\ ~Award(w) /\ ~ItemFails(w), ~Crash
  PROVE  PointsInv'
  <1> DEFINE JobType == [Jobs -> JobState]
  <1>1. SUFFICES /\ item' \in [Workers -> ItemState] /\ job' \in JobType
                 /\ UNCHANGED <<online, points, lost, stored>>
                 /\ \A w \in Workers : item'[w].step = "award" \/ ItemAt(w, "award") => item'[w] = item[w]
    BY CalmPoints
  <1>2. item \in [Workers -> ItemState] /\ job \in JobType
    BY DEF PointsInv
  <1>3. ASSUME NEW x \in Records, NEW w \in Workers, item[w] = Nothing,
               item' = [item EXCEPT ![w] = [at |-> x, step |-> "find"]]
        PROVE  /\ item' \in [Workers -> ItemState]
               /\ \A v \in Workers : item'[v].step = "award" \/ ItemAt(v, "award") => item'[v] = item[v]
    BY <1>2, <1>3 DEF ItemState, ItemAt, Nothing
  <1>4. CASE \E x \in Records : Make(x)
    BY <1>2, <1>4 DEF Make
  <1>5. CASE \E x \in Records, h \in Handlers : Webhook(h, x)
    <2>1. PICK x \in Records, h \in Handlers : Webhook(h, x)
      BY <1>5
    <2>2. QED BY <1>2, <1>3, <2>1 DEF Webhook, Workers
  <1>6. ASSUME NEW j \in Jobs, Take(j)
        PROVE  /\ item' \in [Workers -> ItemState] /\ job' \in JobType
               /\ UNCHANGED <<online, points, lost, stored>>
               /\ \A w \in Workers : item'[w].step = "award" \/ ItemAt(w, "award") => item'[w] = item[w]
    <2>1. PICK x \in job[j].left : /\ item' = [item EXCEPT ![j] = [at |-> x, step |-> "find"]]
                                   /\ job' = [job EXCEPT ![j].left = @ \ {x}]
      BY <1>6 DEF Take
    <2>2. x \in Records
      BY <1>2 DEF JobState
    <2>3. job' \in JobType
      BY <1>2, <2>1 DEF JobState
    <2>4. QED BY <1>3, <1>6, <2>1, <2>2, <2>3 DEF Take, Workers
  <1>7. ASSUME NEW j \in Jobs,
               \/ StartPull(j) \/ PullReceipts(j) \/ PullNotes(j)
               \/ ReceiptsPulled(j) \/ NotesPulled(j) \/ PullFails(j)
        PROVE  UNCHANGED <<item, online, points, lost, stored>> /\ job' \in JobType
    <2>1. UNCHANGED <<item, online, points, lost, stored>>
      BY <1>7 DEF StartPull, PullReceipts, PullNotes, ReceiptsPulled, NotesPulled, PullFails
    <2>2. ASSUME NEW s \in {"idle", "receipts", "receipt items", "notes", "note items"},
                 job' = [job EXCEPT ![j].step = s]
          PROVE  job' \in JobType
      BY <1>2, <2>2 DEF JobState
    <2>3. ASSUME job' = [job EXCEPT ![j] = IdleJob]
          PROVE  job' \in JobType
      BY <1>2, <2>3 DEF IdleJob, JobState
    <2>4. ASSUME NEW s \in {"idle", "receipts", "receipt items", "notes", "note items"},
                 NEW X \in SUBSET Records, NEW got \in SUBSET Found(j, X),
                 job' = [job EXCEPT ![j].step = s, ![j].left = got]
          PROVE  job' \in JobType
      BY <1>2, <2>4 DEF Found, JobState
    <2>5. CASE StartPull(j) \/ ReceiptsPulled(j)
      BY <2>2, <2>5 DEF StartPull, ReceiptsPulled
    <2>6. CASE NotesPulled(j) \/ PullFails(j)
      BY <2>3, <2>6 DEF NotesPulled, PullFails
    <2>7. CASE PullReceipts(j)
      BY <2>2, <2>4, <2>7 DEF PullReceipts, Pull, Records
    <2>8. CASE PullNotes(j)
      BY <2>3, <2>4, <2>8 DEF PullNotes, Pull, Records
    <2>9. QED BY <1>7, <2>1, <2>5, <2>6, <2>7, <2>8
  <1>8. CASE Tick
    BY <1>2, <1>8 DEF Tick
  <1>9. QED BY <1>2, <1>4, <1>5, <1>6, <1>7, <1>8 DEF SalesPlayNext, ItemAt

\* Every step keeps PointsInv.
LEMMA PointsNext == PointsInv /\ [SalesPlayNext]_salesplayVars => PointsInv'
  <1>1. SUFFICES ASSUME PointsInv, [SalesPlayNext]_salesplayVars PROVE PointsInv'
    OBVIOUS
  <1>2. CASE \E w \in Workers : Find(w) \/ Create(w) \/ Award(w)
    BY <1>1, <1>2, FindPoints, CreatePoints, AwardPoints
  <1>3. ASSUME NEW w \in Workers, ItemFails(w) PROVE PointsInv'
    <2>1. item' = [v \in Workers |-> IF v \in {w} THEN Nothing ELSE item[v]]
      BY <1>1, <1>3 DEF ItemFails, Done, PointsInv
    <2>2. /\ lost' = lost \cup Unawarded({w}) /\ UNCHANGED <<online, points, stored>>
          /\ job' \in [Jobs -> JobState]
      BY <1>1, <1>3 DEF ItemFails, PointsInv
    <2>3. {w} \in SUBSET Workers
      OBVIOUS
    <2>4. QED BY <1>1, <2>1, <2>2, <2>3, LosePoints
  <1>4. CASE Crash
    <2>1. item' = [v \in Workers |-> IF v \in Workers THEN Nothing ELSE item[v]]
      BY <1>4 DEF Crash
    <2>2. job' \in [Jobs -> JobState]
      BY <1>4 DEF Crash, IdleJob, JobState
    <2>3. QED BY <1>1, <1>4, <2>1, <2>2, LosePoints DEF Crash
  <1>5. CASE UNCHANGED salesplayVars
    BY <1>1, <1>5, CalmPoints DEF PointsInv, salesplayVars
  <1>6. QED BY <1>1, <1>2, <1>3, <1>4, <1>5, OtherPoints

\* A receipt that earns points and whose request did not stop is worth its points exactly once,
\* whatever webhooks, nightly and manual pulls deliver it, and however often (ingestReceipt).
THEOREM ReceiptsEarnOnce == SalesPlaySpec => []PointsExactlyOnce
  <1>1. PointsInv => PointsExactlyOnce
    BY DEF PointsInv
  <1>2. QED BY PointsInit, PointsNext, <1>1, PTL DEF SalesPlaySpec
---------------------------------------------------------------------------
(* Nothing is missed *)

\* The day of UTC on which a record was made, and how many daytimes are over.
Day(x) == (made[x] - 1) \div 2
Daytimes == now \div 2

Unstored == {x \in Records \ stored : made[x] # Never}

\* A pull has it on its pages, or is at it.
Held(j, x) ==
  x \in job[j].left \/ (item[j].at = x /\ item[j].step \in {"find", "create"})

\* The step of a pull (the names have blanks, which not every prover takes).
IngestsReceipts(j) == job[j].step = "receipt items"
IngestsNotes(j) == job[j].step = "note items"
OnReceipts(j) == job[j].step \in {"idle", "receipts"} \/ IngestsReceipts(j)

\* Today's reconcile has not begun, has still to ask for the record, or has got it.
InReach(x) ==
  /\ job["manual"].step = "idle"
  /\ OnReceipts("nightly") => pulledAt < now
  /\ IF x \in Receipts
     THEN OnReceipts("nightly") /\ (IngestsReceipts("nightly") => Held("nightly", x))
     ELSE IngestsNotes("nightly") => Held("nightly", x)

\* A record that is missing has cost a mishap on each daytime since its day; in the daytime
\* something has gone wrong today too, or today's reconcile gets it.
UnstoredInv ==
  \A x \in Unstored :
    \/ mishaps >= Lookback
    \/ mishaps >= Daytimes - Day(x)
    \/ /\ mishaps = Daytimes - Day(x) - 1
       /\ now % 2 = 1 => InReach(x)

ReconcileInv ==
  /\ now \in 0..End /\ pulledAt \in Int /\ pulledAt <= now /\ mishaps \in Nat
  /\ made \in [Records -> 0..Never] /\ \A x \in Records : made[x] = Never \/ made[x] <= now
  /\ running => \E j \in Jobs : IngestsReceipts(j) \/ IngestsNotes(j)
  /\ UnstoredInv

\* Where a record is in the calendar.
LEMMA OnCalendar ==
  ASSUME End \in Nat, ReconcileInv, NEW x \in Records, made[x] # Never
  PROVE  /\ Day(x) \in Int /\ Daytimes \in Nat /\ made[x] \in 0..now
         /\ made[x] \in {2 * Day(x) + 1, 2 * Day(x) + 2} /\ now \in {2 * Daytimes, 2 * Daytimes + 1}
         /\ mishaps \in Nat /\ now \in Nat /\ Daytimes - Day(x) \in Int
  <1>1. made[x] \in Nat /\ made[x] <= now /\ now \in Nat /\ mishaps \in Nat
    <2>1. made[x] \in 0..Never /\ now \in 0..End /\ mishaps \in Nat /\ made[x] <= now
      BY DEF ReconcileInv
    <2>2. QED BY <2>1
  <1>2. Day(x) \in Int /\ made[x] \in {2 * Day(x) + 1, 2 * Day(x) + 2}
    BY <1>1 DEF Day
  <1>3. Daytimes \in Nat /\ now \in {2 * Daytimes, 2 * Daytimes + 1}
    BY <1>1 DEF Daytimes
  <1>4. QED BY <1>1, <1>2, <1>3

\* The window of today's reconcile.
LEMMA InWindow ==
  ASSUME End \in Nat, Lookback \in Nat, ReconcileInv, NEW x \in Records, made[x] # Never,
         now % 2 = 1, mishaps < Lookback, mishaps = Daytimes - Day(x) - 1
  PROVE  made[x] >= FromDate
  <1>1. /\ made[x] \in Nat /\ now \in Nat /\ mishaps \in Nat /\ Day(x) \in Int /\ Daytimes \in Nat
        /\ made[x] \in {2 * Day(x) + 1, 2 * Day(x) + 2} /\ now \in {2 * Daytimes, 2 * Daytimes + 1}
    BY OnCalendar
  <1>2. now = 2 * Daytimes + 1
    BY <1>1
  <1>3. (now - 1) \div 2 = Daytimes
    BY <1>1, <1>2
  <1>4. QED BY <1>1, <1>3 DEF FromDate

\* Where something goes wrong, or what is missing stays in reach.
LEMMA SameDay ==
  ASSUME End \in Nat, Lookback \in Nat, ReconcileInv, made' = made, now' = now, stored \subseteq stored',
         pulledAt' \in Int, pulledAt' <= now,
         running' => \E j \in Jobs : IngestsReceipts(j)' \/ IngestsNotes(j)',
         \/ mishaps' = mishaps + 1
         \/ /\ mishaps' = mishaps
            /\ \A x \in Unstored : /\ x \notin stored' /\ now % 2 = 1 /\ mishaps < Lookback
                                  /\ mishaps = Daytimes - Day(x) - 1 /\ InReach(x)
                                  => InReach(x)'
  PROVE  ReconcileInv'
  <1>1. ASSUME NEW x \in Unstored'
        PROVE  \/ mishaps' >= Lookback
               \/ mishaps' >= (Daytimes - Day(x))'
               \/ /\ mishaps' = (Daytimes - Day(x) - 1)'
                  /\ now' % 2 = 1 => InReach(x)'
    <2>1. x \in Unstored /\ x \in Records /\ made[x] # Never /\ x \notin stored'
      BY DEF Unstored
    <2>2. PICK d \in Int : d = Daytimes - Day(x)
      BY <2>1, OnCalendar
    <2>3. (Daytimes - Day(x))' = d /\ (Daytimes - Day(x) - 1)' = d - 1
      BY <2>2 DEF Daytimes, Day
    <2>4. mishaps >= Lookback \/ mishaps >= d \/ (mishaps = d - 1 /\ (now % 2 = 1 => InReach(x)))
      BY <2>1, <2>2 DEF ReconcileInv, UnstoredInv
    <2>5. mishaps \in Nat
      BY DEF ReconcileInv
    <2>6. CASE mishaps' = mishaps + 1
      BY <2>3, <2>4, <2>5, <2>6
    <2>7. CASE mishaps' = mishaps
      <3>1. CASE mishaps >= Lookback \/ mishaps >= d
        BY <2>3, <2>7, <3>1
      <3>2. CASE ~(mishaps >= Lookback) /\ mishaps = d - 1 /\ (now % 2 = 1 => InReach(x))
        <4>1. now % 2 = 1 => InReach(x)'
          BY <2>1, <2>2, <2>5, <2>7, <3>2
        <4>2. QED BY <2>3, <2>7, <3>2, <4>1
      <3>3. QED BY <2>4, <3>1, <3>2
    <2>8. QED BY <2>6, <2>7
  <1>2. QED BY <1>1 DEF ReconcileInv, UnstoredInv

\* A record is sold, delivered, looked up, stored or awarded.
LEMMA RecordsNext ==
  ASSUME End \in Nat, Lookback \in Nat, PointsInv, ReconcileInv, NEW w \in Workers,
         \/ \E x \in Records : Webhook(w, x)
         \/ Find(w) \/ Create(w) \/ Award(w) \/ ItemFails(w)
  PROVE  ReconcileInv'
  <1>1. /\ UNCHANGED <<made, now, pulledAt, running, job>> /\ stored \subseteq stored'
        /\ mishaps' \in {mishaps, mishaps + 1} /\ (ItemFails(w) => mishaps' = mishaps + 1)
        /\ pulledAt \in Int /\ pulledAt <= now
        /\ running => \E j \in Jobs : IngestsReceipts(j) \/ IngestsNotes(j)
    BY DEF Webhook, Find, Create, Award, ItemFails, Mishap, ReconcileInv
  <1>2. ASSUME NEW x \in Unstored, x \notin stored', ~ItemFails(w), Held("nightly", x)
        PROVE  Held("nightly", x)'
    <2>1. item \in [Workers -> ItemState] /\ "nightly" \in Workers
      BY DEF PointsInv, Workers, Jobs
    <2>2. CASE x \in job["nightly"].left
      BY <1>1, <2>2 DEF Held
    <2>3. CASE item["nightly"].at = x /\ item["nightly"].step \in {"find", "create"} /\ w # "nightly"
      <3>1. item'["nightly"] = item["nightly"]
        BY <1>2, <2>1, <2>3 DEF Webhook, Find, Create, Award, Done, ItemTo
      <3>2. QED BY <2>3, <3>1 DEF Held
    <2>4. CASE item[w].at = x /\ item[w].step \in {"find", "create"} /\ w = "nightly"
      <3>1. ~Award(w) /\ ~(\E y \in Records : Webhook(w, y)) /\ x \notin stored
        BY <2>4 DEF Award, ItemAt, Webhook, Nothing, Unstored
      <3>2. ~Create(w)
        BY <1>2, <2>4, <3>1 DEF Create, Taken
      <3>3. Find(w) /\ item' = [item EXCEPT ![w].step = "create"]
        BY <1>2, <2>4, <3>1, <3>2 DEF Find, ItemTo
      <3>4. item'[w].at = x /\ item'[w].step = "create"
        BY <2>1, <2>4, <3>3 DEF ItemState, Nothing
      <3>5. QED BY <2>4, <3>4 DEF Held
    <2>5. QED BY <1>2, <2>2, <2>3, <2>4 DEF Held
  <1>3. ~ItemFails(w) => mishaps' = mishaps
    BY DEF Webhook, Find, Create, Award
  <1>4. ASSUME NEW x \in Unstored, x \notin stored', ~ItemFails(w), InReach(x)
        PROVE  InReach(x)'
    <2>1. /\ IngestsReceipts("nightly")' = IngestsReceipts("nightly") 
          /\ IngestsNotes("nightly")' = IngestsNotes("nightly") /\ OnReceipts("nightly")' = OnReceipts("nightly")
      BY <1>1 DEF IngestsReceipts, IngestsNotes, OnReceipts
    <2>2. QED BY <1>1, <1>2, <1>4, <2>1 DEF InReach
  <1>5. (\E j \in Jobs : IngestsReceipts(j) \/ IngestsNotes(j)) =>
          \E j \in Jobs : IngestsReceipts(j)' \/ IngestsNotes(j)'
    BY <1>1 DEF IngestsReceipts, IngestsNotes
  <1>6. QED BY <1>1, <1>3, <1>4, <1>5, SameDay

\* A pull takes a record from its pages.
LEMMA TakeNext ==
  ASSUME End \in Nat, Lookback \in Nat, PointsInv, ReconcileInv, NEW j \in Jobs, Take(j)
  PROVE  ReconcileInv'
  <1>1. PICK y \in job[j].left : /\ item' = [item EXCEPT ![j] = [at |-> y, step |-> "find"]]
                                 /\ job' = [job EXCEPT ![j].left = @ \ {y}]
    BY DEF Take
  <1>2. /\ item \in [Workers -> ItemState] /\ job \in [Jobs -> JobState]
        /\ j \in Workers /\ item[j] = Nothing /\ {"nightly", "manual"} \subseteq Jobs
    BY DEF PointsInv, Workers, Take, Jobs
  <1>3. /\ \A k \in Jobs : job'[k].step = job[k].step
        /\ \A k \in Jobs : k # j => job'[k] = job[k] /\ item'[k] = item[k]
        /\ job'[j].left = job[j].left \ {y} /\ item'[j] = [at |-> y, step |-> "find"]
    BY <1>1, <1>2 DEF JobState, Workers
  <1>4. UNCHANGED <<made, now, stored, pulledAt, running, mishaps>>
    BY DEF Take
  <1>5. ASSUME NEW x \in Unstored, Held("nightly", x) PROVE Held("nightly", x)'
    BY <1>2, <1>3, <1>5 DEF Held, Nothing
  <1>6. \A k \in Jobs : /\ IngestsReceipts(k)' = IngestsReceipts(k) /\ IngestsNotes(k)' = IngestsNotes(k)
                        /\ OnReceipts(k)' = OnReceipts(k)
    BY <1>3 DEF IngestsReceipts, IngestsNotes, OnReceipts
  <1>7. ASSUME NEW x \in Unstored, InReach(x) PROVE InReach(x)'
    BY <1>2, <1>3, <1>4, <1>5, <1>6, <1>7 DEF InReach
  <1>8. QED BY <1>4, <1>6, <1>7, SameDay DEF ReconcileInv

\* The steps of a pull are apart.
LEMMA JobsApart ==
  ASSUME NEW j \in Jobs
  PROVE  /\ JobAt(j, "receipts") => /\ OnReceipts(j) /\ ~IngestsReceipts(j) /\ ~IngestsNotes(j)
                                   /\ job[j].step # "idle"
         /\ JobAt(j, "notes") => /\ ~OnReceipts(j) /\ ~IngestsReceipts(j) /\ ~IngestsNotes(j)
                                /\ job[j].step # "idle"
         /\ JobAt(j, "idle") => OnReceipts(j) /\ ~IngestsReceipts(j) /\ ~IngestsNotes(j)
         /\ IngestsReceipts(j) => OnReceipts(j) /\ ~IngestsNotes(j) /\ job[j].step # "idle"
         /\ IngestsNotes(j) => ~OnReceipts(j) /\ job[j].step # "idle"
  BY DEF JobAt, OnReceipts, IngestsReceipts, IngestsNotes

\* The start of a job keeps ReconcileInv.
LEMMA StartPullNext ==
  ASSUME End \in Nat, Lookback \in Nat, PointsInv, ReconcileInv, NEW j \in Jobs, StartPull(j)
  PROVE  ReconcileInv'
  <1>1. /\ UNCHANGED <<now, made, stored, pulledAt, running, item>> /\ JobAt(j, "idle")
        /\ job' = [job EXCEPT ![j].step = "receipts"] /\ job \in [Jobs -> JobState]
        /\ j # "nightly" => mishaps' = mishaps + 1
        /\ j = "nightly" => mishaps' = mishaps
    BY DEF StartPull, Mishap, PointsInv
  <1>2. /\ job'[j].step = "receipts" /\ job'[j].left = job[j].left
        /\ \A k \in Jobs : k # j => job'[k] = job[k]
    BY <1>1 DEF JobState
  <1>3. \A k \in Jobs : IngestsReceipts(k)' = IngestsReceipts(k) /\ IngestsNotes(k)' = IngestsNotes(k)
    BY <1>1, <1>2 DEF IngestsReceipts, IngestsNotes, JobAt
  <1>4. ASSUME NEW x \in Unstored, InReach(x), j = "nightly" PROVE InReach(x)'
    <2>1. "nightly" \in Jobs /\ "manual" \in Jobs
      BY DEF Jobs
    <2>2. OnReceipts("nightly") /\ OnReceipts("nightly")'
      BY <1>1, <1>2, <1>4 DEF OnReceipts, JobAt
    <2>3. ~IngestsReceipts("nightly")' /\ ~IngestsNotes("nightly")'
      BY <1>1, <1>3, <1>4, JobsApart
    <2>4. QED BY <1>1, <1>2, <1>4, <2>1, <2>2, <2>3 DEF InReach
  <1>5. QED BY <1>1, <1>3, <1>4, SameDay DEF ReconcileInv

\* Pulling a page of receipts keeps ReconcileInv.
LEMMA PullReceiptsNext ==
  ASSUME End \in Nat, Lookback \in Nat, PointsInv, ReconcileInv, NEW j \in Jobs, PullReceipts(j)
  PROVE  ReconcileInv'
  <1>1. /\ UNCHANGED <<now, made, stored, pulledAt, item>> /\ JobAt(j, "receipts")
        /\ job \in [Jobs -> JobState] /\ "nightly" \in Jobs /\ "manual" \in Jobs
    BY DEF PullReceipts, PointsInv, Jobs
  <1>2. OnReceipts(j) /\ ~IngestsReceipts(j) /\ ~IngestsNotes(j) /\ job[j].step # "idle"
    BY <1>1, JobsApart
  <1>3. CASE running /\ job' = [job EXCEPT ![j].step = "notes"] /\ UNCHANGED <<running, mishaps>>
    <2>1. PICK k \in Jobs : IngestsReceipts(k) \/ IngestsNotes(k)
      BY <1>3 DEF ReconcileInv
    <2>2. k # j /\ job'[k] = job[k] /\ job[k].step # "idle"
      BY <1>1, <1>2, <1>3, <2>1, JobsApart DEF JobState
    <2>3. IngestsReceipts(k)' \/ IngestsNotes(k)'
      BY <2>1, <2>2 DEF IngestsReceipts, IngestsNotes
    <2>4. \A x \in Unstored : ~InReach(x)
      BY <1>2, <2>2 DEF InReach, Jobs
    <2>5. QED BY <1>1, <1>3, <2>3, <2>4, SameDay DEF ReconcileInv
  <1>4. CASE /\ ~running /\ running' /\ IngestsReceipts(j)'
             /\ \A k \in Jobs : k # j => job'[k] = job[k]
             /\ mishaps' = mishaps + 1
                \/ (mishaps' = mishaps /\ (j = "manual" \/ job'[j].left = Found(j, Receipts)))
    <2>1. ASSUME NEW x \in Unstored, InReach(x), now % 2 = 1, mishaps < Lookback,
                 mishaps = Daytimes - Day(x) - 1, mishaps' = mishaps
          PROVE  InReach(x)'
      <3>1. j = "nightly" /\ job'["manual"] = job["manual"]
        BY <1>1, <1>2, <1>4, <2>1 DEF InReach, Jobs
      <3>2. OnReceipts(j)' /\ ~IngestsNotes(j)'
        BY <1>4 DEF OnReceipts, IngestsReceipts, IngestsNotes
      <3>3. mishaps' # mishaps + 1 
        <4>1. mishaps \in Nat
          BY DEF ReconcileInv
        <4>2. QED BY <2>1, <4>1
      <3>4. job'[j].left = Found(j, Receipts)
        BY <1>4, <3>1, <3>3
      <3>5. x \in Receipts => Held("nightly", x)'
        <4>1. x \in Records /\ made[x] # Never
          BY <2>1 DEF Unstored
        <4>2. made[x] >= FromDate
          BY <2>1, <4>1, InWindow
        <4>3. QED BY <3>1, <3>4, <4>1, <4>2 DEF Held, Found
      <3>6. QED BY <1>1, <1>2, <2>1, <3>1, <3>2, <3>5 DEF InReach
    <2>2. pulledAt \in Int /\ pulledAt <= now
      BY DEF ReconcileInv
    <2>3. QED BY <1>1, <1>4, <2>1, <2>2, SameDay
  <1>5. ASSUME ~running, running' = TRUE, NEW got \in SUBSET Found(j, Receipts),
               job' = [job EXCEPT ![j].step = "receipt items", ![j].left = got],
               IF j = "manual" \/ got = Found(j, Receipts) THEN UNCHANGED mishaps ELSE Mishap
        PROVE  ReconcileInv'
    <2>1. /\ job'[j].step = "receipt items" /\ job'[j].left = got
          /\ \A k \in Jobs : k # j => job'[k] = job[k]
      BY <1>1, <1>5 DEF JobState
    <2>2. IngestsReceipts(j)'
      BY <2>1 DEF IngestsReceipts
    <2>3. mishaps' = mishaps + 1
          \/ (mishaps' = mishaps /\ (j = "manual" \/ job'[j].left = Found(j, Receipts)))
      BY <1>5, <2>1 DEF Mishap
    <2>4. QED BY <1>4, <1>5, <2>1, <2>2, <2>3
  <1>6. QED BY <1>3, <1>5 DEF PullReceipts, Pull

\* Pulling a page of credit notes keeps ReconcileInv.
LEMMA PullNotesNext ==
  ASSUME End \in Nat, Lookback \in Nat, PointsInv, ReconcileInv, NEW j \in Jobs, PullNotes(j)
  PROVE  ReconcileInv'
  <1>1. /\ UNCHANGED <<now, made, stored, pulledAt, item>> /\ JobAt(j, "notes")
        /\ job \in [Jobs -> JobState] /\ "nightly" \in Jobs /\ "manual" \in Jobs
    BY DEF PullNotes, PointsInv, Jobs
  <1>2. ~OnReceipts(j) /\ ~IngestsReceipts(j) /\ ~IngestsNotes(j) /\ job[j].step # "idle"
    BY <1>1, JobsApart
  <1>3. CASE running /\ job' = [job EXCEPT ![j] = IdleJob] /\ UNCHANGED <<running, mishaps>>
    <2>1. PICK k \in Jobs : IngestsReceipts(k) \/ IngestsNotes(k)
      BY <1>3 DEF ReconcileInv
    <2>2. k # j /\ job'[k] = job[k] /\ job[k].step # "idle"
      BY <1>1, <1>2, <1>3, <2>1, JobsApart DEF JobState
    <2>3. IngestsReceipts(k)' \/ IngestsNotes(k)'
      BY <2>1, <2>2 DEF IngestsReceipts, IngestsNotes
    <2>4. \A x \in Unstored : ~InReach(x)
      BY <1>2, <2>2 DEF InReach, Jobs
    <2>5. QED BY <1>1, <1>3, <2>3, <2>4, SameDay DEF ReconcileInv
  <1>4. CASE /\ ~running /\ running' /\ IngestsNotes(j)'
             /\ \A k \in Jobs : k # j => job'[k] = job[k]
             /\ mishaps' = mishaps + 1
                \/ (mishaps' = mishaps /\ (j = "manual" \/ job'[j].left = Found(j, Notes)))
    <2>1. ASSUME NEW x \in Unstored, InReach(x), now % 2 = 1, mishaps < Lookback,
                 mishaps = Daytimes - Day(x) - 1, mishaps' = mishaps
          PROVE  InReach(x)'
      <3>1. j = "nightly" /\ job'["manual"] = job["manual"]
        BY <1>1, <1>2, <1>4, <2>1 DEF InReach, Jobs
      <3>2. ~OnReceipts(j)'
        BY <1>4 DEF OnReceipts, IngestsReceipts, IngestsNotes
      <3>3. mishaps' # mishaps + 1
        <4>1. mishaps \in Nat
          BY DEF ReconcileInv
        <4>2. QED BY <2>1, <4>1
      <3>4. job'[j].left = Found(j, Notes)
        BY <1>4, <3>1, <3>3
      <3>5. x \notin Receipts /\ Held("nightly", x)'
        <4>1. x \in Records /\ made[x] # Never
          BY <2>1 DEF Unstored
        <4>2. made[x] >= FromDate
          BY <2>1, <4>1, InWindow
        <4>3. x \notin Receipts
          BY <1>2, <2>1, <3>1 DEF InReach
        <4>4. QED BY <3>1, <3>4, <4>1, <4>2, <4>3 DEF Held, Found, Records
      <3>6. QED BY <1>1, <2>1, <3>1, <3>2, <3>5 DEF InReach
    <2>2. pulledAt \in Int /\ pulledAt <= now
      BY DEF ReconcileInv
    <2>3. QED BY <1>1, <1>4, <2>1, <2>2, SameDay
  <1>5. ASSUME ~running, running' = TRUE, NEW got \in SUBSET Found(j, Notes),
               job' = [job EXCEPT ![j].step = "note items", ![j].left = got],
               IF j = "manual" \/ got = Found(j, Notes) THEN UNCHANGED mishaps ELSE Mishap
        PROVE  ReconcileInv'
    <2>1. /\ job'[j].step = "note items" /\ job'[j].left = got
          /\ \A k \in Jobs : k # j => job'[k] = job[k]
      BY <1>1, <1>5 DEF JobState
    <2>2. IngestsNotes(j)'
      BY <2>1 DEF IngestsNotes
    <2>3. mishaps' = mishaps + 1
          \/ (mishaps' = mishaps /\ (j = "manual" \/ job'[j].left = Found(j, Notes)))
      BY <1>5, <2>1 DEF Mishap
    <2>4. QED BY <1>4, <1>5, <2>1, <2>2, <2>3
  <1>6. QED BY <1>3, <1>5 DEF PullNotes, Pull

\* A pull is through with the receipts: what it had on its pages is stored.
LEMMA ReceiptsPulledNext ==
  ASSUME End \in Nat, Lookback \in Nat, PointsInv, ReconcileInv, NEW j \in Jobs, ReceiptsPulled(j)
  PROVE  ReconcileInv'
  <1>1. /\ UNCHANGED <<now, made, stored, item, mishaps>> /\ ~running' /\ pulledAt' = now
        /\ job \in [Jobs -> JobState] /\ "nightly" \in Jobs /\ "manual" \in Jobs
        /\ job' = [job EXCEPT ![j].step = "notes"]
        /\ job[j].left = {} /\ item[j] = Nothing
    BY DEF ReceiptsPulled, Ingested, PointsInv, Jobs
  <1>2. IngestsReceipts(j) /\ OnReceipts(j) /\ job[j].step # "idle"
    BY JobsApart DEF ReceiptsPulled, JobAt, IngestsReceipts
  <1>3. JobAt(j, "notes")' /\ ~OnReceipts(j)' /\ ~IngestsNotes(j)' /\ \A k \in Jobs : k # j => job'[k] = job[k]
    BY <1>1 DEF JobState, JobAt, OnReceipts, IngestsReceipts, IngestsNotes
  <1>4. ASSUME NEW x \in Unstored, InReach(x) PROVE InReach(x)'
    <2>1. j = "nightly"
      BY <1>2, <1>4 DEF InReach, Jobs
    <2>2. ~Held(j, x)
      BY <1>1 DEF Held, Nothing
    <2>3. x \notin Receipts
      BY <1>2, <1>4, <2>1, <2>2 DEF InReach
    <2>4. job'["manual"] = job["manual"]
      BY <1>1, <1>3, <2>1
    <2>5. QED BY <1>3, <1>4, <2>1, <2>3, <2>4 DEF InReach
  <1>5. pulledAt' \in Int /\ pulledAt' <= now
    BY <1>1 DEF ReconcileInv
  <1>6. QED BY <1>1, <1>4, <1>5, SameDay

\* The end of a pull keeps ReconcileInv, though it may advance the window.
LEMMA NotesPulledNext ==
  ASSUME End \in Nat, Lookback \in Nat, PointsInv, ReconcileInv, NEW j \in Jobs, NotesPulled(j)
  PROVE  ReconcileInv'
  <1>1. /\ UNCHANGED <<now, made, stored, item, mishaps, pulledAt>> /\ ~running'
        /\ job[j].left = {} /\ item[j] = Nothing
    BY DEF NotesPulled, Ingested
  <1>2. IngestsNotes(j) /\ ~OnReceipts(j) /\ job[j].step # "idle"
    BY JobsApart DEF NotesPulled, JobAt, IngestsNotes
  <1>3. ASSUME NEW x \in Unstored PROVE ~InReach(x)
    <2>1. ~Held(j, x)
      BY <1>1 DEF Held, Nothing
    <2>2. QED BY <1>2, <2>1 DEF InReach, Jobs
  <1>4. QED BY <1>1, <1>3, SameDay DEF ReconcileInv

\* A pull fails, or the process dies.
LEMMA FailNext ==
  ASSUME End \in Nat, Lookback \in Nat, PointsInv, ReconcileInv,
         Crash \/ \E j \in Jobs : PullFails(j)
  PROVE  ReconcileInv'
  <1>1. /\ UNCHANGED <<now, made, stored, pulledAt>> /\ ~running' /\ mishaps' = mishaps + 1
    BY DEF Crash, PullFails, Mishap
  <1>2. QED BY <1>1, SameDay DEF ReconcileInv

\* A record is made: its day is today.
LEMMA MakeNext ==
  ASSUME End \in Nat, Lookback \in Nat, ReconcileInv, NEW y \in Records, Make(y)
  PROVE  ReconcileInv'
  <1>1. /\ UNCHANGED <<now, stored, pulledAt, running, job, item, mishaps>>
        /\ made \in [Records -> 0..Never] /\ made' = [made EXCEPT ![y] = now]
        /\ now \in 0..End /\ mishaps \in Nat
    BY DEF Make, ReconcileInv
  <1>2. now \in Nat /\ now \in 0..Never /\ now <= now
    BY <1>1 DEF Never
  <1>3. /\ made' \in [Records -> 0..Never] /\ made'[y] = now
        /\ \A x \in Records : x # y => made'[x] = made[x]
    BY <1>1, <1>2
  <1>4. ASSUME NEW x \in Unstored'
        PROVE  \/ mishaps >= Lookback
               \/ mishaps >= (Daytimes - Day(x))'
               \/ /\ mishaps = (Daytimes - Day(x) - 1)'
                  /\ now % 2 = 1 => InReach(x)'
    <2>1. CASE x # y
      <3>1. x \in Unstored /\ Day(x)' = Day(x) /\ Daytimes' = Daytimes
        BY <1>1, <1>3, <2>1 DEF Unstored, Day, Daytimes
      <3>2. InReach(x)' <=> InReach(x)
        BY <1>1 DEF InReach, Held, OnReceipts, IngestsReceipts, IngestsNotes
      <3>3. QED BY <3>1, <3>2 DEF ReconcileInv, UnstoredInv
    <2>2. CASE x = y
      <3>1. PICK d \in Int : d = now \div 2 - (now - 1) \div 2 /\ d \in {0, 1} /\ (now % 2 = 1 => d = 0)
        BY <1>2
      <3>2. (Daytimes - Day(x))' = d /\ (Daytimes - Day(x) - 1)' = d - 1
        BY <1>1, <1>3, <2>2, <3>1 DEF Daytimes, Day
      <3>3. QED BY <1>1, <3>1, <3>2
    <2>3. QED BY <2>1, <2>2
  <1>5. UnstoredInv'
    BY <1>1, <1>4 DEF UnstoredInv
  <1>6. (\E j \in Jobs : IngestsReceipts(j) \/ IngestsNotes(j)) =>
          \E j \in Jobs : IngestsReceipts(j)' \/ IngestsNotes(j)'
    BY <1>1 DEF IngestsReceipts, IngestsNotes
  <1>7. \A x \in Records : made'[x] = Never \/ made'[x] <= now
    BY <1>2, <1>3 DEF ReconcileInv
  <1>8. QED BY <1>1, <1>3, <1>5, <1>6, <1>7 DEF ReconcileInv

\* Time passes: what was in reach of today's reconcile is not missing in the evening.
LEMMA TickNext ==
  ASSUME End \in Nat, Lookback \in Nat, ReconcileInv, Tick
  PROVE  ReconcileInv'
  <1>1. /\ UNCHANGED <<made, stored, pulledAt, running, job, item, mishaps>>
        /\ now \in 0..End /\ now < End /\ now' = now + 1 /\ mishaps \in Nat
        /\ pulledAt \in Int /\ pulledAt <= now
    BY DEF Tick, ReconcileInv
  <1>2. \A j \in Jobs : OnReceipts(j) /\ ~IngestsReceipts(j) /\ ~IngestsNotes(j) /\ job[j].step = "idle"
    BY JobsApart DEF Tick, JobAt
  <1>3. \A j \in Jobs : OnReceipts(j)' /\ ~IngestsReceipts(j)' /\ ~IngestsNotes(j)'
    BY <1>1, <1>2 DEF OnReceipts, IngestsReceipts, IngestsNotes
  <1>4. now \in Nat /\ pulledAt < now'
    BY <1>1
  <1>5. \A x \in Records : InReach(x)'
    BY <1>1, <1>2, <1>3, <1>4 DEF InReach, Jobs
  <1>6. now % 2 = 1 => pulledAt = now
    <2>1. SUFFICES ASSUME now % 2 = 1 PROVE pulledAt = now
      OBVIOUS
    <2>2. ~(pulledAt < 2 * (now \div 2) + 1)
      BY <2>1 DEF Tick, Due, StartOfToday
    <2>3. 2 * (now \div 2) + 1 = now
      BY <1>4, <2>1
    <2>4. QED BY <1>1, <1>4, <2>2, <2>3
  <1>7. ASSUME NEW x \in Unstored'
        PROVE  \/ mishaps >= Lookback
               \/ mishaps >= (Daytimes - Day(x))'
               \/ mishaps = (Daytimes - Day(x) - 1)' /\ InReach(x)'
    <2>1. x \in Unstored /\ x \in Records /\ made[x] # Never
      BY <1>1 DEF Unstored
    <2>2. Day(x)' = Day(x) /\ Day(x) \in Int /\ Daytimes \in Nat
      BY <1>1, <2>1, OnCalendar DEF Day
    <2>3. Daytimes' = Daytimes + (IF now % 2 = 1 THEN 1 ELSE 0)
      BY <1>1, <1>4 DEF Daytimes
    <2>4. mishaps >= Lookback \/ mishaps >= Daytimes - Day(x)
          \/ (mishaps = Daytimes - Day(x) - 1 /\ (now % 2 = 1 => InReach(x)))
      BY <2>1 DEF ReconcileInv, UnstoredInv
    <2>5. now % 2 = 1 => ~InReach(x)
      <3>1. now % 2 = 1 => ~(pulledAt < now)
        BY <1>1, <1>4, <1>6
      <3>2. QED BY <1>2, <3>1 DEF InReach, Jobs
    <2>6. PICK d \in Int : d = Daytimes - Day(x)
      BY <2>2
    <2>7. (Daytimes - Day(x))' = d + (IF now % 2 = 1 THEN 1 ELSE 0)
          /\ (Daytimes - Day(x) - 1)' = d + (IF now % 2 = 1 THEN 1 ELSE 0) - 1
      BY <2>2, <2>3, <2>6
    <2>8. CASE now % 2 = 1
      BY <1>1, <1>5, <2>1, <2>4, <2>5, <2>6, <2>7, <2>8
    <2>9. CASE now % 2 # 1
      BY <1>1, <1>5, <2>1, <2>4, <2>6, <2>7, <2>9
    <2>10. QED BY <2>8, <2>9
  <1>8. UnstoredInv'
    BY <1>1, <1>7 DEF UnstoredInv
  <1>9. ~running'
    BY <1>1, <1>2 DEF ReconcileInv
  <1>10. \A x \in Records : made'[x] = Never \/ made'[x] <= now'
    <2>1. ASSUME NEW x \in Records, made[x] # Never PROVE made[x] <= now'
      <3>1. made[x] \in 0..now
        BY <2>1, OnCalendar
      <3>2. QED BY <1>1, <1>4, <3>1
    <2>2. QED BY <1>1, <2>1
  <1>11. now' \in 0..End /\ pulledAt' <= now' /\ pulledAt' \in Int
    BY <1>1, <1>4
  <1>12. QED BY <1>1, <1>8, <1>9, <1>10, <1>11 DEF ReconcileInv

\* ReconcileInv holds in the initial states.
LEMMA ReconcileInit ==
  ASSUME End \in Nat, SalesPlayInit
  PROVE  ReconcileInv
  <1>1. now \in 0..End /\ mishaps \in Nat /\ pulledAt \in Int /\ pulledAt <= now /\ ~running
    BY DEF SalesPlayInit
  <1>2. Never \in 0..Never
    BY DEF Never
  <1>3. made \in [Records -> 0..Never] /\ \A x \in Records : made[x] = Never
    BY <1>2 DEF SalesPlayInit
  <1>4. QED BY <1>1, <1>3 DEF ReconcileInv, UnstoredInv, Unstored

\* Every step keeps ReconcileInv.
LEMMA ReconcileNext ==
  ASSUME End \in Nat, Lookback \in Nat, PointsInv, ReconcileInv, [SalesPlayNext]_salesplayVars
  PROVE  ReconcileInv'
  <1>1. ASSUME NEW w \in Workers, Find(w) \/ Create(w) \/ Award(w) \/ ItemFails(w) PROVE ReconcileInv'
    BY <1>1, RecordsNext
  <1>2. ASSUME NEW x \in Records, NEW h \in Handlers, Webhook(h, x) PROVE ReconcileInv'
    BY <1>2, RecordsNext DEF Workers
  <1>3. ASSUME NEW x \in Records, Make(x) PROVE ReconcileInv'
    BY <1>3, MakeNext
  <1>4. ASSUME NEW j \in Jobs, StartPull(j) \/ PullReceipts(j) \/ PullNotes(j) \/ Take(j)
        PROVE  ReconcileInv'
    BY <1>4, StartPullNext, PullReceiptsNext, PullNotesNext, TakeNext
  <1>5. ASSUME NEW j \in Jobs, ReceiptsPulled(j) \/ NotesPulled(j) \/ PullFails(j)
        PROVE  ReconcileInv'
    BY <1>5, ReceiptsPulledNext, NotesPulledNext, FailNext
  <1>6. CASE Crash
    BY <1>6, FailNext
  <1>7. CASE Tick
    BY <1>7, TickNext
  <1>8. CASE UNCHANGED salesplayVars
    <2>1. UNCHANGED <<now, made, stored, pulledAt, running, job, item, mishaps>>
      BY <1>8 DEF salesplayVars
    <2>2. (\E j \in Jobs : IngestsReceipts(j) \/ IngestsNotes(j)) =>
            \E j \in Jobs : IngestsReceipts(j)' \/ IngestsNotes(j)'
      BY <2>1 DEF IngestsReceipts, IngestsNotes
    <2>3. \A x : InReach(x) => InReach(x)'
      BY <2>1 DEF InReach, Held, OnReceipts, IngestsReceipts, IngestsNotes
    <2>4. QED BY <2>1, <2>2, <2>3, SameDay DEF ReconcileInv
  <1>9. QED BY <1>1, <1>2, <1>3, <1>4, <1>5, <1>6, <1>7, <1>8 DEF SalesPlayNext

\* A record that is missing is charged a mishap for every day of the window.
LEMMA MissingIsCharged ==
  ASSUME ReconcileInv
  PROVE  NothingMissed
  <1>. USE SalesPlayAssumption
  <1>1. SUFFICES ASSUME mishaps < Lookback, NEW x \in Records, made[x] < FromDate, x \notin stored
                 PROVE  FALSE
    BY DEF NothingMissed
  <1>2. now \in 0..End /\ mishaps \in Nat
    BY DEF ReconcileInv
  <1>3. FromDate \in Int /\ FromDate <= now
    BY <1>2 DEF FromDate
  <1>4. made[x] # Never
    BY <1>1, <1>2, <1>3 DEF Never
  <1>5. /\ Day(x) \in Int /\ Daytimes \in Nat
        /\ made[x] \in {2 * Day(x) + 1, 2 * Day(x) + 2} /\ now \in {2 * Daytimes, 2 * Daytimes + 1}
    BY <1>4, OnCalendar
  <1>6. mishaps >= Daytimes - Day(x) - 1 /\ (mishaps = Daytimes - Day(x) - 1 => now % 2 = 0 \/ InReach(x))
    BY <1>1, <1>2, <1>4, <1>5 DEF ReconcileInv, UnstoredInv, Unstored
  <1>7. (now - 1) \div 2 <= Daytimes /\ (now = 2 * Daytimes => (now - 1) \div 2 = Daytimes - 1)
        /\ (now - 1) \div 2 \in Int
    BY <1>2, <1>5
  <1>8. FromDate = 2 * ((now - 1) \div 2 - Lookback) + 1
    BY DEF FromDate
  <1>9. Day(x) < (now - 1) \div 2 - Lookback
    BY <1>1, <1>5, <1>7, <1>8
  <1>10. QED BY <1>1, <1>2, <1>5, <1>6, <1>7, <1>9

\* Where a record is missing, something has gone wrong on every day on which the reconcile could
\* have found it; so none is, if fewer nights than the window is long went wrong, however far back
\* the window reaches (reconcile, pullResource, salesplayFromDateTime).
THEOREM ReconcileFindsAll == SalesPlaySpec => []NothingMissed
  <1>. USE SalesPlayAssumption
  <1>1. ReconcileInv => NothingMissed
    BY MissingIsCharged
  <1>2. PointsInv /\ ReconcileInv /\ [SalesPlayNext]_salesplayVars => PointsInv' /\ ReconcileInv'
    BY PointsNext, ReconcileNext
  <1>3. SalesPlayInit => PointsInv /\ ReconcileInv
    BY PointsInit, ReconcileInit
  <1>4. QED BY <1>1, <1>2, <1>3, PTL DEF SalesPlaySpec

---------------------------------------------------------------------------
(***************************************************************************)
(* Proofs about SignUp, for any number of phones, requests, challenges and  *)
(* failures.                                                                *)
(*                                                                          *)
(* A pickup code is given to one member once, so what a request has read of *)
(* it stays true.  A try to assign one fails only because another member    *)
(* got a code since the request looked, and there are only so many members. *)
(***************************************************************************)
(* The requests *)

\* The fields of a request's local state, as far as the proofs need their types.
Form(t) ==
  /\ DOMAIN t = {"kind", "step", "phone", "purpose", "challenge", "candidate", "tries"}
  /\ t.step # "idle" => t.phone \in Phones
  /\ t.candidate \in Nat
  /\ t.tries \in Nat

SignUpTyped ==
  /\ code \in [Phones -> Nat]
  /\ gifts \in [Phones -> Nat]
  /\ exhausted \in BOOLEAN
  /\ DOMAIN task = Calls
  /\ \A w \in Calls : Form(task[w])

\* Request w goes from task t to task u, and no other request moves.
TaskMoves(w, u) ==
  /\ task'[w] = u
  /\ DOMAIN task' = Calls
  /\ \A v \in Calls : v # w => task'[v] = task[v]

\* What an idle request has in hand.
LEMMA IdleForm ==
  /\ Form(NoTask)
  /\ NoTask.step = "idle" /\ NoTask.tries = 0 /\ NoTask.candidate = 0
  BY DEF NoTask, Form

\* A request that ends is idle.
LEMMA FinishMoves ==
  ASSUME SignUpTyped, NEW w \in Calls, EndTask(w)
  PROVE  TaskMoves(w, NoTask)
  BY DEF SignUpTyped, EndTask, TaskMoves

\* A request that goes on keeps what it has in hand.
LEMMA GotoMoves ==
  ASSUME SignUpTyped, NEW w \in Calls, NEW s, s # "idle", task[w].step # "idle", TaskTo(w, s)
  PROVE  /\ \A v \in Calls : v # w => task'[v] = task[v]
         /\ DOMAIN task' = Calls
         /\ Form(task'[w])
         /\ task'[w].step = s /\ task'[w].phone = task[w].phone
         /\ task'[w].candidate = task[w].candidate /\ task'[w].tries = task[w].tries
  BY DEF SignUpTyped, TaskTo, Form

\* What a request may have in hand: it is doing nothing, or it begins.
LEMMA BeginMoves ==
  ASSUME SignUpTyped, NEW w \in Calls, NEW p \in Phones, VerifyOtp(w, p) \/ WalkIn(w, p) \/ OpenProfile(w, p)
  PROVE  /\ \A v \in Calls : v # w => task'[v] = task[v]
         /\ DOMAIN task' = Calls
         /\ Form(task'[w])
         /\ task'[w].step \in {"use", "create", "pickup"} /\ task'[w].tries = 0
  <1>1. CASE VerifyOtp(w, p)
    <2> DEFINE c == Last(open[p]).id
               o == Last(open[p]).purpose
    <2>1. task' = [task EXCEPT ![w] = [NoTask EXCEPT !.kind = "verify", !.step = "use", !.phone = p,
                                                   !.challenge = c, !.purpose = o]]
      BY <1>1 DEF VerifyOtp, Begin
    <2> HIDE DEF c, o
    <2>2. QED BY <2>1 DEF SignUpTyped, NoTask, Form
  <1>2. CASE WalkIn(w, p)
    BY <1>2 DEF WalkIn, Begin, SignUpTyped, NoTask, Form
  <1>3. CASE OpenProfile(w, p)
    BY <1>3 DEF OpenProfile, Begin, SignUpTyped, NoTask, Form
  <1>4. QED BY <1>1, <1>2, <1>3

\* A request that has the pickup code c is over, or goes on to the gift with c in hand.
LEMMA AnswerMoves ==
  ASSUME SignUpTyped, NEW w \in Calls, task[w].step # "idle", NEW c \in Nat, Answer(w, c)
  PROVE  /\ \A v \in Calls : v # w => task'[v] = task[v]
         /\ DOMAIN task' = Calls
         /\ Form(task'[w])
         /\ \/ task'[w] = NoTask
            \/ /\ task'[w].step = "gift" /\ task'[w].phone = task[w].phone
               /\ task'[w].candidate = c
  <1>1. CASE task[w].kind = "profile"
    <2>1. task' = [task EXCEPT ![w].step = "gift", ![w].candidate = c]
      BY <1>1 DEF Answer
    <2>2. QED BY <2>1 DEF SignUpTyped, Form
  <1>2. CASE task[w].kind # "profile"
    BY <1>2, FinishMoves, IdleForm DEF Answer, TaskMoves
  <1>3. QED BY <1>1, <1>2

---------------------------------------------------------------------------
(* Pickup codes *)

Coded == {p \in Phones : code[p] # 0}
Codes == Cardinality(Coded)
Used(c) == \E p \in Phones : code[p] = c

\* Members have codes of their own, and there is a highest code.
CodesInv ==
  /\ \A p, q \in Phones : code[p] # 0 /\ code[p] = code[q] => p = q
  /\ Phones # {} => \E q \in Phones : \A p \in Phones : code[p] <= code[q]

\* What a request knows of the codes: it has tried no more often than members have got a code,
\* and, once its candidate is taken, even less often; what it has read is the member's code.
Knows(w) ==
  LET t == task[w] IN
  /\ t.step \in {"use", "recover", "find", "create", "pickup"} => t.tries = 0
  /\ t.step = "max" => t.tries <= Codes
  /\ t.step = "assign" => /\ t.candidate # 0 /\ t.tries <= Codes
                          /\ Used(t.candidate) => t.tries + 1 <= Codes
  /\ t.step = "reread" => code[t.phone] # 0
  /\ t.step \in {"gift", "award"} => t.candidate # 0 /\ code[t.phone] = t.candidate

\* Who has tried in vain as often as it may had more members to compete with.
Enough == exhausted => MaxTries < Cardinality(Phones)

PickupInv == SignUpTyped /\ CodesInv /\ (\A w \in Calls : Knows(w)) /\ Enough

\* The codes stay as they are, or a member without code gets one that nobody has.
Assigns(p, c) ==
  /\ code[p] = 0 /\ c # 0 /\ ~Used(c)
  /\ code' = [code EXCEPT ![p] = c]
CodeStep == code' = code \/ \E p \in Phones, c \in Nat : Assigns(p, c)

\* There are no more codes than members, and fewer while a member has none.
LEMMA CodesAreFew ==
  ASSUME IsFiniteSet(Phones), SignUpTyped
  PROVE  /\ Codes \in Nat /\ Cardinality(Phones) \in Nat
         /\ \A p \in Phones : code[p] = 0 => Codes < Cardinality(Phones)
  <1>1. IsFiniteSet(Coded) /\ Codes \in Nat /\ Cardinality(Phones) \in Nat
        /\ Codes <= Cardinality(Phones) /\ (Codes = Cardinality(Phones) => Phones = Coded)
    BY FS_Subset, FS_CardinalityType DEF Coded, Codes
  <1>2. ASSUME NEW p \in Phones, code[p] = 0 PROVE Codes < Cardinality(Phones)
    <2>1. Phones # Coded
      BY <1>2 DEF Coded
    <2>2. Codes # Cardinality(Phones)
      BY <1>1, <2>1
    <2> DEFINE m == Codes
               n == Cardinality(Phones)
    <2>3. m \in Nat /\ n \in Nat /\ m <= n /\ m # n
      BY <1>1, <2>2
    <2> HIDE DEF m, n
    <2>4. m < n
      BY <2>3
    <2>5. QED BY <2>4 DEF m, n
  <1>3. QED BY <1>1, <1>2

\* A code that is assigned is the member's for good, and is one more.
LEMMA CodesGrow ==
  ASSUME IsFiniteSet(Phones), SignUpTyped, CodeStep
  PROVE  /\ code' \in [Phones -> Nat]
         /\ \A p \in Phones : code[p] # 0 => code'[p] = code[p]
         /\ \/ code' = code /\ Codes' = Codes
            \/ code' # code /\ Codes' = Codes + 1
  <1>1. CASE code' = code
    BY <1>1 DEF SignUpTyped, Codes, Coded
  <1>2. ASSUME NEW p \in Phones, NEW c \in Nat, Assigns(p, c)
        PROVE  /\ code' \in [Phones -> Nat]
               /\ \A q \in Phones : code[q] # 0 => code'[q] = code[q]
               /\ code' # code /\ Codes' = Codes + 1
    <2>1. code' \in [Phones -> Nat] /\ (\A q \in Phones : code[q] # 0 => code'[q] = code[q])
          /\ code' # code
      BY <1>2 DEF Assigns, SignUpTyped
    <2>2. Coded' = Coded \cup {p} /\ p \notin Coded
      BY <1>2 DEF Coded, Assigns, SignUpTyped
    <2>3. IsFiniteSet(Coded)
      BY FS_Subset DEF Coded
    <2>4. Cardinality(Coded \cup {p}) = Cardinality(Coded) + 1
      BY <2>2, <2>3, FS_AddElement
    <2>5. QED BY <2>1, <2>2, <2>4 DEF Codes
  <1>3. QED BY <1>1, <1>2 DEF CodeStep

\* Codes stay the members' own.
LEMMA CodesKept ==
  ASSUME SignUpTyped, CodesInv, CodeStep
  PROVE  CodesInv'
  <1>1. CASE code' = code
    BY <1>1 DEF CodesInv
  <1>2. ASSUME NEW p \in Phones, NEW c \in Nat, Assigns(p, c) PROVE CodesInv'
    <2>1. \A q \in Phones : code'[q] = IF q = p THEN c ELSE code[q]
      BY <1>2 DEF Assigns, SignUpTyped
    <2>2. \A q, r \in Phones : code'[q] # 0 /\ code'[q] = code'[r] => q = r
      BY <1>2, <2>1 DEF CodesInv, Assigns, Used
    <2>3. PICK m \in Phones : \A q \in Phones : code[q] <= code[m]
      BY DEF CodesInv
    <2>4. code \in [Phones -> Nat] /\ code[p] = 0
      BY <1>2 DEF SignUpTyped, Assigns
    <2>5. CASE c <= code[m]
      <3>1. m # p
        BY <1>2, <2>4, <2>5 DEF Assigns
      <3>2. \A q \in Phones : code'[q] <= code'[m]
        BY <2>1, <2>3, <2>5, <3>1
      <3>3. QED BY <2>2, <3>2 DEF CodesInv
    <2>6. CASE ~(c <= code[m])
      <3>1. \A q \in Phones : code'[q] <= code'[p]
        BY <2>1, <2>3, <2>4, <2>6
      <3>2. QED BY <2>2, <3>1 DEF CodesInv
    <2>7. QED BY <2>5, <2>6
  <1>3. QED BY <1>1, <1>2 DEF CodeStep

\* What a request knows is not spoilt by what others do.
LEMMA OthersKnow ==
  ASSUME IsFiniteSet(Phones), SignUpTyped, CodeStep, NEW v \in Calls, Knows(v), task'[v] = task[v]
  PROVE  Knows(v)'
  <1> DEFINE n == Codes
             m == Codes'
             t == task[v]
  <1>1. n \in Nat /\ (m = n \/ m = n + 1) /\ (code' # code => m = n + 1)
        /\ \A p \in Phones : code[p] # 0 => code'[p] = code[p]
    BY CodesAreFew, CodesGrow
  <1>2. t.tries \in Nat /\ (t.step # "idle" => t.phone \in Phones) /\ task'[v] = t
    BY DEF SignUpTyped, Form
  <1>3. CASE t.step \in {"use", "recover", "find", "create", "pickup"}
    BY <1>2, <1>3 DEF Knows
  <1>4. CASE t.step = "max"
    <2>1. t.tries <= n
      BY <1>4 DEF Knows
    <2>2. t.tries <= m
      <3> HIDE DEF n, m, t
      <3>1. QED BY <1>1, <1>2, <2>1
    <2>3. QED BY <1>2, <1>4, <2>2 DEF Knows
  <1>5. CASE t.step = "assign"
    <2>1. t.candidate # 0 /\ t.tries <= n /\ (Used(t.candidate) => t.tries + 1 <= n)
      BY <1>5 DEF Knows
    <2>2. Used(t.candidate)' => Used(t.candidate) \/ code' # code
      BY <1>2 DEF Used
    <2>3. t.tries <= m /\ (Used(t.candidate)' => t.tries + 1 <= m)
      <3> DEFINE U == Used(t.candidate)
                 V == Used(t.candidate)'
                 W == code' # code
      <3>1. U => t.tries + 1 <= n
        BY <2>1
      <3>2. V => U \/ W
        BY <2>2
      <3>3. W => m = n + 1
        BY <1>1
      <3> HIDE DEF n, m, t, U, V, W
      <3>4. t.tries <= m /\ (V => t.tries + 1 <= m)
        BY <1>1, <1>2, <2>1, <3>1, <3>2, <3>3
      <3>5. QED BY <3>4 DEF V
    <2>4. QED BY <1>2, <1>5, <2>1, <2>3 DEF Knows
  <1>6. CASE t.step \in {"reread", "gift", "award"}
    BY <1>1, <1>2, <1>6 DEF Knows
  <1>7. CASE t.step \notin {"use", "recover", "find", "create", "pickup", "max", "assign", "reread",
                            "gift", "award"}
    BY <1>2, <1>7 DEF Knows
  <1>8. QED BY <1>3, <1>4, <1>5, <1>6, <1>7

\* An idle request knows nothing, and neither does one at the beginning.
LEMMA FreshKnows ==
  ASSUME NEW w \in Calls,
         \/ task'[w] = NoTask
         \/ task'[w].step \in {"use", "recover", "find", "create", "pickup"} /\ task'[w].tries = 0
  PROVE  Knows(w)'
  BY IdleForm DEF Knows

\* What a step of request w has to show: what w knows is so, and nobody lost a code over it.
Works(w) ==
  /\ \A v \in Calls : v # w => task'[v] = task[v]
  /\ DOMAIN task' = Calls
  /\ Form(task'[w])
  /\ CodeStep
  /\ Knows(w)'
  /\ exhausted' = exhausted \/ (exhausted' = TRUE /\ MaxTries < Cardinality(Phones))

\* The highest code is the highest, so the candidate is nobody's.
LEMMA CandidateIsFree ==
  ASSUME SignUpTyped, CodesInv, Phones # {}, NEW t
  PROVE  NextCandidate(t) \in Nat \ {0} /\ ~Used(NextCandidate(t))
  <1> DEFINE S == Range(code)
             m == Max(S)
  <1>1. PICK q \in Phones : \A p \in Phones : code[p] <= code[q]
    BY DEF CodesInv
  <1>2. S = {code[p] : p \in Phones}
    BY DEF SignUpTyped, Range
  <1>3. \E x \in S : \A y \in S : x >= y
    BY <1>1, <1>2 DEF SignUpTyped
  <1>4. m \in S /\ \A y \in S : m >= y
    BY <1>3 DEF Max
  <1>5. m \in Nat /\ \A p \in Phones : code[p] <= m
    BY <1>2, <1>4 DEF SignUpTyped
  <1>6. NextCandidate(t) = m + 1
    BY DEF NextCandidate
  <1> HIDE DEF m, S
  <1>7. \A p \in Phones : code[p] # m + 1
    BY <1>5 DEF SignUpTyped
  <1>8. QED BY <1>5, <1>6, <1>7 DEF Used

\* The actions that leave the codes alone.
LEMMA PlainWorks ==
  ASSUME SignUpTyped, NEW w \in Calls,
         \/ UseChallenge(w) \/ Recover(w) \/ FindMember(w) \/ CreateMember(w) \/ FindGift(w)
         \/ AwardGift(w) \/ Fault(w)
         \/ \E p \in Phones : VerifyOtp(w, p) \/ WalkIn(w, p) \/ OpenProfile(w, p),
         Knows(w)
  PROVE  Works(w)
  <1>1. code' = code /\ exhausted' = exhausted
    BY DEF UseChallenge, Recover, FindMember, CreateMember, FindGift, AwardGift, Fault,
           VerifyOtp, WalkIn, OpenProfile, member
  <1>2. ASSUME TaskMoves(w, NoTask) PROVE Works(w)
    BY <1>1, <1>2, IdleForm, FreshKnows DEF TaskMoves, Works, CodeStep
  <1>3. CASE EndTask(w)
    BY <1>2, <1>3, FinishMoves
  <1>4. ASSUME NEW s \in {"pickup", "create"}, task[w].step \in {"find", "create"}, TaskTo(w, s)
        PROVE  Works(w)
    <2>1. task[w].tries = 0
      BY <1>4 DEF Knows
    <2>2. task'[w].step = s /\ task'[w].tries = 0
      BY <1>4, <2>1, GotoMoves
    <2>3. Knows(w)'
      BY <1>4, <2>2, FreshKnows
    <2>4. QED BY <1>1, <1>4, <2>3, GotoMoves DEF Works, CodeStep
  <1>5. CASE UseChallenge(w)
    <2>1. task' = [task EXCEPT ![w].challenge = NoChallenge, ![w].purpose = "REGISTER",
                     ![w].step = IF task[w].purpose = "RECOVERY" THEN "recover" ELSE "find"]
      BY <1>5 DEF UseChallenge
    <2>2. task[w].tries = 0 /\ task[w].step = "use"
      BY <1>5 DEF UseChallenge, TaskAt, Knows
    <2>3. /\ \A v \in Calls : v # w => task'[v] = task[v]
          /\ DOMAIN task' = Calls
          /\ Form(task'[w]) /\ task'[w].step \in {"recover", "find"} /\ task'[w].tries = 0
      BY <2>1, <2>2 DEF SignUpTyped, Form
    <2>4. Knows(w)'
      BY <2>3, FreshKnows
    <2>5. QED BY <1>1, <2>3, <2>4 DEF Works, CodeStep
  <1>6. CASE FindMember(w)
    BY <1>3, <1>4, <1>6 DEF FindMember, TaskAt
  <1>7. CASE CreateMember(w)
    BY <1>3, <1>4, <1>7 DEF CreateMember, TaskAt
  <1>8. CASE FindGift(w)
    <2>1. CASE TaskTo(w, "award")
      <3>1. task[w].step = "gift" /\ task[w].step # "idle"
        BY <1>8 DEF FindGift, TaskAt
      <3>2. /\ \A v \in Calls : v # w => task'[v] = task[v]
            /\ DOMAIN task' = Calls
            /\ Form(task'[w])
            /\ task'[w].step = "award" /\ task'[w].phone = task[w].phone
            /\ task'[w].candidate = task[w].candidate
        BY <2>1, <3>1, GotoMoves
      <3>3. Knows(w)'
        BY <1>1, <3>1, <3>2 DEF Knows
      <3>4. QED BY <1>1, <3>2, <3>3 DEF Works, CodeStep
    <2>2. QED BY <1>3, <1>8, <2>1 DEF FindGift
  <1>9. CASE Recover(w) \/ AwardGift(w) \/ Fault(w)
    BY <1>3, <1>9 DEF Recover, AwardGift, Fault
  <1>10. ASSUME NEW p \in Phones, VerifyOtp(w, p) \/ WalkIn(w, p) \/ OpenProfile(w, p)
         PROVE  Works(w)
    BY <1>1, <1>10, BeginMoves, FreshKnows DEF Works, CodeStep
  <1>11. QED BY <1>5, <1>6, <1>7, <1>8, <1>9, <1>10

\* An answer with the member's code.
LEMMA AnswerWorks ==
  ASSUME SignUpTyped, NEW w \in Calls, task[w].step # "idle", NEW c \in Nat, Answer(w, c), CodeStep,
         c # 0, code'[task[w].phone] = c, exhausted' = exhausted
  PROVE  Works(w)
  <1>1. /\ \A v \in Calls : v # w => task'[v] = task[v]
        /\ DOMAIN task' = Calls
        /\ Form(task'[w])
        /\ \/ task'[w] = NoTask
           \/ /\ task'[w].step = "gift" /\ task'[w].phone = task[w].phone
              /\ task'[w].candidate = c
    BY AnswerMoves
  <1>2. CASE task'[w] = NoTask
    BY <1>1, <1>2, FreshKnows DEF Works
  <1>3. CASE task'[w] # NoTask
    <2>1. Knows(w)'
      BY <1>1, <1>3 DEF Knows
    <2>2. QED BY <1>1, <2>1 DEF Works
  <1>4. QED BY <1>2, <1>3

\* The actions of ensureKitchenPickupCode.
LEMMA PickupWorks ==
  ASSUME IsFiniteSet(Phones), MaxTries \in Nat, SignUpTyped, CodesInv, NEW w \in Calls, Knows(w),
         FindCode(w) \/ ReadMax(w) \/ AssignCode(w) \/ RereadCode(w)
  PROVE  Works(w)
  <1> DEFINE p == task[w].phone
             c == task[w].candidate
             k == task[w].tries
             n == Codes
  <1>1. task[w].step # "idle" /\ p \in Phones /\ c \in Nat /\ k \in Nat /\ n \in Nat
        /\ code[p] \in Nat
    BY CodesAreFew DEF SignUpTyped, Form, FindCode, ReadMax, AssignCode, RereadCode, TaskAt
  <1>2. ASSUME code' = code PROVE CodeStep /\ Codes' = Codes
    BY <1>2 DEF CodeStep, Codes, Coded
  <1>3. CASE FindCode(w)
    <2>1. code' = code /\ exhausted' = exhausted /\ task[w].step = "pickup"
      BY <1>3 DEF FindCode, member, TaskAt
    <2>2. CASE code[p] # 0 /\ Answer(w, code[p])
      BY <1>1, <1>2, <2>1, <2>2, AnswerWorks
    <2>3. CASE TaskTo(w, "max")
      <3>1. k = 0
        BY <2>1 DEF Knows
      <3>2. /\ \A v \in Calls : v # w => task'[v] = task[v]
            /\ DOMAIN task' = Calls
            /\ Form(task'[w]) /\ task'[w].step = "max" /\ task'[w].tries = 0
        BY <1>1, <2>3, <3>1, GotoMoves
      <3>3. 0 <= Codes' /\ CodeStep
        BY <1>1, <1>2, <2>1
      <3>4. Knows(w)'
        BY <3>2, <3>3 DEF Knows
      <3>5. QED BY <2>1, <3>2, <3>3, <3>4 DEF Works
    <2>4. QED BY <1>3, <2>2, <2>3 DEF FindCode
  <1>4. CASE ReadMax(w)
    <2>0. PICK d \in Nat \ {0} : d = NextCandidate(task[w]) /\ ~Used(d)
      BY <1>1, CandidateIsFree
    <2>1. code' = code /\ exhausted' = exhausted /\ task[w].step = "max"
          /\ task' = [task EXCEPT ![w].step = "assign", ![w].candidate = d]
      BY <1>4, <2>0 DEF ReadMax, member, TaskAt
    <2>2. d \in Nat /\ d # 0 /\ ~Used(d)
      BY <2>0
    <2>3. /\ \A v \in Calls : v # w => task'[v] = task[v]
          /\ DOMAIN task' = Calls
          /\ Form(task'[w]) /\ task'[w].step = "assign" /\ task'[w].tries = k
          /\ task'[w].candidate = d
      BY <1>1, <2>1, <2>2 DEF SignUpTyped, Form
    <2>4. ~Used(d)' /\ Codes' = Codes /\ CodeStep
      BY <1>2, <2>1, <2>2 DEF Used
    <2>5. k <= n
      BY <2>1 DEF Knows
    <2>6. Knows(w)'
      BY <2>2, <2>3, <2>4, <2>5 DEF Knows
    <2>7. QED BY <2>1, <2>3, <2>4, <2>6 DEF Works
  <1>5. CASE RereadCode(w)
    <2>1. code' = code /\ exhausted' = exhausted /\ Answer(w, code[p]) /\ code[p] # 0
      BY <1>5 DEF RereadCode, member, TaskAt, Knows
    <2>2. QED BY <1>1, <1>2, <2>1, AnswerWorks
  <1>6. CASE AssignCode(w)
    <2> DEFINE taken == \E q \in Phones \ {p} : code[q] = c
    <2>1. task[w].step = "assign" /\ c # 0 /\ k <= n /\ (Used(c) => k + 1 <= n)
      BY <1>6 DEF AssignCode, TaskAt, Knows
    <2>2. CASE /\ code[p] = 0 /\ ~taken /\ code' = [code EXCEPT ![p] = c]
               /\ Answer(w, c) /\ exhausted' = exhausted
      <3>1. ~Used(c)
        BY <2>1, <2>2 DEF Used
      <3>2. CodeStep /\ code'[p] = c
        BY <1>1, <2>1, <2>2, <3>1 DEF CodeStep, Assigns, SignUpTyped
      <3>3. QED BY <1>1, <2>1, <2>2, <3>2, AnswerWorks
    <2>3. CASE /\ code[p] # 0 /\ code' = code /\ exhausted' = exhausted
               /\ task' = [task EXCEPT ![w].step = "reread", ![w].candidate = 0]
      <3>1. /\ \A v \in Calls : v # w => task'[v] = task[v]
            /\ DOMAIN task' = Calls
            /\ Form(task'[w]) /\ task'[w].step = "reread" /\ task'[w].phone = p
        BY <1>1, <2>3 DEF SignUpTyped, Form
      <3>2. Knows(w)'
        BY <2>3, <3>1 DEF Knows
      <3>3. QED BY <1>2, <2>3, <3>1, <3>2 DEF Works
    <2>4. CASE code[p] = 0 /\ taken /\ code' = code
      <3>1. k + 1 <= n /\ n < Cardinality(Phones) /\ Cardinality(Phones) \in Nat
        <4>1. Used(c)
          BY <2>4 DEF Used
        <4>2. QED BY <1>1, <2>1, <2>4, <4>1, CodesAreFew
      <3>2. CASE /\ exhausted' = exhausted
                 /\ task' = [task EXCEPT ![w].step = "max", ![w].tries = @ + 1]
        <4>1. /\ \A v \in Calls : v # w => task'[v] = task[v]
              /\ DOMAIN task' = Calls
              /\ Form(task'[w]) /\ task'[w].step = "max" /\ task'[w].tries = k + 1
          BY <1>1, <3>2 DEF SignUpTyped, Form
        <4>2. Knows(w)'
          BY <1>2, <2>4, <3>1, <4>1 DEF Knows
        <4>3. QED BY <1>2, <2>4, <3>2, <4>1, <4>2 DEF Works
      <3>3. CASE k + 1 = MaxTries /\ EndTask(w) /\ exhausted' = TRUE
        <4> DEFINE z == Cardinality(Phones)
        <4>1. MaxTries < z
          <5>1. k \in Nat /\ n \in Nat /\ z \in Nat /\ k + 1 <= n /\ n < z /\ k + 1 = MaxTries
            BY <1>1, <3>1, <3>3
          <5> HIDE DEF z, k, n
          <5>2. QED BY <5>1
        <4>2. TaskMoves(w, NoTask)
          BY <3>3, FinishMoves
        <4>3. Knows(w)'
          BY <4>2, FreshKnows DEF TaskMoves
        <4>4. QED BY <1>2, <2>4, <3>3, <4>1, <4>2, <4>3, IdleForm DEF Works, TaskMoves
      <3>4. QED BY <1>6, <2>4, <3>2, <3>3 DEF AssignCode, Unassigned
    <2>5. QED BY <1>6, <2>2, <2>3, <2>4 DEF AssignCode, Unassigned
  <1>7. QED BY <1>3, <1>4, <1>5, <1>6

\* A step of a request keeps the types if it keeps the type of gifts.
LEMMA TypedKept ==
  ASSUME IsFiniteSet(Phones), SignUpTyped, NEW w \in Calls, Works(w), gifts' \in [Phones -> Nat]
  PROVE  SignUpTyped'
  BY CodesGrow DEF SignUpTyped, Works

---------------------------------------------------------------------------
\* Nobody has a code in the initial states.
LEMMA PickupInit ==
  ASSUME IsFiniteSet(Phones)
  PROVE  SignUpInit => PickupInv
  <1> SUFFICES ASSUME SignUpInit PROVE PickupInv
    OBVIOUS
  <1>1. SignUpTyped
    BY IdleForm DEF SignUpInit, SignUpTyped
  <1>2. CodesInv
    BY DEF SignUpInit, CodesInv
  <1>3. \A w \in Calls : Knows(w)
    BY IdleForm DEF SignUpInit, Knows
  <1>4. Enough
    BY DEF SignUpInit, Enough
  <1>5. QED BY <1>1, <1>2, <1>3, <1>4 DEF PickupInv

\* Every step keeps the type of gifts.
LEMMA GiftsTyped ==
  ASSUME SignUpTyped, [SignUpNext]_signUpVars
  PROVE  gifts' \in [Phones -> Nat]
  <1>1. ASSUME NEW w \in Calls, AwardGift(w) PROVE gifts' \in [Phones -> Nat]
    BY <1>1 DEF AwardGift, SignUpTyped
  <1>2. CASE gifts' = gifts
    BY <1>2 DEF SignUpTyped
  <1>3. QED BY <1>1, <1>2
        DEF SignUpNext, Step, signUpVars, VerifyOtp, WalkIn, OpenProfile, UseChallenge, Recover, FindMember,
            CreateMember, FindCode, ReadMax, AssignCode, RereadCode, FindGift, Fault, RequestOtp,
            Expire, SetPin

\* Every step keeps PickupInv.
LEMMA PickupKept ==
  ASSUME IsFiniteSet(Phones), MaxTries \in Nat
  PROVE  PickupInv /\ [SignUpNext]_signUpVars => PickupInv'
  <1> SUFFICES ASSUME PickupInv, [SignUpNext]_signUpVars PROVE PickupInv'
    OBVIOUS
  <1> SignUpTyped /\ CodesInv /\ (\A w \in Calls : Knows(w)) /\ Enough
    BY DEF PickupInv
  <1>1. ASSUME NEW w \in Calls, Works(w) PROVE PickupInv'
    <2>1. SignUpTyped'
      BY <1>1, TypedKept, GiftsTyped
    <2>2. CodesInv'
      BY <1>1, CodesKept DEF Works
    <2>3. \A v \in Calls : Knows(v)'
      BY <1>1, OthersKnow DEF Works
    <2>4. Enough'
      BY <1>1 DEF Works, Enough
    <2>5. QED BY <2>1, <2>2, <2>3, <2>4 DEF PickupInv
  <1>2. ASSUME UNCHANGED <<code, task, exhausted>> PROVE PickupInv'
    <2>1. SignUpTyped'
      BY <1>2, GiftsTyped DEF SignUpTyped
    <2>2. CodesInv' /\ Enough'
      BY <1>2 DEF CodesInv, Enough
    <2>3. \A v \in Calls : Knows(v)'
      BY <1>2 DEF Knows, Codes, Coded, Used
    <2>4. QED BY <2>1, <2>2, <2>3 DEF PickupInv
  <1>3. ASSUME NEW p \in Phones, RequestOtp(p) \/ Expire(p) \/ SetPin(p)
        PROVE  UNCHANGED <<code, task, exhausted>>
    BY <1>3 DEF RequestOtp, Expire, SetPin, member
  <1>4. CASE UNCHANGED signUpVars
    BY <1>2, <1>4 DEF signUpVars, member
  <1>5. QED BY <1>1, <1>2, <1>3, <1>4, PlainWorks, PickupWorks DEF SignUpNext, Step

\* The inductive invariant of ensureKitchenPickupCode: what a request has read of its member's
\* code stays true, and its failed tries are paid for by codes of other members.
THEOREM PickupInvariant == SignUpSpec => []PickupInv
  <1>. USE SignUpAssumption
  <1>1. QED BY PickupInit, PickupKept, PTL DEF SignUpSpec

\* What requests know of the codes is true, and the codes are each one's own.
LEMMA CodesSettle ==
  ASSUME PickupInv
  PROVE  PickupCodeSettles
  <1>. USE SignUpAssumption
  <1>1. ASSUME NEW w \in Calls, task[w].step \in {"gift", "award"}, NEW p \in Phones
        PROVE  code[p] = task[w].candidate <=> p = task[w].phone
    <2>1. task[w].phone \in Phones /\ task[w].candidate # 0
          /\ code[task[w].phone] = task[w].candidate
      BY <1>1 DEF PickupInv, SignUpTyped, Form, Knows
    <2>2. QED BY <2>1 DEF PickupInv, CodesInv
  <1>2. Cardinality(Phones) <= MaxTries => ~exhausted
    <2> DEFINE z == Cardinality(Phones)
    <2>1. z \in Nat /\ (exhausted => MaxTries < z)
      BY FS_CardinalityType DEF PickupInv, Enough
    <2> HIDE DEF z
    <2>2. exhausted => ~(z <= MaxTries)
      BY <2>1
    <2>3. QED BY <2>2 DEF z
  <1>3. QED BY <1>1, <1>2 DEF PickupCodeSettles

\* The code that a request answers with is its member's and nobody else's, and the
\* retries of ensureKitchenPickupCode suffice for as many members as there are tries.
THEOREM PickupCodesSettle == SignUpSpec => []PickupCodeSettles
  <1>. USE SignUpAssumption
  <1>1. PickupInv => PickupCodeSettles
    BY CodesSettle
  <1>2. QED BY <1>1, PickupInvariant, PTL

---------------------------------------------------------------------------
(* The types of the mailer *)

\* What MailerTyped leaves out: the bounds, and what no step of a dispatcher disturbs.
MailerBounds ==
  /\ due \in [Campaigns -> BOOLEAN] /\ blank \subseteq Members
  /\ \A c \in Campaigns, m \in Members : mails[c][m] \in 0..MaxMails
  /\ calls \in 0..MaxCalls /\ mishaps \in 0..MaxMishaps

\* Together they are the types.
LEMMA MailerFits ==
  ASSUME MailerInv, MailerBounds
  PROVE  MailerTypes
  <1>1. mails \in [Campaigns -> [Members -> 0..MaxMails]]
    <2>1. ASSUME NEW c \in Campaigns PROVE mails[c] \in [Members -> 0..MaxMails]
      BY <2>1 DEF MailerInv, MailerTyped, MailerBounds
    <2>2. QED BY <2>1 DEF MailerInv, MailerTyped
  <1>2. QED BY <1>1 DEF MailerInv, MailerTyped, MailerBounds, MailerTypes

LEMMA MailerBoundsBegin ==
  ASSUME MailerInit
  PROVE  MailerBounds
  BY MailerAssumption, MishapsAssumption DEF MailerInit, MailerBounds

\* A mail is sent, a request begins, a dispatcher stops, a time is set or comes: no step goes
\* beyond a bound.
LEMMA MailerBoundsKept ==
  ASSUME MailerInv, MailerBounds, [MailerNext]_mailerVars
  PROVE  MailerBounds'
  <1>. USE MailerAssumption, MishapsAssumption
  <1>1. ASSUME UNCHANGED <<blank, mails, calls, mishaps>>, due' \in [Campaigns -> BOOLEAN]
        PROVE  MailerBounds'
    BY <1>1 DEF MailerBounds
  <1>2. ASSUME NEW i \in Instances, Send(i) PROVE MailerBounds'
    <2>1. UNCHANGED <<due, blank, calls, mishaps>>
      BY <1>2 DEF Send, rows, admin
    <2>2. CASE mails' = mails
      BY <1>1, <2>1, <2>2 DEF MailerBounds
    <2>3. ASSUME NEW d \in Campaigns, NEW n \in Members, mails[d][n] < MaxMails,
                 mails' = [mails EXCEPT ![d][n] = @ + 1]
          PROVE  MailerBounds'
      <3>1. mails \in [Campaigns -> [Members -> Nat]]
        BY DEF MailerInv, MailerTyped
      <3>2. ASSUME NEW c \in Campaigns, NEW m \in Members PROVE mails'[c][m] \in 0..MaxMails
        <4>1. mails'[c][m] = IF c = d /\ m = n THEN mails[c][m] + 1 ELSE mails[c][m]
          BY <2>3, <3>1
        <4>2. mails[c][m] \in 0..MaxMails
          BY DEF MailerBounds
        <4>3. QED BY <2>3, <4>1, <4>2
      <3>3. QED BY <2>1, <3>2 DEF MailerBounds
    <2>4. Serving(i) /\ Working(i)
      BY <1>2 DEF Send, RunAt, Serving, Working
    <2>5. run[i].at \in Campaigns /\ run[i].to \in Members
      BY <2>4, AtRecipient DEF MailerInv, Engaged
    <2>6. QED BY <1>2, <2>2, <2>3, <2>5 DEF Send
  <1>3. ASSUME NEW i \in Instances, Stop(i) PROVE MailerBounds'
    <2>1. UNCHANGED <<due, blank, mails, calls>> /\ mishaps < MaxMishaps /\ mishaps' = mishaps + 1
      BY <1>3 DEF Stop, Mishap, rows, memberRows, admin
    <2>2. QED BY <2>1 DEF MailerBounds
  <1>4. ASSUME NEW r \in Requests, NEW op \in Operations, NEW c \in Campaigns, AdminRead(r, op, c)
        PROVE  MailerBounds'
    <2>1. UNCHANGED <<due, blank, mails, mishaps>> /\ calls < MaxCalls /\ calls' = calls + 1
      BY <1>4 DEF AdminRead, rows, memberRows
    <2>2. QED BY <2>1 DEF MailerBounds
  <1>5. ASSUME NEW r \in Requests, EditWrite(r) \/ ScheduleWrite(r) \/ CancelWrite(r) \/ DeleteWrite(r)
        PROVE  MailerBounds'
    <2>1. UNCHANGED <<blank, mails, calls, mishaps>>
      BY <1>5 DEF EditWrite, ScheduleWrite, CancelWrite, DeleteWrite, Writes
    <2>2. due' \in [Campaigns -> BOOLEAN]
      BY <1>5 DEF EditWrite, ScheduleWrite, CancelWrite, DeleteWrite, MailerBounds
    <2>3. QED BY <1>1, <2>1, <2>2
  <1>6. ASSUME NEW c \in Campaigns, TimeComes(c) PROVE MailerBounds'
    BY <1>1, <1>6 DEF TimeComes, MailerBounds, memberRows, admin
  <1>7. CASE UNCHANGED mailerVars
    BY <1>1, <1>7 DEF mailerVars, MailerBounds, rows, memberRows, admin
  <1>8. ASSUME NEW i \in Instances, Dispatch(i), ~Send(i) PROVE MailerBounds'
    <2>1. UNCHANGED <<due, blank, mails, calls, mishaps>>
      BY <1>8 DEF Dispatch, FindDue, Claim, Start, Refuse, ListRecipients, CountPrior, FetchBatch,
              NextRecipient, FindVoucher, IssueVoucher, Mark, Count, Finish, rows, memberRows, admin
    <2>2. QED BY <1>1, <2>1 DEF MailerBounds
  <1>9. QED BY <1>2, <1>3, <1>4, <1>5, <1>6, <1>7, <1>8 DEF MailerNext

\* Campaigns, recipients and dispatchers keep their types, and the bounds bound them.
THEOREM MailerTypesAlways == MailerSpec => []MailerTypes
  <1>1. MailerInit => MailerInv /\ MailerBounds
    BY MailerBegins, MailerBoundsBegin
  <1>2. MailerInv /\ MailerBounds /\ [MailerNext]_mailerVars => MailerInv' /\ MailerBounds'
    BY MailerKept, MailerBoundsKept
  <1>3. MailerInv /\ MailerBounds => MailerTypes
    BY MailerFits
  <1>4. QED BY <1>1, <1>2, <1>3, PTL DEF MailerSpec

---------------------------------------------------------------------------
(* The types of the receipts *)

ReceiptBounds ==
  /\ online \subseteq Receipts /\ stored \subseteq Records /\ lost \subseteq Receipts
  /\ pulledAt >= -1 /\ running \in BOOLEAN /\ mishaps \in 0..MaxMishaps

\* What is about to be awarded is a receipt (AwardOwned), so the types are met.
LEMMA ReceiptsFit ==
  ASSUME PointsInv, ReconcileInv, ReceiptBounds
  PROVE  SalesPlayTypes
  <1>1. ASSUME NEW w \in Workers
        PROVE  item[w] \in [at : Records, step : {"find", "create"}]
                           \cup [at : Receipts, step : {"award"}] \cup {Nothing}
    <2>1. item[w] \in ItemState
      BY DEF PointsInv
    <2>2. item[w].step = "award" => item[w].at \in Receipts
      BY DEF PointsInv, AwardOwned, ItemAt
    <2>3. QED BY <2>1, <2>2 DEF ItemState
  <1>2. item \in [Workers -> [at : Records, step : {"find", "create"}]
                             \cup [at : Receipts, step : {"award"}] \cup {Nothing}]
    BY <1>1 DEF PointsInv
  <1>3. pulledAt \in -1..End
    BY SalesPlayAssumption DEF ReconcileInv, ReceiptBounds
  <1>4. points \in [Receipts -> Nat]
    BY DEF PointsInv
  <1>5. QED BY <1>2, <1>3, <1>4 DEF PointsInv, ReconcileInv, ReceiptBounds, SalesPlayTypes

LEMMA ReceiptBoundsBegin ==
  ASSUME SalesPlayInit
  PROVE  ReceiptBounds
  <1>1. online \subseteq Receipts /\ stored = {} /\ lost = {} /\ pulledAt = -1 /\ running = FALSE /\ mishaps = 0
    BY DEF SalesPlayInit
  <1>2. 0 \in 0..MaxMishaps /\ -1 >= -1
    BY MishapsAssumption
  <1>3. QED BY <1>1, <1>2 DEF ReceiptBounds

LEMMA ReceiptBoundsKept ==
  ASSUME PointsInv, ReconcileInv, ReceiptBounds, [SalesPlayNext]_salesplayVars
  PROVE  ReceiptBounds'
  <1>. USE MishapsAssumption, SalesPlayAssumption
  <1>1. mishaps' = mishaps \/ Mishap => mishaps' \in 0..MaxMishaps
    BY DEF Mishap, ReceiptBounds
  <1>2. ASSUME NEW w \in Workers, Find(w) \/ Create(w) \/ Award(w) \/ ItemFails(w) PROVE ReceiptBounds'
    <2>1. item[w] \in ItemState /\ (ItemAt(w, "award") => item[w].at \in Receipts)
      BY DEF PointsInv, AwardOwned
    <2>2. Unawarded({w}) \subseteq Receipts
      BY <2>1 DEF Unawarded
    <2>3. ItemAt(w, "create") => item[w].at \in Records
      BY <2>1 DEF ItemAt, ItemState, Nothing
    <2>4. QED BY <1>1, <1>2, <2>2, <2>3 DEF Find, Create, Award, ItemFails, ReceiptBounds
  <1>3. ASSUME NEW x \in Records, Make(x) \/ \E h \in Handlers : Webhook(h, x) PROVE ReceiptBounds'
    BY <1>1, <1>3 DEF Make, Webhook, ReceiptBounds
  <1>4. ASSUME NEW j \in Jobs,
               \/ StartPull(j) \/ PullReceipts(j) \/ PullNotes(j) \/ Take(j)
               \/ ReceiptsPulled(j) \/ NotesPulled(j) \/ PullFails(j)
        PROVE  ReceiptBounds'
    <2>1. UNCHANGED <<online, stored, lost>> /\ (mishaps' = mishaps \/ Mishap)
      BY <1>4 DEF StartPull, PullReceipts, PullNotes, Take, ReceiptsPulled, NotesPulled, PullFails, Pull
    <2>2. running' \in BOOLEAN
      BY <1>4 DEF StartPull, PullReceipts, PullNotes, Take, ReceiptsPulled, NotesPulled, PullFails, Pull,
                  ReceiptBounds
    <2>3. pulledAt' \in {pulledAt, now}
      BY <1>4 DEF StartPull, PullReceipts, PullNotes, Take, ReceiptsPulled, NotesPulled, PullFails
    <2>4. pulledAt' >= -1
      BY <2>3 DEF ReceiptBounds, ReconcileInv
    <2>5. QED BY <1>1, <2>1, <2>2, <2>4 DEF ReceiptBounds
  <1>5. CASE Crash
    <2>1. Unawarded(Workers) \subseteq Receipts
      BY DEF PointsInv, AwardOwned, Unawarded
    <2>2. QED BY <1>1, <1>5, <2>1 DEF Crash, ReceiptBounds
  <1>6. CASE Tick
    BY <1>1, <1>6 DEF Tick, ReceiptBounds
  <1>7. CASE UNCHANGED salesplayVars
    BY <1>1, <1>7 DEF salesplayVars, ReceiptBounds
  <1>8. QED BY <1>2, <1>3, <1>4, <1>5, <1>6, <1>7 DEF SalesPlayNext

\* Receipts, pulls and webhooks keep their types; what a request awards points for is a receipt.
THEOREM SalesPlayTypesAlways == SalesPlaySpec => []SalesPlayTypes
  <1>. USE SalesPlayAssumption
  <1>1. SalesPlayInit => PointsInv /\ ReconcileInv /\ ReceiptBounds
    BY PointsInit, ReconcileInit, ReceiptBoundsBegin
  <1>2. PointsInv /\ ReconcileInv /\ ReceiptBounds /\ [SalesPlayNext]_salesplayVars
          => PointsInv' /\ ReconcileInv' /\ ReceiptBounds'
    BY PointsNext, ReconcileNext, ReceiptBoundsKept
  <1>3. PointsInv /\ ReconcileInv /\ ReceiptBounds => SalesPlayTypes
    BY ReceiptsFit
  <1>4. QED BY <1>1, <1>2, <1>3, PTL DEF SalesPlaySpec

---------------------------------------------------------------------------
(* The types of the sign-ups *)

\* A PIN and a token that sets one belong to members with an address, never both to one.
Rights ==
  /\ members \subseteq Phones /\ email \subseteq members
  /\ pin \subseteq email /\ tokens \subseteq email /\ pin \cap tokens = {}

\* Only who has an address is sent a challenge to recover.
Asked ==
  /\ open \in [Phones -> Seq(Challenge)]
  /\ \A p \in Phones \ email : \A i \in DOMAIN open[p] : open[p][i].purpose # "RECOVERY"

\* Codes are given out in order, so none is higher than there are codes.
CodesAreLow == \A p \in Phones : code[p] <= Codes

\* Where a request is says whose row it has found or made: M are members, those of E have an
\* address, and n have a code.
Placed(t, M, E, n) ==
  /\ t.step \in {"use", "recover", "find"} => t.kind = "verify"
  /\ t.step = "create" => t.kind # "profile"
  /\ t.step = "recover" => t.phone \in E
  /\ t.step = "use" /\ t.purpose = "RECOVERY" => t.phone \in E
  /\ t.step \in {"pickup", "max", "assign", "reread", "gift", "award"} =>
       t.phone \in M /\ (t.kind # "walkIn" => t.phone \in E)
  /\ t.candidate \in Nat /\ t.candidate <= n + 1

InHand ==
  /\ task \in [Calls -> Task \cup {NoTask}]
  /\ \A w \in Calls : Placed(task[w], members, email, Codes)

EnrolInv == Rights /\ Asked /\ CodesAreLow /\ InHand

---------------------------------------------------------------------------

\* The codes as numbers.
LEMMA CodesCount ==
  ASSUME PickupInv
  PROVE  /\ Codes \in Nat /\ Cardinality(Phones) \in Nat /\ Codes <= Cardinality(Phones)
         /\ \A p \in Phones : code[p] \in Nat
  <1>1. IsFiniteSet(Phones) /\ Coded \subseteq Phones
    BY SignUpAssumption DEF Coded
  <1>2. QED BY <1>1, FS_Subset, FS_CardinalityType DEF Codes, PickupInv, SignUpTyped

\* Together they are the types.
LEMMA EnrolFits ==
  ASSUME PickupInv, EnrolInv, mishaps \in 0..MaxMishaps
  PROVE  SignUpTypes
  <1> DEFINE n == Codes
             z == Cardinality(Phones)
  <1>1. n \in Nat /\ z \in Nat /\ n <= z
    BY CodesCount
  <1>2. \A p \in Phones : code[p] \in Nat /\ code[p] <= n
    BY CodesCount DEF EnrolInv, CodesAreLow
  <1>3. \A p \in Phones : code[p] \in 0..z
    <2> HIDE DEF n, z
    <2>1. QED BY <1>1, <1>2
  <1>4. code \in [Phones -> 0..z]
    BY <1>3 DEF PickupInv, SignUpTyped
  <1>5. QED BY <1>4 DEF PickupInv, SignUpTyped, EnrolInv, Rights, Asked, InHand, SignUpTypes

\* Nobody is a member in the initial states.
LEMMA EnrolBegins ==
  ASSUME SignUpInit
  PROVE  EnrolInv
  <1>1. PickupInv
    BY PickupInit, SignUpAssumption
  <1>2. Rights
    BY DEF SignUpInit, Rights
  <1>3. Asked
    <2>1. <<>> \in Seq(Challenge) /\ DOMAIN <<>> = {}
      OBVIOUS
    <2>2. QED BY <2>1 DEF SignUpInit, Asked
  <1>4. CodesAreLow
    BY <1>1, CodesCount DEF SignUpInit, CodesAreLow
  <1>5. Placed(NoTask, members, email, Codes)
    BY <1>1, CodesCount DEF Placed, NoTask
  <1>6. InHand
    BY <1>5 DEF SignUpInit, InHand
  <1>7. QED BY <1>2, <1>3, <1>4, <1>6 DEF EnrolInv

\* No member is ever removed, and no address.
LEMMA MembersStay ==
  ASSUME [SignUpNext]_signUpVars
  PROVE  members \subseteq members' /\ email \subseteq email'
  BY DEF SignUpNext, Step, signUpVars, VerifyOtp, WalkIn, OpenProfile, UseChallenge, Recover, FindMember,
         CreateMember, FindCode, ReadMax, AssignCode, RereadCode, FindGift, AwardGift, Fault,
         RequestOtp, Expire, SetPin, member

\* Codes are given out one at a time.
LEMMA CodesStep ==
  ASSUME PickupInv, [SignUpNext]_signUpVars
  PROVE  CodeStep
  <1>1. ASSUME NEW w \in Calls, Works(w) PROVE CodeStep
    BY <1>1 DEF Works
  <1>2. ASSUME NEW p \in Phones, RequestOtp(p) \/ Expire(p) \/ SetPin(p) PROVE CodeStep
    BY <1>2 DEF RequestOtp, Expire, SetPin, member, CodeStep
  <1>3. CASE UNCHANGED signUpVars
    BY <1>3 DEF signUpVars, member, CodeStep
  <1>4. QED BY <1>1, <1>2, <1>3, PlainWorks, PickupWorks, SignUpAssumption DEF SignUpNext, Step, PickupInv

\* There are never fewer.
LEMMA CodesRise ==
  ASSUME PickupInv, PickupInv', [SignUpNext]_signUpVars
  PROVE  Codes' \in Nat /\ Codes <= Codes' /\ (code' # code => Codes' = Codes + 1)
  <1> DEFINE n == Codes
             m == Codes'
  <1>1. n \in Nat /\ (m = n \/ m = n + 1) /\ (code' # code => m = n + 1)
    BY CodesStep, CodesGrow, CodesCount, SignUpAssumption DEF PickupInv
  <1>2. m \in Nat /\ n <= m
    <2> HIDE DEF n, m
    <2>1. QED BY <1>1
  <1>3. QED BY <1>1, <1>2

\* So what a request has found stays found.
LEMMA PlacedStays ==
  ASSUME PickupInv, PickupInv', [SignUpNext]_signUpVars, NEW t,
         Placed(t, members, email, Codes) \/ Placed(t, members', email', Codes)
  PROVE  Placed(t, members', email', Codes')
  <1> DEFINE n == Codes
             m == Codes'
             k == t.candidate
  <1>1. members \subseteq members' /\ email \subseteq email'
    BY MembersStay
  <1>2. Placed(t, members', email', n)
    BY <1>1 DEF Placed
  <1>3. n \in Nat /\ m \in Nat /\ n <= m /\ k \in Nat /\ k <= n + 1
    BY <1>2, CodesRise, CodesCount DEF Placed
  <1>4. k <= m + 1
    <2> HIDE DEF n, m, k
    <2>1. QED BY <1>3
  <1>5. QED BY <1>2, <1>4 DEF Placed

\* The next candidate is one more than a code.
LEMMA CandidateIsLow ==
  ASSUME PickupInv, CodesAreLow, Phones # {}, NEW t
  PROVE  NextCandidate(t) <= Codes + 1
  <1> DEFINE S == Range(code)
             m == Max(S)
             n == Codes
  <1>1. PICK q \in Phones : \A p \in Phones : code[p] <= code[q]
    BY DEF CodesInv, PickupInv
  <1>2. S = {code[p] : p \in Phones}
    BY DEF PickupInv, SignUpTyped, Range
  <1>3. \E x \in S : \A y \in S : x >= y
    BY <1>1, <1>2 DEF PickupInv, SignUpTyped
  <1>4. m \in S
    BY <1>3 DEF Max
  <1>5. PICK p \in Phones : m = code[p]
    BY <1>2, <1>4
  <1>6. m \in Nat /\ n \in Nat /\ m <= n
    BY <1>5, CodesCount DEF CodesAreLow
  <1>7. NextCandidate(t) = m + 1
    BY DEF NextCandidate
  <1>8. m + 1 <= n + 1
    <2> HIDE DEF m, n
    <2>1. QED BY <1>6
  <1>9. QED BY <1>7, <1>8

\* Only a member with an address gets a token, and only a token sets a PIN.
LEMMA RightsKept ==
  ASSUME PickupInv, EnrolInv, [SignUpNext]_signUpVars
  PROVE  Rights'
  <1> Rights /\ (\A w \in Calls : task[w] \in Task \cup {NoTask} /\ Placed(task[w], members, email, Codes))
    BY DEF EnrolInv, InHand
  <1>1. ASSUME UNCHANGED <<members, email, pin, tokens>> PROVE Rights'
    BY <1>1 DEF Rights
  <1>2. ASSUME NEW w \in Calls, NEW c, Answer(w, c), UNCHANGED <<members, email, pin>>,
               task[w].step \in {"pickup", "assign", "reread"}
        PROVE  Rights'
    <2>1. task[w].kind = "verify" => task[w].phone \in email
      BY <1>2 DEF Placed
    <2>2. tokens' \subseteq tokens \cup ({task[w].phone} \ pin) /\ (tokens' = tokens \/ task[w].kind = "verify")
      BY <1>2 DEF Answer
    <2>3. QED BY <1>2, <2>1, <2>2 DEF Rights
  <1>3. ASSUME NEW w \in Calls, Recover(w) PROVE Rights'
    <2>1. task[w].phone \in email
      BY <1>3 DEF Recover, TaskAt, Placed
    <2>2. QED BY <1>3, <2>1 DEF Recover, member, Rights
  <1>4. ASSUME NEW p \in Phones, SetPin(p) PROVE Rights'
    BY <1>4 DEF SetPin, Rights
  <1>5. ASSUME NEW w \in Calls, FindMember(w) PROVE Rights'
    BY <1>5 DEF FindMember, Rights
  <1>6. ASSUME NEW w \in Calls, CreateMember(w) PROVE Rights'
    <2>1. task[w].phone \in Phones
      BY <1>6 DEF CreateMember, TaskAt, PickupInv, SignUpTyped, Form
    <2>2. QED BY <1>6, <2>1 DEF CreateMember, otp, Rights
  <1>7. ASSUME NEW w \in Calls, FindCode(w) PROVE Rights'
    <2>1. task[w].step = "pickup" /\ UNCHANGED <<members, email, pin>>
          /\ (tokens' = tokens \/ Answer(w, code[task[w].phone]))
      BY <1>7 DEF FindCode, TaskAt, member
    <2>2. QED BY <1>1, <1>2, <2>1
  <1>8. ASSUME NEW w \in Calls, AssignCode(w) PROVE Rights'
    <2>1. task[w].step = "assign" /\ UNCHANGED <<members, email, pin>>
          /\ (tokens' = tokens \/ Answer(w, task[w].candidate))
      BY <1>8 DEF AssignCode, TaskAt
    <2>2. QED BY <1>1, <1>2, <2>1
  <1>9. ASSUME NEW w \in Calls, RereadCode(w) PROVE Rights'
    <2>1. task[w].step = "reread" /\ UNCHANGED <<members, email, pin>> /\ Answer(w, code[task[w].phone])
      BY <1>9 DEF RereadCode, TaskAt, member
    <2>2. QED BY <1>2, <2>1
  <1>10. ASSUME NEW w \in Calls,
                \/ UseChallenge(w) \/ ReadMax(w) \/ FindGift(w) \/ AwardGift(w) \/ Fault(w)
                \/ \E p \in Phones : VerifyOtp(w, p) \/ WalkIn(w, p) \/ OpenProfile(w, p)
         PROVE  Rights'
    BY <1>1, <1>10 DEF UseChallenge, ReadMax, FindGift, AwardGift, Fault, VerifyOtp, WalkIn, OpenProfile,
                       member, otp
  <1>11. ASSUME NEW p \in Phones, RequestOtp(p) \/ Expire(p) PROVE Rights'
    BY <1>1, <1>11 DEF RequestOtp, Expire, member
  <1>12. CASE UNCHANGED signUpVars
    BY <1>1, <1>12 DEF signUpVars, member, otp
  <1>13. QED BY <1>3, <1>4, <1>5, <1>6, <1>7, <1>8, <1>9, <1>10, <1>11, <1>12 DEF SignUpNext, Step

\* What is left when one challenge is taken out was there before.
LEMMA TakenOut ==
  ASSUME NEW S, NEW s \in Seq(S), NEW i \in DOMAIN s
  PROVE  /\ RemoveAt(s, i) \in Seq(S)
         /\ \A j \in DOMAIN RemoveAt(s, i) : \E k \in DOMAIN s : RemoveAt(s, i)[j] = s[k]
  <1> DEFINE a == SubSeq(s, 1, i - 1)
             b == SubSeq(s, i + 1, Len(s))
             r == RemoveAt(s, i)
  <1>1. PICK n \in Nat : n = Len(s) /\ DOMAIN s = 1..n
    OBVIOUS
  <1>2. i \in Nat /\ 1 <= i /\ i <= n
    BY <1>1
  <1>3. a \in Seq(S) /\ Len(a) = i - 1 /\ \A j \in 1..i - 1 : a[j] = s[j]
    BY <1>1, <1>2
  <1>4. b \in Seq(S) /\ Len(b) = n - i
    BY <1>1, <1>2
  <1>5. \A j \in 1..n - i : b[j] = s[i + j]
    BY <1>1, <1>2
  <1>6. r = a \o b
    BY DEF RemoveAt
  <1> HIDE DEF a, b, r
  <1>7. /\ a \o b \in Seq(S) /\ Len(a \o b) = Len(a) + Len(b)
        /\ \A j \in 1..Len(a) + Len(b) : (a \o b)[j] = IF j <= Len(a) THEN a[j] ELSE b[j - Len(a)]
    BY <1>3, <1>4, ConcatProperties
  <1>8. Len(a) + Len(b) = n - 1
    BY <1>2, <1>3, <1>4
  <1>9. /\ r \in Seq(S) /\ Len(r) = n - 1
        /\ \A j \in 1..n - 1 : r[j] = IF j <= i - 1 THEN a[j] ELSE b[j - (i - 1)]
    BY <1>3, <1>6, <1>7, <1>8, Zenon
  <1>10. ASSUME NEW j \in 1..n - 1 PROVE \E k \in 1..n : r[j] = s[k]
    <2>1. r[j] = IF j <= i - 1 THEN a[j] ELSE b[j - (i - 1)]
      BY <1>9
    <2>2. CASE j <= i - 1
      <3>1. j \in 1..i - 1 /\ j \in 1..n
        BY <1>2, <2>2
      <3>2. r[j] = a[j] /\ a[j] = s[j]
        BY <1>3, <2>1, <2>2, <3>1
      <3>3. QED BY <3>1, <3>2
    <2>3. CASE ~(j <= i - 1)
      <3>1. PICK k \in 1..n - i : k = j - (i - 1)
        BY <1>2, <2>3
      <3>2. i + k \in 1..n
        BY <1>2
      <3>3. r[j] = b[k] /\ b[k] = s[i + k]
        BY <1>5, <2>1, <2>3, <3>1
      <3>4. QED BY <3>2, <3>3
    <2>4. QED BY <2>2, <2>3
  <1>11. DOMAIN r = 1..n - 1
    BY <1>9
  <1>12. QED BY <1>1, <1>9, <1>10, <1>11 DEF r

\* A challenge to recover is made for a member, who has an address or is refused.
LEMMA AskedKept ==
  ASSUME PickupInv, EnrolInv, [SignUpNext]_signUpVars
  PROVE  Asked'
  <1> Asked /\ Rights /\ email \subseteq email'
    BY MembersStay DEF EnrolInv
  <1>1. ASSUME open' = open PROVE Asked'
    BY <1>1 DEF Asked
  <1>2. ASSUME NEW p \in Phones, NEW s \in Seq(Challenge), open' = [open EXCEPT ![p] = s],
               p \notin email =>
                 \A j \in DOMAIN s : s[j].purpose # "RECOVERY" \/ \E k \in DOMAIN open[p] : s[j] = open[p][k]
        PROVE  Asked'
    <2>1. open' \in [Phones -> Seq(Challenge)] /\ open'[p] = s
          /\ \A q \in Phones : q # p => open'[q] = open[q]
      BY <1>2 DEF Asked
    <2>2. ASSUME NEW q \in Phones \ email, NEW j \in DOMAIN open'[q]
          PROVE  open'[q][j].purpose # "RECOVERY"
      <3>1. CASE q # p
        BY <2>1, <2>2, <3>1 DEF Asked
      <3>2. CASE q = p
        BY <1>2, <2>1, <2>2, <3>2 DEF Asked
      <3>3. QED BY <3>1, <3>2
    <2>3. QED BY <2>1, <2>2 DEF Asked
  <1>3. ASSUME NEW p \in Phones, RequestOtp(p) PROVE Asked'
    <2>1. PICK c \in Unused :
            open' = [open EXCEPT ![p] = Append(@,
              [id |-> c, purpose |-> IF p \in members THEN "RECOVERY" ELSE "REGISTER"])]
      BY <1>3 DEF RequestOtp
    <2> DEFINE d == [id |-> c, purpose |-> IF p \in members THEN "RECOVERY" ELSE "REGISTER"]
    <2>2. d \in Challenge /\ (p \notin email => d.purpose # "RECOVERY")
      BY <1>3 DEF RequestOtp, Recoverable, Unused, Challenge, OtpPurpose
    <2>3. open[p] \in Seq(Challenge)
      BY DEF Asked
    <2> HIDE DEF d
    <2>4. Append(open[p], d) \in Seq(Challenge)
          /\ \A j \in DOMAIN Append(open[p], d) :
               Append(open[p], d)[j] = d \/ (j \in DOMAIN open[p] /\ Append(open[p], d)[j] = open[p][j])
      BY <2>2, <2>3
    <2>5. open' = [open EXCEPT ![p] = Append(open[p], d)]
      BY <2>1 DEF d
    <2>6. QED BY <1>2, <2>2, <2>4, <2>5
  <1>4. ASSUME NEW p \in Phones, Expire(p) PROVE Asked'
    <2>1. open[p] \in Seq(Challenge) /\ open[p] # <<>> /\ open' = [open EXCEPT ![p] = Tail(open[p])]
      BY <1>4 DEF Asked, Expire
    <2>2. Tail(open[p]) \in Seq(Challenge)
          /\ \A j \in DOMAIN Tail(open[p]) : j + 1 \in DOMAIN open[p] /\ Tail(open[p])[j] = open[p][j + 1]
      BY <2>1
    <2>3. QED BY <1>2, <2>1, <2>2
  <1>5. ASSUME NEW w \in Calls, UseChallenge(w) PROVE Asked'
    <2>1. PICK p \in Phones : p = task[w].phone
      BY <1>5 DEF UseChallenge, TaskAt, PickupInv, SignUpTyped, Form
    <2>2. open' = open \/ \E i \in DOMAIN open[p] : open' = [open EXCEPT ![p] = RemoveAt(open[p], i)]
      BY <1>5, <2>1 DEF UseChallenge
    <2>3. open[p] \in Seq(Challenge)
      BY DEF Asked
    <2>4. ASSUME NEW i \in DOMAIN open[p], open' = [open EXCEPT ![p] = RemoveAt(open[p], i)] PROVE Asked'
      BY <1>2, <2>3, <2>4, TakenOut
    <2>5. QED BY <1>1, <2>2, <2>4
  <1>6. QED BY <1>1, <1>3, <1>4, <1>5
        DEF SignUpNext, Step, signUpVars, VerifyOtp, WalkIn, OpenProfile, Recover, FindMember,
            CreateMember, FindCode, ReadMax, AssignCode, RereadCode, FindGift, AwardGift, Fault,
            SetPin, otp

\* A candidate is one more than a code was, so the code it becomes is no higher than there are codes.
LEMMA LowKept ==
  ASSUME PickupInv, PickupInv', EnrolInv, [SignUpNext]_signUpVars
  PROVE  CodesAreLow'
  <1> DEFINE n == Codes
             m == Codes'
  <1>1. n \in Nat /\ m \in Nat /\ n <= m /\ (code' # code => m = n + 1)
    BY CodesRise, CodesCount
  <1>2. \A p \in Phones : code[p] \in Nat /\ code[p] <= n /\ code'[p] \in Nat
    BY CodesCount DEF EnrolInv, CodesAreLow, PickupInv, SignUpTyped
  <1>3. ASSUME NEW w \in Calls, AssignCode(w), code' # code, NEW p \in Phones
        PROVE  code'[p] <= m
    <2> DEFINE c == task[w].candidate
    <2>1. c \in Nat /\ c <= n + 1
      BY DEF EnrolInv, InHand, Placed, PickupInv, SignUpTyped, Form
    <2>2. code' = [code EXCEPT ![task[w].phone] = c]
      BY <1>3 DEF AssignCode
    <2>3. code'[p] = code[p] \/ code'[p] = c
      BY <2>2 DEF PickupInv, SignUpTyped
    <2> DEFINE x == code[p]
               y == code'[p]
    <2>4. y \in {x, c} /\ x \in Nat /\ x <= n /\ m = n + 1
      BY <1>1, <1>2, <1>3, <2>3
    <2>5. y <= m
      <3> HIDE DEF n, m, c, x, y
      <3>1. QED BY <1>1, <2>1, <2>4
    <2>6. QED BY <2>5
  <1>4. ASSUME code' = code, NEW p \in Phones PROVE code'[p] <= m
    <2> DEFINE x == code[p]
    <2>1. x \in Nat /\ x <= n
      BY <1>2
    <2>2. x <= m
      <3> HIDE DEF n, m, x
      <3>1. QED BY <1>1, <2>1
    <2>3. QED BY <1>4, <2>2
  <1>5. code' = code \/ \E w \in Calls : AssignCode(w)
    BY DEF SignUpNext, Step, signUpVars, VerifyOtp, WalkIn, OpenProfile, UseChallenge, Recover, FindMember,
           CreateMember, FindCode, ReadMax, RereadCode, FindGift, AwardGift, Fault, RequestOtp, Expire,
           SetPin, member
  <1>6. QED BY <1>3, <1>4, <1>5 DEF CodesAreLow

\* A request that begins, goes on or ends, while the others stay where they are.
LEMMA InHandStep ==
  ASSUME PickupInv, PickupInv', EnrolInv, [SignUpNext]_signUpVars, NEW w \in Calls,
         NEW t \in Task \cup {NoTask}, task' = [task EXCEPT ![w] = t], Placed(t, members', email', Codes)
  PROVE  InHand'
  <1>1. task' \in [Calls -> Task \cup {NoTask}]
    BY DEF EnrolInv, InHand
  <1>2. ASSUME NEW v \in Calls PROVE Placed(task'[v], members', email', Codes')
    <2>1. task'[v] = IF v = w THEN t ELSE task[v]
      BY DEF EnrolInv, InHand
    <2>2. Placed(task'[v], members, email, Codes) \/ Placed(task'[v], members', email', Codes)
      BY <2>1 DEF EnrolInv, InHand
    <2>3. QED BY <2>2, PlacedStays
  <1>3. QED BY <1>1, <1>2 DEF InHand

\* A request that ends.
LEMMA InHandIdle ==
  ASSUME PickupInv, PickupInv', EnrolInv, [SignUpNext]_signUpVars, NEW w \in Calls, EndTask(w)
  PROVE  InHand'
  <1>1. Placed(NoTask, members', email', Codes)
    BY CodesCount DEF Placed, NoTask
  <1>2. QED BY <1>1, InHandStep DEF EndTask

\* A request that begins: a challenge to recover is a member's.
LEMMA InHandBegin ==
  ASSUME PickupInv, PickupInv', EnrolInv, [SignUpNext]_signUpVars, NEW w \in Calls, NEW p \in Phones,
         VerifyOtp(w, p) \/ WalkIn(w, p) \/ OpenProfile(w, p)
  PROVE  InHand'
  <1> DEFINE z == Cardinality(Phones)
             n == Codes
  <1>1. 0 \in 0..z + 1 /\ 0 \in 0..MaxTries /\ 0 <= n + 1
    <2>1. z \in Nat /\ n \in Nat /\ MaxTries \in Nat
      BY CodesCount, SignUpAssumption
    <2> HIDE DEF z, n
    <2>2. QED BY <2>1
  <1>2. CASE VerifyOtp(w, p)
    <2> DEFINE d == Last(open[p])
               t == [NoTask EXCEPT !.kind = "verify", !.step = "use", !.phone = p,
                                   !.challenge = d.id, !.purpose = d.purpose]
    <2>1. open[p] \in Seq(Challenge) /\ open[p] # <<>>
      BY <1>2 DEF VerifyOtp, EnrolInv, Asked
    <2>2. Len(open[p]) \in DOMAIN open[p] /\ d = open[p][Len(open[p])]
      BY <2>1 DEF Last
    <2>3. d \in Challenge /\ (d.purpose = "RECOVERY" => p \in email)
      BY <2>1, <2>2 DEF EnrolInv, Asked
    <2>4. email \subseteq email'
      BY MembersStay
    <2>5. task' = [task EXCEPT ![w] = t]
      BY <1>2 DEF VerifyOtp, Begin
    <2> HIDE DEF d
    <2>6. t \in Task
      BY <1>1, <2>3 DEF Task, NoTask, Kinds, Challenge
    <2>7. Placed(t, members', email', n)
      BY <1>1, <2>3, <2>4 DEF Placed, NoTask
    <2> HIDE DEF t
    <2>8. QED BY <2>5, <2>6, <2>7, InHandStep
  <1>3. CASE WalkIn(w, p)
    <2> DEFINE t == [NoTask EXCEPT !.kind = "walkIn", !.step = "create", !.phone = p]
    <2>1. t \in Task
      BY <1>1 DEF Task, NoTask, Kinds, OtpPurpose
    <2>2. Placed(t, members', email', n)
      BY <1>1 DEF Placed, NoTask
    <2>3. QED BY <1>3, <2>1, <2>2, InHandStep DEF WalkIn, Begin
  <1>4. CASE OpenProfile(w, p)
    <2> DEFINE t == [NoTask EXCEPT !.kind = "profile", !.step = "pickup", !.phone = p]
    <2>1. t \in Task
      BY <1>1 DEF Task, NoTask, Kinds, OtpPurpose
    <2>2. p \in email /\ p \in members /\ members \subseteq members' /\ email \subseteq email'
      BY <1>4, MembersStay DEF OpenProfile, EnrolInv, Rights
    <2>3. Placed(t, members', email', n)
      BY <1>1, <2>2 DEF Placed, NoTask
    <2>4. QED BY <1>4, <2>1, <2>3, InHandStep DEF OpenProfile, Begin
  <1>5. QED BY <1>2, <1>3, <1>4

\* A request that is busy has a task, and no candidate is beyond the bound.
LEMMA BusyTask ==
  ASSUME PickupInv, EnrolInv, [SignUpNext]_signUpVars, NEW w \in Calls, task[w].step # "idle"
  PROVE  /\ task[w] \in Task /\ task[w].phone \in Phones
         /\ Placed(task[w], members, email, Codes) /\ Placed(task[w], members', email', Codes)
         /\ \A c \in Nat : c <= Codes + 1 => c \in 0..Cardinality(Phones) + 1
  <1> DEFINE n == Codes
             z == Cardinality(Phones)
  <1>1. task[w] \in Task /\ Placed(task[w], members, email, Codes)
    BY DEF EnrolInv, InHand, NoTask
  <1>2. Placed(task[w], members', email', Codes)
    BY <1>1, MembersStay DEF Placed
  <1>3. n \in Nat /\ z \in Nat /\ n <= z
    BY CodesCount
  <1>4. \A c \in Nat : c <= n + 1 => c \in 0..z + 1
    <2> HIDE DEF n, z
    <2>1. QED BY <1>3
  <1>5. task[w].phone \in Phones
    BY <1>1 DEF Task
  <1>6. QED BY <1>1, <1>2, <1>4, <1>5

\* A request that answers with a code.
LEMMA InHandAnswer ==
  ASSUME PickupInv, PickupInv', EnrolInv, [SignUpNext]_signUpVars, NEW w \in Calls,
         task[w].step \in {"pickup", "assign", "reread"}, NEW c \in Nat, c <= Codes + 1, Answer(w, c)
  PROVE  InHand'
  <1> DEFINE t == [task[w] EXCEPT !.step = "gift", !.candidate = c]
  <1>1. task[w] \in Task /\ Placed(task[w], members', email', Codes) /\ c \in 0..Cardinality(Phones) + 1
    BY BusyTask
  <1>2. CASE task[w].kind = "profile"
    <2>1. task' = [task EXCEPT ![w] = t]
      BY <1>2 DEF Answer, EnrolInv, InHand
    <2>2. t \in Task
      BY <1>1 DEF Task
    <2>3. Placed(t, members', email', Codes)
      BY <1>1 DEF Placed, Task
    <2> HIDE DEF t
    <2>4. QED BY <2>1, <2>2, <2>3, InHandStep
  <1>3. CASE task[w].kind # "profile"
    BY <1>3, InHandIdle DEF Answer
  <1>4. QED BY <1>2, <1>3

\* A request that goes on to step s.
LEMMA InHandGoto ==
  ASSUME PickupInv, PickupInv', EnrolInv, [SignUpNext]_signUpVars, NEW w \in Calls, task[w].step # "idle",
         NEW s \in {"create", "pickup", "max", "award"}, TaskTo(w, s),
         s = "create" => task[w].kind # "profile",
         s # "create" => task[w].phone \in members' /\ (task[w].kind # "walkIn" => task[w].phone \in email')
  PROVE  InHand'
  <1> DEFINE t == [task[w] EXCEPT !.step = s]
  <1>1. task[w] \in Task /\ Placed(task[w], members', email', Codes)
    BY BusyTask
  <1>2. task' = [task EXCEPT ![w] = t]
    BY DEF TaskTo, EnrolInv, InHand
  <1>3. t \in Task
    BY <1>1 DEF Task
  <1>4. Placed(t, members', email', Codes)
    BY <1>1 DEF Placed, Task
  <1> HIDE DEF t
  <1>5. QED BY <1>2, <1>3, <1>4, InHandStep

\* The challenge is used, and the member looked for.
LEMMA InHandUse ==
  ASSUME PickupInv, PickupInv', EnrolInv, [SignUpNext]_signUpVars, NEW w \in Calls, UseChallenge(w)
  PROVE  InHand'
  <1> DEFINE t == [task[w] EXCEPT !.challenge = NoChallenge, !.purpose = "REGISTER",
                     !.step = IF task[w].purpose = "RECOVERY" THEN "recover" ELSE "find"]
  <1>1. task[w].step = "use"
    BY DEF UseChallenge, TaskAt
  <1>2. task[w] \in Task /\ Placed(task[w], members', email', Codes)
    BY <1>1, BusyTask
  <1>3. task' = [task EXCEPT ![w] = t]
    BY DEF UseChallenge, EnrolInv, InHand
  <1>4. t \in Task
    BY <1>2 DEF Task, OtpPurpose
  <1>5. Placed(t, members', email', Codes)
    BY <1>1, <1>2 DEF Placed, Task
  <1> HIDE DEF t
  <1>6. QED BY <1>3, <1>4, <1>5, InHandStep

\* The actions of ensureKitchenPickupCode.
LEMMA InHandPickup ==
  ASSUME PickupInv, PickupInv', EnrolInv, [SignUpNext]_signUpVars, NEW w \in Calls,
         FindCode(w) \/ ReadMax(w) \/ AssignCode(w) \/ RereadCode(w)
  PROVE  InHand'
  <1> DEFINE p == task[w].phone
             c == task[w].candidate
  <1>0. task[w].step \in {"pickup", "max", "assign", "reread"}
    BY DEF FindCode, ReadMax, AssignCode, RereadCode, TaskAt
  <1>1. /\ task[w] \in Task /\ p \in Phones
        /\ Placed(task[w], members, email, Codes) /\ Placed(task[w], members', email', Codes)
        /\ \A d \in Nat : d <= Codes + 1 => d \in 0..Cardinality(Phones) + 1
    BY <1>0, BusyTask
  <1>2. p \in members' /\ (task[w].kind # "walkIn" => p \in email') /\ c \in Nat /\ c <= Codes + 1
    BY <1>0, <1>1 DEF Placed
  <1>3. code[p] \in Nat /\ code[p] <= Codes + 1
    <2> DEFINE x == code[p]
               n == Codes
    <2>1. x \in Nat /\ n \in Nat /\ x <= n
      BY <1>1, CodesCount DEF EnrolInv, CodesAreLow
    <2>2. x <= n + 1
      <3> HIDE DEF x, n
      <3>1. QED BY <2>1
    <2>3. QED BY <2>1, <2>2
  <1>4. CASE FindCode(w)
    BY <1>0, <1>2, <1>3, <1>4, InHandAnswer, InHandGoto DEF FindCode, TaskAt
  <1>5. CASE RereadCode(w)
    BY <1>3, <1>5, InHandAnswer DEF RereadCode, TaskAt
  <1>6. CASE ReadMax(w)
    <2> DEFINE d == NextCandidate(task[w])
               t == [task[w] EXCEPT !.step = "assign", !.candidate = d]
    <2>1. d \in Nat /\ d <= Codes + 1
      BY <1>1, CandidateIsFree, CandidateIsLow DEF PickupInv, EnrolInv
    <2>2. d \in 0..Cardinality(Phones) + 1
      BY <1>1, <2>1
    <2>3. task' = [task EXCEPT ![w] = t]
      BY <1>6 DEF ReadMax, EnrolInv, InHand
    <2> HIDE DEF d
    <2>4. t \in Task
      BY <1>1, <2>2 DEF Task
    <2>5. Placed(t, members', email', Codes)
      BY <1>1, <1>2, <2>1 DEF Placed, Task
    <2> HIDE DEF t
    <2>6. QED BY <2>3, <2>4, <2>5, InHandStep
  <1>7. CASE AssignCode(w)
    <2>1. CASE Answer(w, c)
      BY <1>2, <1>7, <2>1, InHandAnswer DEF AssignCode, TaskAt
    <2>2. CASE EndTask(w)
      BY <2>2, InHandIdle
    <2>3. CASE task' = [task EXCEPT ![w].step = "reread", ![w].candidate = 0]
      <3> DEFINE t == [task[w] EXCEPT !.step = "reread", !.candidate = 0]
      <3>1. 0 \in 0..Cardinality(Phones) + 1 /\ 0 <= Codes + 1
        BY <1>1, CodesCount
      <3>2. task' = [task EXCEPT ![w] = t]
        BY <2>3 DEF EnrolInv, InHand
      <3>3. t \in Task
        BY <1>1, <3>1 DEF Task
      <3>4. Placed(t, members', email', Codes)
        BY <1>1, <1>2, <3>1 DEF Placed, Task
      <3> HIDE DEF t
      <3>5. QED BY <3>2, <3>3, <3>4, InHandStep
    <2>4. CASE task[w].tries + 1 < MaxTries /\ task' = [task EXCEPT ![w].step = "max", ![w].tries = @ + 1]
      <3> DEFINE k == task[w].tries + 1
                 t == [task[w] EXCEPT !.step = "max", !.tries = k]
      <3>1. k \in 0..MaxTries
        BY <1>1, <2>4, SignUpAssumption DEF Task
      <3>2. task' = [task EXCEPT ![w] = t]
        BY <2>4 DEF EnrolInv, InHand
      <3> HIDE DEF k
      <3>3. t \in Task
        BY <1>1, <3>1 DEF Task
      <3>4. Placed(t, members', email', Codes)
        BY <1>1, <1>2 DEF Placed, Task
      <3> HIDE DEF t
      <3>5. QED BY <3>2, <3>3, <3>4, InHandStep
    <2>5. QED BY <1>7, <2>1, <2>2, <2>3, <2>4 DEF AssignCode
  <1>8. QED BY <1>4, <1>5, <1>6, <1>7

\* Every step keeps what requests have in hand.
LEMMA InHandKept ==
  ASSUME PickupInv, PickupInv', EnrolInv, [SignUpNext]_signUpVars
  PROVE  InHand'
  <1>1. ASSUME NEW w \in Calls, FindMember(w) PROVE InHand'
    <2>1. task[w].step = "find" /\ task[w].kind = "verify"
      BY <1>1, BusyTask DEF FindMember, TaskAt, Placed
    <2>2. email \subseteq members /\ email \subseteq email' /\ members \subseteq members'
      BY MembersStay DEF EnrolInv, Rights
    <2>3. \/ EndTask(w) \/ TaskTo(w, "create")
          \/ TaskTo(w, "pickup") /\ task[w].phone \in email
      BY <1>1 DEF FindMember
    <2>4. QED BY <2>1, <2>2, <2>3, InHandIdle, InHandGoto
  <1>2. ASSUME NEW w \in Calls, CreateMember(w) PROVE InHand'
    <2>1. task[w].step = "create" /\ task[w].kind \in {"verify", "walkIn"}
      BY <1>2, BusyTask DEF CreateMember, TaskAt, Placed, Task, Kinds
    <2>2. CASE EndTask(w)
      BY <2>2, InHandIdle
    <2>3. CASE /\ TaskTo(w, "pickup") /\ members' = members \cup {task[w].phone}
               /\ email' = IF task[w].kind = "verify" THEN email \cup {task[w].phone} ELSE email
      BY <2>1, <2>3, InHandGoto
    <2>4. QED BY <1>2, <2>2, <2>3 DEF CreateMember
  <1>3. ASSUME NEW w \in Calls, FindGift(w) PROVE InHand'
    <2>1. task[w].step = "gift" /\ task[w].phone \in members'
          /\ (task[w].kind # "walkIn" => task[w].phone \in email')
      BY <1>3, BusyTask DEF FindGift, TaskAt, Placed
    <2>2. QED BY <1>3, <2>1, InHandIdle, InHandGoto DEF FindGift
  <1>4. ASSUME NEW w \in Calls, Recover(w) \/ AwardGift(w) \/ Fault(w) PROVE InHand'
    BY <1>4, InHandIdle DEF Recover, AwardGift, Fault
  <1>5. ASSUME task' = task PROVE InHand'
    <2>1. ASSUME NEW w \in Calls PROVE Placed(task[w], members', email', Codes')
      BY PlacedStays DEF EnrolInv, InHand
    <2>2. QED BY <1>5, <2>1 DEF EnrolInv, InHand
  <1>6. ASSUME NEW p \in Phones, RequestOtp(p) \/ Expire(p) \/ SetPin(p) PROVE InHand'
    BY <1>5, <1>6 DEF RequestOtp, Expire, SetPin
  <1>7. CASE UNCHANGED signUpVars
    BY <1>5, <1>7 DEF signUpVars
  <1>8. QED BY <1>1, <1>2, <1>3, <1>4, <1>6, <1>7, InHandBegin, InHandUse, InHandPickup DEF SignUpNext, Step

\* How often something went wrong stays within the bound.
LEMMA MishapsBounded ==
  ASSUME mishaps \in 0..MaxMishaps, [SignUpNext]_signUpVars
  PROVE  mishaps' \in 0..MaxMishaps
  <1>1. mishaps' = mishaps \/ Mishap
    BY DEF SignUpNext, Step, signUpVars, VerifyOtp, WalkIn, OpenProfile, UseChallenge, Recover, FindMember,
           CreateMember, FindCode, ReadMax, AssignCode, RereadCode, FindGift, AwardGift, Fault, RequestOtp,
           Expire, SetPin
  <1>2. QED BY <1>1, MishapsAssumption DEF Mishap

LEMMA EnrolKept ==
  ASSUME PickupInv, PickupInv', EnrolInv, [SignUpNext]_signUpVars
  PROVE  EnrolInv'
  BY RightsKept, AskedKept, LowKept, InHandKept DEF EnrolInv

\* A member has an address before a PIN or a token to set one, never both of these; codes are no
\* higher than there are members; and a request is where its member's row lets it be.
THEOREM SignUpTypesAlways == SignUpSpec => []SignUpTypes
  <1>1. SignUpInit => PickupInv /\ EnrolInv /\ mishaps \in 0..MaxMishaps
    <2>1. SignUpInit => mishaps = 0 /\ 0 \in 0..MaxMishaps
      BY MishapsAssumption DEF SignUpInit
    <2>2. QED BY <2>1, PickupInit, EnrolBegins, SignUpAssumption
  <1>2. PickupInv /\ [SignUpNext]_signUpVars => PickupInv'
    BY PickupKept, SignUpAssumption
  <1>3. PickupInv /\ PickupInv' /\ EnrolInv /\ [SignUpNext]_signUpVars => EnrolInv'
    BY EnrolKept
  <1>4. mishaps \in 0..MaxMishaps /\ [SignUpNext]_signUpVars => (mishaps \in 0..MaxMishaps)'
    BY MishapsBounded
  <1>5. PickupInv /\ EnrolInv /\ mishaps \in 0..MaxMishaps => SignUpTypes
    BY EnrolFits
  <1>6. QED BY <1>1, <1>2, <1>3, <1>4, <1>5, PTL DEF SignUpSpec

---------------------------------------------------------------------------
(***************************************************************************)
(* The behaviours of MCBackground: mailer, receipts, sign-ups or products    *)
(* move, and the others stay as they were in the initial state.              *)
(***************************************************************************)
\* What holds of all four whosever turn it is, and what the one that moves bounds.
BackgroundInv ==
  /\ part \in {"mailer", "salesplay", "signup", "catalog"}
  /\ MailerInv /\ PointsInv /\ PickupInv /\ CatalogInv
  /\ part = "mailer" => MailerBounds
  /\ part = "salesplay" => ReconcileInv /\ ReceiptBounds
  /\ part # "salesplay" => now = 0 /\ made = [x \in Records |-> Never]
  /\ part = "signup" => EnrolInv /\ mishaps \in 0..MaxMishaps

LEMMA MailerRests ==
  ASSUME MailerInv, UNCHANGED mailer
  PROVE  MailerInv'
  <1> UNCHANGED <<campaign, due, gift, counts, recipient, vouchers, blank, mails, run, req, overtaken, calls>>
    BY DEF mailer, rows, memberRows, admin
  <1>1. \A c, s : With(c, s)' = With(c, s)
    BY DEF With
  <1>2. MailerTyped'
    BY <1>1 DEF MailerInv, MailerTyped
  <1>3. Alone'
    BY DEF MailerInv, Alone, Working
  <1>4. \A c : Complete(c)' = Complete(c)
    BY <1>1 DEF Complete
  <1>5. ASSUME NEW i \in Instances PROVE Engaged(i)'
    <2>1. Progress(run[i], run[i].at)' = Progress(run[i], run[i].at)
      BY <1>1, <1>4 DEF Progress, Unmarked
    <2>2. QED BY <2>1 DEF MailerInv, Engaged, Working, Serving
  <1>6. ASSUME NEW c \in Campaigns \ overtaken PROVE Sound(c)'
    BY <1>4, <1>6 DEF MailerInv, Sound, Working, Unmarked
  <1>7. QED BY <1>2, <1>3, <1>5, <1>6 DEF MailerInv

LEMMA ReceiptsRest ==
  ASSUME PointsInv, UNCHANGED salesplay
  PROVE  PointsInv'
  BY DEF salesplay, PointsInv, AwardOwned, ItemAt, PointsExactlyOnce, Unawarded

LEMMA SignUpRests ==
  ASSUME PickupInv, UNCHANGED signup
  PROVE  PickupInv'
  BY DEF signup, member, otp, PickupInv, SignUpTyped, CodesInv, Knows, Enough, Codes, Coded, Used

LEMMA CatalogRests ==
  ASSUME CatalogInv, UNCHANGED catalogVars
  PROVE  CatalogInv'
  BY NextKeeps

LEMMA BackgroundBegins ==
  ASSUME Init
  PROVE  BackgroundInv
  <1>1. MailerInv /\ MailerBounds
    BY MailerBegins, MailerBoundsBegin DEF Init
  <1>2. PointsInv /\ ReconcileInv /\ ReceiptBounds
    BY PointsInit, ReconcileInit, ReceiptBoundsBegin, SalesPlayAssumption DEF Init
  <1>3. PickupInv /\ EnrolInv
    BY PickupInit, EnrolBegins, SignUpAssumption DEF Init
  <1>4. CatalogInv
    BY InitKeeps DEF Init
  <1>5. mishaps \in 0..MaxMishaps
    BY <1>1 DEF MailerBounds
  <1>6. now = 0 /\ made = [x \in Records |-> Never]
    BY DEF Init, SalesPlayInit
  <1>7. part \in {"mailer", "salesplay", "signup", "catalog"}
    BY DEF Init
  <1>8. QED BY <1>1, <1>2, <1>3, <1>4, <1>5, <1>6, <1>7 DEF BackgroundInv

LEMMA BackgroundKept ==
  ASSUME BackgroundInv, [Next]_vars
  PROVE  BackgroundInv'
  <1> MailerInv /\ PointsInv /\ PickupInv /\ CatalogInv
    BY DEF BackgroundInv
  <1>0. part' = part /\ part \in {"mailer", "salesplay", "signup", "catalog"}
    BY DEF Next, vars, BackgroundInv
  <1>1. CASE UNCHANGED vars
    <2>1. UNCHANGED <<part, mailer, salesplay, signup, catalogVars, mishaps>>
      BY <1>1 DEF vars
    <2>2. MailerInv' /\ PointsInv' /\ PickupInv' /\ CatalogInv'
      BY <2>1, MailerRests, ReceiptsRest, SignUpRests, CatalogRests
    <2>3. UNCHANGED mailerVars /\ UNCHANGED salesplayVars /\ UNCHANGED signUpVars
      BY <2>1 DEF mailer, salesplay, signup, mailerVars, salesplayVars, signUpVars
    <2>4. part = "mailer" => MailerBounds'
      BY <2>3, MailerBoundsKept DEF BackgroundInv
    <2>5. part = "salesplay" => ReconcileInv' /\ ReceiptBounds'
      BY <2>3, ReconcileNext, ReceiptBoundsKept, SalesPlayAssumption DEF BackgroundInv
    <2>6. part # "salesplay" => now' = 0 /\ made' = [x \in Records |-> Never]
      BY <2>1 DEF salesplay, BackgroundInv
    <2>7. part = "signup" => EnrolInv' /\ mishaps' \in 0..MaxMishaps
      BY <2>2, <2>3, EnrolKept, MishapsBounded DEF BackgroundInv
    <2>8. QED BY <1>0, <2>2, <2>4, <2>5, <2>6, <2>7 DEF BackgroundInv
  <1>2. CASE part = "mailer" /\ MailerNext /\ UNCHANGED <<salesplay, signup, catalogVars>>
    <2>1. MailerInv' /\ MailerBounds'
      BY <1>2, MailerKept, MailerBoundsKept DEF BackgroundInv
    <2>2. PointsInv' /\ PickupInv' /\ CatalogInv'
      BY <1>2, ReceiptsRest, SignUpRests, CatalogRests
    <2>3. now' = 0 /\ made' = [x \in Records |-> Never]
      BY <1>2 DEF salesplay, BackgroundInv
    <2>4. QED BY <1>0, <1>2, <2>1, <2>2, <2>3 DEF BackgroundInv
  <1>3. CASE part = "salesplay" /\ SalesPlayNext /\ UNCHANGED <<mailer, signup, catalogVars>>
    <2>1. PointsInv' /\ ReconcileInv' /\ ReceiptBounds'
      BY <1>3, PointsNext, ReconcileNext, ReceiptBoundsKept, SalesPlayAssumption DEF BackgroundInv
    <2>2. MailerInv' /\ PickupInv' /\ CatalogInv'
      BY <1>3, MailerRests, SignUpRests, CatalogRests
    <2>3. QED BY <1>0, <1>3, <2>1, <2>2 DEF BackgroundInv
  <1>4. CASE part = "signup" /\ SignUpNext /\ UNCHANGED <<mailer, salesplay, catalogVars>>
    <2>1. PickupInv'
      BY <1>4, PickupKept, SignUpAssumption
    <2>2. EnrolInv' /\ mishaps' \in 0..MaxMishaps
      BY <1>4, <2>1, EnrolKept, MishapsBounded DEF BackgroundInv
    <2>3. MailerInv' /\ PointsInv' /\ CatalogInv'
      BY <1>4, MailerRests, ReceiptsRest, CatalogRests
    <2>4. now' = 0 /\ made' = [x \in Records |-> Never]
      BY <1>4 DEF salesplay, BackgroundInv
    <2>5. QED BY <1>0, <1>4, <2>4, <2>3, <2>2, <2>1 DEF BackgroundInv
  <1>5. CASE part = "catalog" /\ CatalogNext /\ UNCHANGED <<mailer, salesplay, signup, mishaps>>
    <2>1. CatalogInv'
      BY <1>5, NextKeeps
    <2>2. MailerInv' /\ PointsInv' /\ PickupInv'
      BY <1>5, MailerRests, ReceiptsRest, SignUpRests
    <2>3. now' = 0 /\ made' = [x \in Records |-> Never]
      BY <1>5 DEF salesplay, BackgroundInv
    <2>4. QED BY <1>0, <1>5, <2>1, <2>2, <2>3 DEF BackgroundInv
  <1>6. QED BY <1>1, <1>2, <1>3, <1>4, <1>5 DEF Next

\* What the invariant says of the properties the run checks.
LEMMA BackgroundSays ==
  ASSUME BackgroundInv
  PROVE  /\ TypeOK /\ OneMailOneGift /\ FinishedIsComplete /\ PointsExactlyOnce /\ NothingMissed
         /\ PickupCodeSettles /\ EditsSurviveSync /\ NothingDangles
  <1>1. TypeOK
    <2>1. part = "mailer" => MailerTypes
      BY MailerFits DEF BackgroundInv
    <2>2. part = "salesplay" => SalesPlayTypes
      BY ReceiptsFit DEF BackgroundInv
    <2>3. part = "signup" => SignUpTypes
      BY EnrolFits DEF BackgroundInv
    <2>4. part = "catalog" => CatalogTypes
      BY TypesHold DEF BackgroundInv
    <2>5. part \in {"mailer", "salesplay", "signup", "catalog"}
      BY DEF BackgroundInv
    <2>6. QED BY <2>5, <2>4, <2>3, <2>2, <2>1 DEF TypeOK
  <1>2. NothingMissed
    <2>1. CASE part = "salesplay"
      BY <2>1, MissingIsCharged DEF BackgroundInv
    <2>2. ASSUME part # "salesplay", NEW x \in Records PROVE ~(made[x] < FromDate)
      <3>1. now = 0 /\ made[x] = End + 1
        BY <2>2 DEF BackgroundInv, Never
      <3>2. PICK d \in Int : d = (0 - 1) \div 2 /\ d <= 0
        OBVIOUS
      <3>3. FromDate = 2 * (d - Lookback) + 1
        BY <3>1, <3>2 DEF FromDate
      <3>4. 2 * (d - Lookback) + 1 <= End + 1
        BY <3>2, SalesPlayAssumption
      <3>5. QED BY <3>1, <3>3, <3>4, SalesPlayAssumption
    <2>3. QED BY <2>1, <2>2 DEF NothingMissed
  <1>3. OneMailOneGift /\ FinishedIsComplete
    BY MailsOnce, CompleteWhenOver DEF BackgroundInv
  <1>4. PointsExactlyOnce
    BY DEF BackgroundInv, PointsInv
  <1>5. PickupCodeSettles
    BY CodesSettle DEF BackgroundInv
  <1>6. EditsSurviveSync /\ NothingDangles
    BY DEF BackgroundInv, CatalogInv, KeepsInv, Keeps, EditsSurviveSync, PhotoInv, OnDisk, Listed, NothingDangles
  <1>7. QED BY <1>1, <1>2, <1>3, <1>4, <1>5, <1>6

\* Campaigns, receipts, sign-ups and products keep their types, whichever of them a behaviour is about.
THEOREM BackgroundTypes == Spec => []TypeOK
  <1>1. Init => BackgroundInv
    BY BackgroundBegins
  <1>2. BackgroundInv /\ [Next]_vars => BackgroundInv'
    BY BackgroundKept
  <1>3. BackgroundInv => TypeOK
    BY BackgroundSays
  <1>4. QED BY <1>1, <1>2, <1>3, PTL DEF Spec

\* The safety properties of the run hold of its behaviours for every value of the constants: one mail,
\* one gift, complete counts (MailerService); points once, and no receipt missed (Salesplay services);
\* pickup codes (CustomersService); edits and photos (ShopCatalogService).
THEOREM BackgroundSafe ==
  Spec => [](/\ OneMailOneGift /\ FinishedIsComplete /\ PointsExactlyOnce /\ NothingMissed
             /\ PickupCodeSettles /\ EditsSurviveSync /\ NothingDangles)
  <1> DEFINE Safe == /\ OneMailOneGift /\ FinishedIsComplete /\ PointsExactlyOnce /\ NothingMissed
                     /\ PickupCodeSettles /\ EditsSurviveSync /\ NothingDangles
  <1>1. Init => BackgroundInv
    BY BackgroundBegins
  <1>2. BackgroundInv /\ [Next]_vars => BackgroundInv'
    BY BackgroundKept
  <1>3. BackgroundInv => Safe
    BY BackgroundSays
  <1>4. Spec => []Safe
    <2> HIDE DEF Safe
    <2>1. QED BY <1>1, <1>2, <1>3, PTL DEF Spec
  <1>5. QED BY <1>4
=============================================================================
