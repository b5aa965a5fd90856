------------------------------ MODULE Kitchen ------------------------------
(***************************************************************************)
(* The kitchen, of which the server knows and the browser learns: the date  *)
(* and the hour in Malaysia, the date on which operations end, and the rules *)
(* about dates.                                                             *)
(***************************************************************************)
EXTENDS Integers

CONSTANTS
  MaxDay,       \* bound: the last day of the model, which starts on day 0
  LeadDays,     \* minScheduleLeadDays
  DurationDays, \* durationDays of the packages
  ClosedDays    \* closedDates, and closed weekdays but Sundays, which are no days of the model

VARIABLES
  today,    \* the date in Malaysia
  clock,    \* its hour: before 17:00, up to the cutoff hour, after it
  opsEnd    \* operationsEndDate

Days == 1..MaxDay   \* days of pickup
NoEnd == MaxDay + 1   \* operationsEndDate is null

\* minSchedulableDate
Earliest == today + LeadDays + (IF clock = "late" THEN 1 ELSE 0)

\* The rules about dates, the earliest apart (isSchedulablePickupDate).
IsDateClosed(d) == d > opsEnd \/ d \in ClosedDays

\* 17:00 on the day before pickup has passed (isPickupDateLocked).
Locked(d) == d <= today + (IF clock = "open" THEN 0 ELSE 1)
============================================================================
