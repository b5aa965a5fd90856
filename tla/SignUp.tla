------------------------------- MODULE SignUp -------------------------------
(***************************************************************************)
(* How a phone number becomes a member: the code sent to it, the member's    *)
(* row, the PIN, the six-digit code the member shows at the kitchen, and the *)
(* birthday gift.  Staff also create members from a phone number alone.      *)
(*                                                                          *)
(* An action is one database statement with the code after it.               *)
(***************************************************************************)
EXTENDS Naturals, Sequences, FiniteSets, FiniteSetsExt, SequencesExt, Mishaps

CONSTANTS
  Phones,
  Birthdays,     \* phones of those whose birthday is this month
  Calls,         \* backend requests that can be in flight at once
  Challenges,    \* bound: rows of otp_challenges that are unused or in a request's hands
  MaxTries,      \* tries of ensureKitchenPickupCode (12)
  NoPhone, NoChallenge

ASSUME SignUpAssumption == IsFiniteSet(Phones) /\ IsFiniteSet(Calls) /\ MaxTries \in Nat

VARIABLES
  members,  \* phones with a row of customers
  email,    \* those that have an e-mail address
  pin,      \* those that have a login PIN
  code,     \* kitchenPickupCode, 0 if null
  open,     \* unused challenges of a phone that have not expired, oldest first
  tokens,   \* phones without PIN that hold a setup token (with one it replaces the PIN)
  gifts,    \* points entries 'birthday_reward' of this year
  task,     \* local state of each request
  exhausted \* history: KITCHEN_PICKUP_CODE_GENERATION_FAILED was thrown

member == <<members, email, pin, code>>
otp == <<open, tokens>>
signUpVars == <<member, otp, gifts, task, exhausted, mishaps>>

OtpPurpose == {"REGISTER", "RECOVERY"}
Challenge == [id : Challenges, purpose : OtpPurpose]
Kinds == {"verify", "profile", "walkIn"}

Task == [
  kind      : Kinds,
  step      : {"use", "recover", "find", "create", "pickup", "max", "assign", "reread", "gift", "award"},
  phone     : Phones,
  purpose   : OtpPurpose,
  challenge : Challenges \cup {NoChallenge},
  candidate : 0..(Cardinality(Phones) + 1),
  tries     : 0..MaxTries]

NoTask == [kind |-> "none", step |-> "idle", phone |-> NoPhone, purpose |-> "REGISTER",
         challenge |-> NoChallenge, candidate |-> 0, tries |-> 0]

SignUpTypes ==
  /\ members \subseteq Phones /\ email \subseteq members /\ pin \subseteq members
  /\ code \in [Phones -> 0..Cardinality(Phones)]
  /\ open \in [Phones -> Seq(Challenge)]
  /\ tokens \subseteq members \ pin
  /\ gifts \in [Phones -> Nat]
  /\ task \in [Calls -> Task \cup {NoTask}]
  /\ exhausted \in BOOLEAN /\ mishaps \in 0..MaxMishaps

SignUpInit ==
  /\ members = {} /\ email = {} /\ pin = {}
  /\ code = [p \in Phones |-> 0]
  /\ open = [p \in Phones |-> <<>>]
  /\ tokens = {} /\ gifts = [p \in Phones |-> 0]
  /\ task = [w \in Calls |-> NoTask]
  /\ exhausted = FALSE /\ mishaps = 0

---------------------------------------------------------------------------

TaskAt(w, s) == task[w].step = s
TaskTo(w, s) == task' = [task EXCEPT ![w].step = s]
EndTask(w) == task' = [task EXCEPT ![w] = NoTask]

\* A request begins with t in hand.
Begin(w, t) ==
  /\ task[w] = NoTask
  /\ task' = [task EXCEPT ![w] = t]

---------------------------------------------------------------------------
(* requestOtp *)

\* EMAIL_NOT_ON_FILE otherwise
Recoverable(p) == p \in email

\* Challenges that can still be made: the bound.
Unused ==
  Challenges \ (UNION {{c.id : c \in Range(open[p])} : p \in Phones} \cup
                {task[w].challenge : w \in Calls})

\* A phone without member registers, a member recovers; whoever asks for the wrong one, or too
\* often, is refused.  The phone may become a member between the look and the challenge, but it
\* may as well do so right after (requestOtp).
RequestOtp(p) ==
  /\ p \in members => Recoverable(p)
  /\ \E c \in Unused :
       open' = [open EXCEPT ![p] = Append(@,
         [id |-> c, purpose |-> IF p \in members THEN "RECOVERY" ELSE "REGISTER"])]
  /\ UNCHANGED <<member, tokens, gifts, task, exhausted, mishaps>>

\* The oldest challenge expires.
Expire(p) ==
  /\ open[p] # <<>> /\ open' = [open EXCEPT ![p] = Tail(@)]
  /\ UNCHANGED <<member, tokens, gifts, task, exhausted, mishaps>>

---------------------------------------------------------------------------
(* verifyOtp *)

\* The latest unused challenge is read, and the code compared with it.
VerifyOtp(w, p) ==
  /\ open[p] # <<>>
  /\ Begin(w, [NoTask EXCEPT !.kind = "verify", !.step = "use", !.phone = p,
               !.challenge = Last(open[p]).id, !.purpose = Last(open[p]).purpose])
  /\ UNCHANGED <<member, otp, gifts, exhausted, mishaps>>

\* It is marked used by its id, also if it has been used or has expired by now.
UseChallenge(w) ==
  LET p == task[w].phone
      found == {i \in DOMAIN open[p] : open[p][i].id = task[w].challenge}
  IN
  /\ TaskAt(w, "use")
  /\ \/ \E i \in found : open' = [open EXCEPT ![p] = RemoveAt(@, i)]
     \/ found = {} /\ UNCHANGED open
  /\ task' = [task EXCEPT ![w].challenge = NoChallenge, ![w].purpose = "REGISTER",
                          ![w].step = IF task[w].purpose = "RECOVERY" THEN "recover" ELSE "find"]
  /\ UNCHANGED <<member, tokens, gifts, exhausted, mishaps>>

\* RECOVERY: the member gets a setup token.
Recover(w) ==
  /\ TaskAt(w, "recover") /\ EndTask(w)
  /\ tokens' = tokens \cup ({task[w].phone} \ pin)
  /\ UNCHANGED <<member, open, gifts, exhausted, mishaps>>

\* setPinFromSetup
SetPin(p) ==
  /\ p \in tokens
  /\ tokens' = tokens \ {p} /\ pin' = pin \cup {p}
  /\ UNCHANGED <<members, email, code, open, gifts, task, exhausted, mishaps>>

---------------------------------------------------------------------------
(* ensureCustomerForPhone, createWalkInCustomer, getProfileBundle *)

\* createWalkInCustomer, for a phone that has no member yet.
WalkIn(w, p) ==
  /\ p \notin members
  /\ Begin(w, [NoTask EXCEPT !.kind = "walkIn", !.step = "create", !.phone = p])
  /\ UNCHANGED <<member, otp, gifts, exhausted, mishaps>>

\* getProfileBundle, for a member who has signed in with a PIN.
OpenProfile(w, p) ==
  /\ p \in pin
  /\ Begin(w, [NoTask EXCEPT !.kind = "profile", !.step = "pickup", !.phone = p])
  /\ UNCHANGED <<member, otp, gifts, exhausted, mishaps>>

\* A request has the member's pickup code: a sign-up answers with a setup token, a profile goes
\* on to the birthday gift.
Answer(w, c) ==
  LET p == task[w].phone IN
  IF task[w].kind = "profile"
  THEN /\ task' = [task EXCEPT ![w].step = "gift", ![w].candidate = c]
       /\ UNCHANGED tokens
  ELSE /\ EndTask(w)
       /\ tokens' = IF task[w].kind = "verify" THEN tokens \cup ({p} \ pin) ELSE tokens

\* REGISTER: the phone may have become a member since the challenge was made.  One without
\* e-mail address gets it, one without pickup code a code; for any other a row is created.
FindMember(w) ==
  LET p == task[w].phone IN
  /\ TaskAt(w, "find")
  /\ \/ /\ p \in members \ email
        /\ email' = email \cup {p} /\ tokens' = tokens \cup {p} /\ EndTask(w)
     \/ /\ p \in email /\ code[p] = 0 /\ TaskTo(w, "pickup")
        /\ UNCHANGED <<email, tokens>>
     \/ /\ p \notin members \/ (p \in email /\ code[p] # 0)
        /\ TaskTo(w, "create")
        /\ UNCHANGED <<email, tokens>>
  /\ UNCHANGED <<members, pin, code, open, gifts, exhausted, mishaps>>

\* The phone is unique: for a phone that is taken the request fails.
CreateMember(w) ==
  LET p == task[w].phone IN
  /\ TaskAt(w, "create")
  /\ \/ p \in members /\ EndTask(w) /\ UNCHANGED <<members, email>>
     \/ /\ p \notin members /\ TaskTo(w, "pickup")
        /\ members' = members \cup {p}
        /\ email' = IF task[w].kind = "verify" THEN email \cup {p} ELSE email
  /\ UNCHANGED <<pin, code, otp, gifts, exhausted, mishaps>>

---------------------------------------------------------------------------
(* ensureKitchenPickupCode *)

FindCode(w) ==
  LET c == code[task[w].phone] IN
  /\ TaskAt(w, "pickup")
  /\ \/ c # 0 /\ Answer(w, c)
     \/ c = 0 /\ TaskTo(w, "max") /\ UNCHANGED tokens
  /\ UNCHANGED <<member, open, gifts, exhausted, mishaps>>

\* Mutant: the candidate of the first try is used for all of them.
NextCandidateOnce(t) == IF t.tries = 0 THEN Max(Range(code)) + 1 ELSE t.candidate

\* nextKitchenPickupCodeCandidate
NextCandidate(t) == Max(Range(code)) + 1

ReadMax(w) ==
  /\ TaskAt(w, "max")
  /\ task' = [task EXCEPT ![w].step = "assign", ![w].candidate = NextCandidate(task[w])]
  /\ UNCHANGED <<member, otp, gifts, exhausted, mishaps>>

\* Mutant: the update does not ask for a null code.
UnassignedAny(p) == TRUE

Unassigned(p) == code[p] = 0

\* updateMany where the code is null: it takes the candidate, finds no row, or meets the unique
\* constraint and tries again, MaxTries times in all.
AssignCode(w) ==
  LET p == task[w].phone
      c == task[w].candidate
      taken == \E q \in Phones \ {p} : code[q] = c
  IN
  /\ TaskAt(w, "assign")
  /\ \/ /\ Unassigned(p) /\ ~taken
        /\ code' = [code EXCEPT ![p] = c]
        /\ Answer(w, c)
        /\ UNCHANGED exhausted
     \/ /\ ~Unassigned(p)
        /\ task' = [task EXCEPT ![w].step = "reread", ![w].candidate = 0]
        /\ UNCHANGED <<code, tokens, exhausted>>
     \/ /\ Unassigned(p) /\ taken
        /\ \/ /\ task[w].tries + 1 < MaxTries
              /\ task' = [task EXCEPT ![w].step = "max", ![w].tries = @ + 1]
              /\ UNCHANGED exhausted
           \/ /\ task[w].tries + 1 = MaxTries /\ EndTask(w)
              /\ exhausted' = TRUE
        /\ UNCHANGED <<code, tokens>>
  /\ UNCHANGED <<members, email, pin, open, gifts, mishaps>>

\* Another request was faster.
RereadCode(w) ==
  /\ TaskAt(w, "reread") /\ Answer(w, code[task[w].phone])
  /\ UNCHANGED <<member, open, gifts, exhausted, mishaps>>

---------------------------------------------------------------------------
(* maybeGrantBirthdayReward *)

Ungifted(p) == gifts[p] = 0

\* A member may set the birthday later in its month.
FindGift(w) ==
  /\ TaskAt(w, "gift")
  /\ \/ EndTask(w)
     \/ task[w].phone \in Birthdays /\ Ungifted(task[w].phone) /\ TaskTo(w, "award")
  /\ UNCHANGED <<member, otp, gifts, exhausted, mishaps>>

\* A gift that fails does not break the profile.
AwardGift(w) ==
  /\ TaskAt(w, "award") /\ EndTask(w)
  /\ \/ gifts' = [gifts EXCEPT ![task[w].phone] = @ + 1] /\ UNCHANGED mishaps
     \/ Mishap /\ UNCHANGED gifts
  /\ UNCHANGED <<member, otp, exhausted>>

---------------------------------------------------------------------------

\* A statement throws, or the process dies: what has been written stays.
Fault(w) ==
  /\ task[w] # NoTask /\ EndTask(w)
  /\ Mishap
  /\ UNCHANGED <<member, otp, gifts, exhausted>>

Step(w) ==
  \/ UseChallenge(w) \/ Recover(w) \/ FindMember(w) \/ CreateMember(w)
  \/ FindCode(w) \/ ReadMax(w) \/ AssignCode(w) \/ RereadCode(w) \/ FindGift(w) \/ AwardGift(w)

SignUpNext ==
  \/ \E w \in Calls :
       \/ \E p \in Phones : VerifyOtp(w, p) \/ WalkIn(w, p) \/ OpenProfile(w, p)
       \/ Step(w) \/ Fault(w)
  \/ \E p \in Phones : RequestOtp(p) \/ Expire(p) \/ SetPin(p)

SignUpSpec == SignUpInit /\ [][SignUpNext]_signUpVars

---------------------------------------------------------------------------
(* Properties *)

\* The pickup code a profile answers with is the member's, and nobody else's, however long the
\* answer takes, although every profile and every sign-up may be the one that assigns it; and
\* the tries suffice if there are as many as members who can get a code meanwhile
\* (ensureKitchenPickupCode).
PickupCodeSettles ==
  /\ \A w \in Calls : task[w].step \in {"gift", "award"} =>
       \A p \in Phones : code[p] = task[w].candidate <=> p = task[w].phone
  /\ Cardinality(Phones) <= MaxTries => ~exhausted

\* "Granted at most once per calendar year", to members who "have not already received this
\* year's gift", however many profiles load (maybeGrantBirthdayReward).
BirthdayGiftOnce == \A p \in Phones : gifts[p] <= 1
=============================================================================
