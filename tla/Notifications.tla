---------------------------- MODULE Notifications ----------------------------
(***************************************************************************)
(* The owner's inbox and the mails beside it.  A service emits an event    *)
(* after its change is committed; a listener of the same process inserts   *)
(* the owner's row and then asks for the mail or text of the event, which  *)
(* another listener hands to a gateway.  Nothing is retried, and what a    *)
(* process had in flight is lost with it.  An hourly job reminds the       *)
(* owners of reviews that wait for a reply, one after the other.           *)
(***************************************************************************)
EXTENDS Integers

CONSTANTS
  Events,      \* emissions of domain events
  Unanswered,  \* published reviews whose 96 hours for a reply are almost over
  Reminders    \* runs of the reminder job that can be in flight

VARIABLES
  kind,        \* kind[e]: the event that was emitted, none before that
  row,         \* row[e]: none, or whether its notification is unread or read
  listening,   \* events whose listener is about to insert the row
  announcing,  \* events whose row is inserted and whose messages are to be asked for
  requested,   \* messages asked for: notification.requested
  sent,        \* sent[e][c]: messages of e the gateway of channel c accepted
  marking,     \* notifications a markRead has found unread
  reminded,    \* reviews whose replyReminderSent is set
  reminders,   \* reminders[t]: reminders in the owner's inbox
  remind,      \* remind[j]: the run j
  overlapped   \* history: reviews found by a run while another had still to mark them

inFlight == <<listening, announcing, requested>>
inboxVars == <<kind, row, inFlight, sent, marking>>
reminderVars == <<reminded, reminders, remind, overlapped>>
notificationsVars == <<inboxVars, reminderVars>>

Resting == [stage |-> "resting"]

\* todo: the reviews that were found and are left; marked: the review that is marked
\* and of which the reminder is to be created.
Reminding ==
  [stage : {"found"}, todo : SUBSET Unanswered]
  \cup [stage : {"marked"}, todo : SUBSET Unanswered, review : Unanswered]

-----------------------------------------------------------------------------
\* The booking events whose listener also mails the guest, and those that stay in
\* the owner's inbox.
MailedBookings ==
  {"booking.confirmed", "booking.cancelled", "booking.voided", "booking.refunded",
   "booking.extended"}

QuietBookings == {"booking.no_show", "booking.checked_in"}

\* The decisions of the administrators, two of which are texted too.
HotelEvents == {"hotel.verified", "hotel.rejected", "hotel.revision_requested"}

TextedHotels == {"hotel.verified", "hotel.revision_requested"}

PayoutEvents == {"payout.released"}

ReviewEvents == {"review.new_on_property"}

Kinds == MailedBookings \cup QuietBookings \cup HotelEvents \cup PayoutEvents
           \cup ReviewEvents

Channels == {"email", "sms"}

\* The messages a listener asks for.
Messages(e) ==
  {<<e, c>> : c \in {d \in Channels :
     \/ d = "email" /\ kind[e] \in MailedBookings \cup HotelEvents
     \/ d = "sms" /\ kind[e] \in TextedHotels}}
-----------------------------------------------------------------------------
NotificationsInit ==
  /\ kind = [e \in Events |-> "none"]
  /\ row = [e \in Events |-> "none"]
  /\ listening = {}
  /\ announcing = {}
  /\ requested = {}
  /\ sent = [e \in Events |-> [c \in Channels |-> 0]]
  /\ marking = {}
  /\ reminded = {}
  /\ reminders = [t \in Unanswered |-> 0]
  /\ remind = [j \in Reminders |-> Resting]
  /\ overlapped = {}

\* emit calls the listener, which calls the insert.
Emit(e, k) ==
  /\ kind[e] = "none"
  /\ kind' = [kind EXCEPT ![e] = k]
  /\ listening' = listening \cup {e}
  /\ UNCHANGED <<row, announcing, requested, sent, marking, reminderVars>>

\* The insert is done ...
CreateRow(e) ==
  /\ e \in listening
  /\ row' = [row EXCEPT ![e] = "unread"]
  /\ listening' = listening \ {e}
  /\ announcing' = announcing \cup {e}
  /\ UNCHANGED <<kind, requested, sent, marking, reminderVars>>

\* MUTANT: the listener catches what the insert throws, and goes on.
ListenerGoesOn(e) ==
  /\ e \in listening
  /\ listening' = listening \ {e}
  /\ announcing' = announcing \cup {e}
  /\ UNCHANGED <<kind, row, requested, sent, marking, reminderVars>>

\* ... or throws, which wrap logs.
ListenerFails(e) ==
  /\ e \in listening
  /\ listening' = listening \ {e}
  /\ UNCHANGED <<kind, row, announcing, requested, sent, marking, reminderVars>>

\* The listener goes on, and emits notification.requested for every message.
Announce(e) ==
  /\ e \in announcing
  /\ announcing' = announcing \ {e}
  /\ requested' = requested \cup Messages(e)
  /\ UNCHANGED <<kind, row, listening, sent, marking, reminderVars>>

\* deliver finds the recipient, and the gateway takes the message ...
Deliver(e, c) ==
  /\ <<e, c>> \in requested
  /\ requested' = requested \ {<<e, c>>}
  /\ sent' = [sent EXCEPT ![e][c] = @ + 1]
  /\ UNCHANGED <<kind, row, listening, announcing, marking, reminderVars>>

\* ... or there is no recipient, no gateway or an error: a line in the log.
DeliveryFails(e, c) ==
  /\ <<e, c>> \in requested
  /\ requested' = requested \ {<<e, c>>}
  /\ UNCHANGED <<kind, row, listening, announcing, sent, marking, reminderVars>>

ProcessEnds ==
  /\ listening' = {}
  /\ announcing' = {}
  /\ requested' = {}
  /\ marking' = {}
  /\ UNCHANGED <<kind, row, sent, reminderVars>>

-----------------------------------------------------------------------------
\* markRead of a notification that is not read yet ...
MarkReadCheck(e) ==
  /\ row[e] = "unread"
  /\ marking' = marking \cup {e}
  /\ UNCHANGED <<kind, row, inFlight, sent, reminderVars>>

\* ... and its update.
MarkReadWrite(e) ==
  /\ e \in marking
  /\ row' = [row EXCEPT ![e] = "read"]
  /\ marking' = marking \ {e}
  /\ UNCHANGED <<kind, inFlight, sent, reminderVars>>

\* markAllRead: one statement, which takes what is unread when it runs.
MarkAllRead ==
  /\ row' = [e \in Events |-> IF row[e] = "unread" THEN "read" ELSE row[e]]
  /\ UNCHANGED <<kind, inFlight, sent, marking, reminderVars>>

-----------------------------------------------------------------------------
\* sendReplyReminders finds the reviews that nobody has been reminded of ...
RemindFind(j) ==
  LET found == Unanswered \ reminded IN
  /\ remind[j] = Resting
  /\ found # {}
  /\ remind' = [remind EXCEPT ![j] = [stage |-> "found", todo |-> found]]
  /\ overlapped' = overlapped \cup
       {t \in found : \E k \in Reminders : remind[k] # Resting /\ t \in remind[k].todo}
  /\ UNCHANGED <<inboxVars, reminded, reminders>>

\* ... marks one ...
RemindMark(j, t) ==
  /\ remind[j].stage = "found"
  /\ t \in remind[j].todo
  /\ reminded' = reminded \cup {t}
  /\ remind' = [remind EXCEPT ![j] =
       [stage |-> "marked", todo |-> remind[j].todo \ {t}, review |-> t]]
  /\ UNCHANGED <<inboxVars, reminders, overlapped>>

\* ... and creates its reminder, until there are none left.
RemindCreate(j) ==
  LET r == remind[j] IN
  /\ r.stage = "marked"
  /\ reminders' = [reminders EXCEPT ![r.review] = @ + 1]
  /\ remind' = [remind EXCEPT ![j] =
       IF r.todo = {} THEN Resting ELSE [stage |-> "found", todo |-> r.todo]]
  /\ UNCHANGED <<inboxVars, reminded, overlapped>>

\* A statement fails or the process ends: of a review that is marked nobody is
\* reminded any more.
RemindStop(j) ==
  /\ remind[j] # Resting
  /\ remind' = [remind EXCEPT ![j] = Resting]
  /\ UNCHANGED <<inboxVars, reminded, reminders, overlapped>>

InboxNext ==
  \/ \E e \in Events :
       \/ \E k \in Kinds : Emit(e, k)
       \/ CreateRow(e) \/ ListenerFails(e) \/ Announce(e)
       \/ \E c \in Channels : Deliver(e, c) \/ DeliveryFails(e, c)
       \/ MarkReadCheck(e) \/ MarkReadWrite(e)
  \/ ProcessEnds
  \/ MarkAllRead

RemindersNext ==
  \E j \in Reminders :
    \/ RemindFind(j) \/ RemindCreate(j) \/ RemindStop(j)
    \/ \E t \in Unanswered : RemindMark(j, t)

NotificationsNext == InboxNext \/ RemindersNext

NotificationsSpec == NotificationsInit /\ [][NotificationsNext]_notificationsVars

-----------------------------------------------------------------------------
\* Properties.

\* Every variable has its type.
NotificationsTypeOK ==
  /\ kind \in [Events -> Kinds \cup {"none"}]
  /\ row \in [Events -> {"none", "unread", "read"}]
  /\ listening \in SUBSET Events
  /\ announcing \in SUBSET Events
  /\ requested \in SUBSET (Events \X Channels)
  /\ sent \in [Events -> [Channels -> Nat]]
  /\ marking \in SUBSET Events
  /\ reminded \in SUBSET Unanswered
  /\ reminders \in [Unanswered -> Nat]
  /\ remind \in [Reminders -> Reminding \cup {Resting}]
  /\ overlapped \in SUBSET Unanswered

\* Wherever a listener, a gateway or the process gives up: a guest or an owner gets a
\* message of an event at most once, and only of one that the owner's inbox shows; and
\* an owner is reminded of a review once, but for runs of the job that overlap.
ToldOnce ==
  /\ \A e \in Events, c \in Channels :
       sent[e][c] > 0 => sent[e][c] = 1 /\ row[e] # "none"
  /\ \A t \in Unanswered : reminders[t] <= 1 \/ t \in overlapped
=============================================================================
