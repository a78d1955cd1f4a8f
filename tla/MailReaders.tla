------------------------------ MODULE MailReaders ------------------------------
(***************************************************************************)
(* The readers of the mailing lists of mavi-mail, the campaigns that are   *)
(* queued for them, and what takes them out: a link to unsubscribe, or an  *)
(* event of the provider that says that mail bounced or was complained     *)
(* about.  Module Mail has what happens to a delivery once it is queued.   *)
(***************************************************************************)
EXTENDS Naturals, FiniteSets, TLC

CONSTANTS Reader,      \* ids of readers
          Email,       \* Email[r]: the address of reader r
          AtFirst,     \* the readers of the list at first
          Key,         \* idempotency keys of campaigns
          Event,       \* event ids of the provider
          Client,      \* requests that overlap
          Operations   \* bound on requests and events

ReadersAssumption == \A r, s \in AtFirst : Email[r] = Email[s] => r = s

VARIABLES
    reader,    \* mail_readers and mail_list_members
    letter,    \* mail_deliveries of campaigns, by key and reader, with their links
    shelf,     \* the list and the template: there, and how often the text was changed
    event,     \* mail_provider_events
    form,      \* requests under way
    operations

vars == <<reader, letter, shelf, event, form, operations>>

NoReader == [phase |-> "none", standing |-> "subscribed", member |-> FALSE]
NoLetter == [status |-> "none", text |-> 0, used |-> FALSE, excused |-> FALSE]
NoForm   == [kind |-> "none", id |-> CHOOSE r \in Reader : TRUE, known |-> FALSE, again |-> FALSE,
             key |-> CHOOSE k \in Key : TRUE, left |-> {}, texts |-> <<>>]

Suppressed == {"bounced", "complained"}

Init ==
    /\ reader = [r \in Reader |-> IF r \in AtFirst THEN [NoReader EXCEPT !.phase = "live", !.member = TRUE]
                                  ELSE NoReader]
    /\ letter = [m \in Key \X Reader |-> NoLetter]
    /\ shelf = [list |-> TRUE, template |-> TRUE, text |-> 0]
    /\ event = {}
    /\ form = [c \in Client |-> NoForm]
    /\ operations = Operations

Live(r)      == reader[r].phase = "live"
Begin        == operations > 0 /\ operations' = operations - 1
Idle(c)      == form[c].kind = "none"
Fill(c, f)   == form' = [form EXCEPT ![c] = f]

----------------------------------------------------------------------------
(* add_reader: looks the address up, then writes.                          *)

LookUp(c, r, again) ==
    LET known == Live(r)
    IN  /\ Begin /\ Idle(c) /\ shelf.list
        /\ known \/ (reader[r].phase = "none" /\ \A s \in Reader : Email[s] = Email[r] => ~Live(s))
        /\ ~(known /\ again /\ reader[r].standing \in Suppressed)
        /\ Fill(c, [NoForm EXCEPT !.kind = "add", !.id = r, !.known = known, !.again = again])
        /\ UNCHANGED <<reader, letter, shelf, event>>

\* What the row keeps of its standing is decided when it is written.
Standing(c) == IF form[c].again THEN "subscribed" ELSE reader[form[c].id].standing

\* A known reader must still be there, and a new one's address still free.
Add(c) ==
    LET r == form[c].id
        fits == IF form[c].known THEN Live(r)
                ELSE reader[r].phase = "none" /\ \A s \in Reader : Email[s] = Email[r] => ~Live(s)
    IN  /\ form[c].kind = "add"
        /\ reader' = IF ~fits THEN reader
                     ELSE [reader EXCEPT ![r] = [phase |-> "live", standing |-> Standing(c), member |-> TRUE]]
        /\ Fill(c, NoForm)
        /\ UNCHANGED <<letter, shelf, event, operations>>

DeleteReader(r) ==
    /\ Begin /\ Live(r)
    /\ reader' = [reader EXCEPT ![r].phase = "gone"]
    /\ UNCHANGED <<letter, shelf, event, form>>

----------------------------------------------------------------------------
(* unsubscribe: by the reader's own token, which each addition renews, or  *)
(* by the link of a letter, which counts once.  Every answer is the same.  *)

UnsubscribeReader(r) ==
    /\ Begin /\ Live(r)
    /\ reader' = [reader EXCEPT ![r].standing = "unsubscribed"]
    /\ UNCHANGED <<letter, shelf, event, form>>

UnsubscribeLetter(m) ==
    /\ Begin /\ letter[m].status # "none" /\ ~letter[m].used
    /\ reader' = IF Live(m[2]) THEN [reader EXCEPT ![m[2]].standing = "unsubscribed"]
                 ELSE reader
    /\ letter' = [letter EXCEPT ![m].used = TRUE]
    /\ UNCHANGED <<shelf, event, form>>

----------------------------------------------------------------------------
(* receive_provider_event.                                                 *)

\* A complaint outlasts a bounce.
After(standing, kind) == IF standing = "complained" THEN standing ELSE kind

\* Mutant: a letter that waits to be tried again is forgotten.
CancelledQueued(address) ==
    [m \in DOMAIN letter |->
        IF Email[m[2]] = address /\ letter[m].status = "queued" THEN [letter[m] EXCEPT !.status = "cancelled"]
        ELSE IF Email[m[2]] = address /\ letter[m].status = "sending" THEN [letter[m] EXCEPT !.excused = TRUE]
        ELSE letter[m]]

\* suppress_recipient: what is queued for the address is cancelled; what is being sent is not.
Cancelled(address) ==
    [m \in DOMAIN letter |->
        IF Email[m[2]] # address THEN letter[m]
        ELSE CASE letter[m].status \in {"queued", "retry"} -> [letter[m] EXCEPT !.status = "cancelled"]
               [] letter[m].status = "sending"             -> [letter[m] EXCEPT !.excused = TRUE]
               [] OTHER                                    -> letter[m]]

\* An event that comes again is answered and changes nothing.
ReceiveProviderEvent(v, r, kind) ==
    /\ Begin /\ v \notin event
    /\ event' = event \cup {v}
    /\ IF kind = "delivered" THEN UNCHANGED <<reader, letter>>
       ELSE /\ reader' = [s \in Reader |-> IF Email[s] = Email[r] /\ Live(s)
                                           THEN [reader[s] EXCEPT !.standing = After(@, kind)]
                                           ELSE reader[s]]
            /\ letter' = Cancelled(Email[r])
    /\ UNCHANGED <<shelf, form>>

----------------------------------------------------------------------------
(* send_campaign: the readers are looked up, then a letter is rendered for *)
(* each with the template as it is, all in one transaction.                *)

\* campaign_recipients
Recipients == {r \in Reader : Live(r) /\ reader[r].member /\ reader[r].standing = "subscribed"}

SendCampaign(c, k) ==
    /\ Begin /\ Idle(c) /\ shelf.list
    /\ Fill(c, [NoForm EXCEPT !.kind = "campaign", !.key = k, !.left = Recipients])
    /\ UNCHANGED <<reader, letter, shelf, event>>

\* Without its template the whole campaign fails.
RenderNext(c, r) ==
    LET f == form[c]
    IN  /\ f.kind = "campaign" /\ r \in f.left
        /\ Fill(c, IF ~shelf.template THEN NoForm
                   ELSE [f EXCEPT !.left = @ \ {r}, !.texts = @ @@ r :> shelf.text])
        /\ UNCHANGED <<reader, letter, shelf, event, operations>>

\* One letter for a key and a reader: what is there stays.
CommitCampaign(c) ==
    LET f == form[c]
    IN  /\ f.kind = "campaign" /\ f.left = {}
        /\ letter' = [m \in DOMAIN letter |->
                        IF m[1] = f.key /\ m[2] \in DOMAIN f.texts /\ letter[m].status = "none"
                        THEN [NoLetter EXCEPT !.status = "queued", !.text = f.texts[m[2]],
                                              !.excused = m[2] \notin Recipients]
                        ELSE letter[m]]
        /\ Fill(c, NoForm)
        /\ UNCHANGED <<reader, shelf, event, operations>>

----------------------------------------------------------------------------
(* Deliveries, as far as they matter here: see Mail.                       *)

Move(m, from, to) ==
    /\ letter[m].status \in from
    /\ letter' = [letter EXCEPT ![m].status = to]
    /\ UNCHANGED <<reader, shelf, event, form, operations>>

Claim(m)      == Move(m, {"queued", "retry"}, "sending")
MarkSent(m)   == Move(m, {"sending"}, "sent")
MarkFailed(m) == Move(m, {"sending"}, "retry") \/ Move(m, {"sending"}, "dead")

\* An operator asks for it, whatever the reader's standing.
RetryDelivery(m) ==
    /\ Begin /\ letter[m].status \in {"dead", "cancelled"}
    /\ letter' = [letter EXCEPT ![m].status = "queued", ![m].excused = TRUE]
    /\ UNCHANGED <<reader, shelf, event, form>>

----------------------------------------------------------------------------
(* Templates and lists.                                                    *)

UpdateTemplate ==
    /\ Begin /\ shelf.template
    /\ shelf' = [shelf EXCEPT !.text = @ + 1]
    /\ UNCHANGED <<reader, letter, event, form>>

DeleteTemplate ==
    /\ Begin /\ shelf.template
    /\ shelf' = [shelf EXCEPT !.template = FALSE]
    /\ UNCHANGED <<reader, letter, event, form>>

DeleteList ==
    /\ Begin /\ shelf.list
    /\ shelf' = [shelf EXCEPT !.list = FALSE]
    /\ UNCHANGED <<reader, letter, event, form>>

Next ==
    \/ \E c \in Client : \/ \E r \in Reader : RenderNext(c, r) \/ \E again \in BOOLEAN : LookUp(c, r, again)
                         \/ \E k \in Key : SendCampaign(c, k)
                         \/ Add(c) \/ CommitCampaign(c)
    \/ \E r \in Reader : \/ DeleteReader(r) \/ UnsubscribeReader(r)
                         \/ \E v \in Event, kind \in {"delivered", "bounced", "complained"} :
                               ReceiveProviderEvent(v, r, kind)
    \/ \E m \in DOMAIN letter : \/ UnsubscribeLetter(m) \/ Claim(m) \/ MarkSent(m) \/ MarkFailed(m)
                                \/ RetryDelivery(m)
    \/ UpdateTemplate \/ DeleteTemplate \/ DeleteList

Spec == Init /\ [][Next]_vars

----------------------------------------------------------------------------
TypeOK ==
    /\ reader \in [Reader -> [phase : {"none", "live", "gone"}, member : BOOLEAN,
                              standing : {"subscribed", "unsubscribed"} \cup Suppressed]]
    /\ letter \in [Key \X Reader -> [status : {"none", "queued", "sending", "retry", "sent", "dead", "cancelled"},
                                     text : 0 .. Operations, used : BOOLEAN, excused : BOOLEAN]]
    /\ event \subseteq Event
    /\ \A c \in Client : form[c].kind \in {"none", "add", "campaign"}
    /\ operations \in 0 .. Operations

\* No letter waits for a reader whose mail bounced or who complained.
Withheld == \A m \in DOMAIN letter : \A r \in Reader :
    Live(r) /\ Email[r] = Email[m[2]] /\ reader[r].standing \in Suppressed
        => letter[m].status \notin {"queued", "retry"} \/ letter[m].excused

\* An addition that looked the reader up before.
Overlapping(r) == \E c \in Client : form[c].kind = "add" /\ form[c].id = r /\ form'[c].kind = "none"

\* Only the reader's own link, or a deletion, ends it.
Sticks == \A r \in Reader :
    Live(r) /\ reader[r].standing \in Suppressed /\ reader'[r].phase = "live"
        => \/ reader'[r].standing \in Suppressed \cup {"unsubscribed"}
           \/ Overlapping(r)

(* A reader whose mail bounced or who complained is sent no campaign and   *)
(* is not subscribed again, whatever overlaps and however often the        *)
(* provider repeats itself.  What the code leaves out: an operator's       *)
(* retry, a letter that was being sent or a campaign or an addition that   *)
(* was under way at the event, who follows the link to unsubscribe and is  *)
(* added again, and who is deleted and added again: that is a new reader.  *)
SuppressionHolds == [][Withheld' /\ Sticks]_vars

(* Nobody who complained is subscribed again without having asked.  Not    *)
(* so: an unsubscription replaces the complaint, and hides it.             *)
ComplaintsAreKept == [][\A r \in Reader : reader[r].standing = "complained" /\ Live(r)
                            => reader'[r].standing = "complained" \/ reader'[r].phase = "gone"]_vars

(* A letter's link takes its address from the list.  Not so: not when the  *)
(* reader was deleted and added again.                                     *)
LinksUnsubscribe ==
    [][\A m \in DOMAIN letter : ~letter[m].used /\ letter'[m].used
          => \A r \in Reader : Live(r)' /\ Email[r] = Email[m[2]] => reader'[r].standing # "subscribed"]_vars

(* The letters of one campaign say the same.  Not so: its template may     *)
(* change under it.                                                        *)
OneTextPerCampaign ==
    \A c \in Client : \A r, s \in DOMAIN form[c].texts : form[c].texts[r] = form[c].texts[s]
===============================================================================
