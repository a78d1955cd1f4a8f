-------------------------------- MODULE Forms --------------------------------
(***************************************************************************)
(* A form of mavi-forms, what visitors submit to it, and the daily pass    *)
(* that redacts what is older than the form keeps.  A submission reads the *)
(* open form without a lock and inserts in a later statement, and the pass *)
(* takes its clock before its statement: the form may be closed, changed,  *)
(* put in the trash or purged in between.                                  *)
(***************************************************************************)
EXTENDS Integers, FiniteSets

CONSTANTS
    Submission, Visitor,
    Asked,     \* lists of fields an operator asks, each a set of [key, kind, required, options]
    Answers,   \* answers a visitor sends: values [type, text] under keys
    Days,      \* values of kept_days
    LastDay,   \* bound on days
    Changes    \* bound on an operator's changes

\* validate_fields: a key names one field, and a choice, no other kind, has options.
ValidFields(fields) ==
    /\ \A f, g \in fields : f.key = g.key => f = g
    /\ \A f \in fields : f.kind = "choice" <=> f.options # {}

Fields == {fields \in Asked : ValidFields(fields)}

\* validate_answers, field by field; then no key but the fields'.
Empty(answers, f) == f.key \in DOMAIN answers => answers[f.key].type \in {"null", "blank"}

OfKind(value, f) ==
    CASE f.kind \in {"text", "long"} -> value.type \in {"string", "email"}
      [] f.kind = "choice"           -> value.text \in f.options
      [] OTHER                       -> value.type = f.kind

Fits(answers, fields) ==
    /\ \A f \in fields : IF Empty(answers, f) THEN ~f.required ELSE OfKind(answers[f.key], f)
    /\ DOMAIN answers \subseteq {f.key : f \in fields}

FormsAssumption == Days \subseteq Nat \ {0} /\ LastDay \in Nat /\ Fields # {}

VARIABLES
    form,      \* the form's row
    inbox,     \* submissions
    visit,     \* submissions under way
    today,     \* days since the site began
    pass,      \* the retention jobs, by their bucket, and the clock of each
    changesLeft

vars == <<form, inbox, visit, today, pass, changesLeft>>

NoAnswers == [phase |-> "none", answers |-> <<>>, born |-> 0, seen |-> FALSE]
Away == [pc |-> "away", s |-> 0, answers |-> <<>>, born |-> 0]

Init ==
    /\ form \in [phase : {"live"}, open : {TRUE}, fields : {CHOOSE f \in Fields : TRUE}, kept : Days]
    /\ inbox = [s \in Submission |-> NoAnswers]
    /\ visit = [v \in Visitor |-> Away]
    /\ today = 0
    /\ pass = [d \in 0 .. LastDay |-> [state |-> "none", clock |-> 0]]
    /\ changesLeft = Changes

----------------------------------------------------------------------------
(* Visitors.                                                               *)

\* submit: reads the form by its slug, and checks the answers against its fields.
Submit(v, s, answers) ==
    /\ visit[v].pc = "away" /\ inbox[s].phase = "none"
    /\ \A w \in Visitor : visit[w].pc # "away" => visit[w].s # s
    /\ form.phase = "live" /\ form.open
    /\ Fits(answers, form.fields)
    /\ visit' = [visit EXCEPT ![v] = [pc |-> "checked", s |-> s, answers |-> answers,
                                      born |-> today]]
    /\ UNCHANGED <<form, inbox, today, pass, changesLeft>>

\* The row's reference to the form holds at its insertion; created_at is the transaction's start.
InsertSubmission(v) ==
    LET r == visit[v]
    IN  /\ r.pc = "checked"
        /\ inbox' = IF form.phase = "gone" THEN inbox
                    ELSE [inbox EXCEPT ![r.s] = [phase |-> "live", answers |-> r.answers,
                                                 born |-> r.born, seen |-> FALSE]]
        /\ visit' = [visit EXCEPT ![v] = Away]
        /\ UNCHANGED <<form, today, pass, changesLeft>>

----------------------------------------------------------------------------
(* Operators.                                                              *)

Change == changesLeft > 0 /\ changesLeft' = changesLeft - 1

\* update, and an input without any change is only a read.
UpdateForm(fields, open, kept) ==
    /\ Change /\ form.phase = "live"
    /\ ValidFields(fields)
    /\ form' = [form EXCEPT !.fields = fields, !.open = open, !.kept = kept]
    /\ form' # form
    /\ UNCHANGED <<inbox, visit, today, pass>>

DeleteForm ==
    /\ Change /\ form.phase = "live"
    /\ form' = [form EXCEPT !.phase = "trash"]
    /\ UNCHANGED <<inbox, visit, today, pass>>

RestoreForm ==
    /\ Change /\ form.phase = "trash"
    /\ form' = [form EXCEPT !.phase = "live"]
    /\ UNCHANGED <<inbox, visit, today, pass>>

\* The purge of the form deletes its submissions with it.
PurgeForm ==
    /\ form.phase = "trash"
    /\ form' = [form EXCEPT !.phase = "gone"]
    /\ inbox' = [s \in Submission |-> IF inbox[s].phase = "none" THEN inbox[s]
                                      ELSE [NoAnswers EXCEPT !.phase = "purged"]]
    /\ UNCHANGED <<visit, today, pass, changesLeft>>

Redacted(row) == [row EXCEPT !.phase = "deleted", !.answers = <<>>]

DeleteSubmission(s) ==
    /\ Change /\ inbox[s].phase = "live"
    /\ inbox' = [inbox EXCEPT ![s] = Redacted(@)]
    /\ UNCHANGED <<form, visit, today, pass>>

\* mark_read: every row that is there by then is marked, listed to the operator or not.
MarkRead ==
    /\ Change /\ form.phase = "live"
    /\ inbox' = [s \in Submission |-> IF inbox[s].phase = "live" THEN [inbox[s] EXCEPT !.seen = TRUE]
                                      ELSE inbox[s]]
    /\ UNCHANGED <<form, visit, today, pass>>

----------------------------------------------------------------------------
(* Retention.                                                              *)

\* One job for a day: its key is the day's bucket.
EnqueueRetentionJob ==
    /\ pass[today].state = "none"
    /\ pass' = [pass EXCEPT ![today].state = "queued"]
    /\ UNCHANGED <<form, inbox, visit, today, changesLeft>>

\* A worker may come to it, or come to it again, on a later day, and prunes by its own clock.
StartPass(d) ==
    /\ pass[d].state \in {"queued", "running"}
    /\ pass' = [pass EXCEPT ![d] = [state |-> "running", clock |-> today]]
    /\ UNCHANGED <<form, inbox, visit, today, changesLeft>>

\* A bug: the pass as the inbox, which does not show what a form in the trash has.
ExpiredInSight(s, clock) ==
    form.phase = "live" /\ inbox[s].phase = "live" /\ inbox[s].born < clock - form.kept

Expired(s, clock) == inbox[s].phase = "live" /\ inbox[s].born < clock - form.kept

PruneExpiredSubmissions(d) ==
    /\ pass[d].state = "running"
    /\ inbox' = [s \in Submission |-> IF Expired(s, pass[d].clock) THEN Redacted(inbox[s])
                                      ELSE inbox[s]]
    /\ pass' = [pass EXCEPT ![d] = [state |-> "completed", clock |-> 0]]
    /\ UNCHANGED <<form, visit, today, changesLeft>>

\* A transaction of a visitor lasts less than a day.
NextDay ==
    /\ today < LastDay
    /\ \A v \in Visitor : visit[v].pc = "away" \/ visit[v].born = today
    /\ today' = today + 1
    /\ UNCHANGED <<form, inbox, visit, pass, changesLeft>>

Next ==
    \/ \E v \in Visitor : \/ \E s \in Submission, a \in Answers : Submit(v, s, a)
                          \/ InsertSubmission(v)
    \/ \E fields \in Asked, open \in BOOLEAN, kept \in Days : UpdateForm(fields, open, kept)
    \/ DeleteForm \/ RestoreForm \/ PurgeForm \/ MarkRead
    \/ \E s \in Submission : DeleteSubmission(s)
    \/ EnqueueRetentionJob \/ NextDay
    \/ \E d \in 0 .. LastDay : StartPass(d) \/ PruneExpiredSubmissions(d)

Spec == Init /\ [][Next]_vars

----------------------------------------------------------------------------
TypeOK ==
    /\ form \in [phase : {"live", "trash", "gone"}, open : BOOLEAN, fields : Fields, kept : Days]
    /\ inbox \in [Submission -> [phase : {"none", "live", "deleted", "purged"},
                                 answers : Answers \cup {<<>>}, born : 0 .. LastDay, seen : BOOLEAN]]
    /\ today \in 0 .. LastDay
    /\ changesLeft \in 0 .. Changes

Answered(s) == inbox[s].answers # <<>>

\* What was redacted or purged has no answers again, whatever is restored.
AnswersStayAway == \A s \in Submission : inbox[s].phase \notin {"none", "live"} => ~Answered(s)'

\* A purged form has no inbox, though a visitor read it before the purge.
NothingOutlives == form.phase = "gone" => \A s \in Submission : ~Answered(s)'

\* When a pass of today's clock ends, nothing is older than the form keeps, in the trash or not.
PassLeavesNothingOld ==
    \A d \in 0 .. LastDay :
        pass[d].state = "running" /\ pass'[d].state = "completed" /\ pass[d].clock = today
        => \A s \in Submission : Answered(s)' => today - inbox'[s].born <= form.kept

(* Answers are kept for as long as the form says: a pass leaves none that  *)
(* are older, a submission that was under way is not kept past its form's  *)
(* purge, and what was redacted does not come back with a restored form.   *)
AnswersAreKeptInTime == [][AnswersStayAway /\ NothingOutlives /\ PassLeavesNothingOld]_vars

(* A form that does not take submissions gets none.  Not so: one that was  *)
(* read before the form was closed or trashed is inserted after it.        *)
ClosedIsClosed ==
    [][\A s \in Submission : ~Answered(s) /\ Answered(s)' => form.open /\ form.phase = "live"]_vars

(* Answers fit the fields the form has when they come in.  Not so either.  *)
AnswersFit ==
    [][\A s \in Submission : ~Answered(s) /\ Answered(s)' => Fits(inbox'[s].answers, form.fields)]_vars
===============================================================================
