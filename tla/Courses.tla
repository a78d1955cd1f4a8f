------------------------------- MODULE Courses -------------------------------
(***************************************************************************)
(* A course of mavi-courses with its modules and lessons, the students in  *)
(* it, their invitations, sessions and progress, and its instructors.      *)
(* Whoever edits the curriculum or enrols a student locks the course; a    *)
(* student's row is locked by what changes it; sign-ins, completions and   *)
(* instructors read without a lock and write in a later statement.         *)
(***************************************************************************)
EXTENDS Integers, FiniteSets

CONSTANTS
    Module, Lesson, Student, Instructor, Client,
    Grants,          \* sets of an instructor's grants
    CourseRequests   \* bound on requests

CoursesAssumption == {} \notin Grants /\ CourseRequests \in Nat

VARIABLES
    course,       \* its state, and whether it is in the trash
    module,       \* phase and position
    lesson,       \* phase, module, position, text
    student,      \* phase, standing, and the invitation that works (0: none)
    signed,       \* live sessions, by student
    enrolled, progress, instructor,
    class,        \* requests under way
    toCome        \* requests left

curriculum == <<module, lesson>>
learners   == <<student, signed, enrolled, progress, instructor>>
vars == <<course, module, lesson, student, signed, enrolled, progress, instructor, class, toCome>>

None == [pc |-> "idle"]
Text == {0, 1}
First(S) == CHOOSE x \in S : TRUE

\* A course with a lesson.
Init ==
    /\ course \in [state : {"draft", "open"}, phase : {"live"}]
    /\ module = [m \in Module |-> [phase |-> IF m = First(Module) THEN "live" ELSE "none", pos |-> 0]]
    /\ lesson = [l \in Lesson |-> [phase |-> IF l = First(Lesson) THEN "live" ELSE "none",
                                   in |-> First(Module), pos |-> 0, text |-> 0]]
    /\ \E standing \in {"asked", "learning"} :
          student = [s \in Student |-> [phase |-> "live", standing |-> standing,
                                        invited |-> IF standing = "asked" THEN 1 ELSE 0]]
    /\ signed = {} /\ enrolled = {} /\ progress = {}
    /\ instructor = [i \in Instructor |-> {}]
    /\ class = [c \in Client |-> None]
    /\ toCome = CourseRequests

Take(c, r) == class' = [class EXCEPT ![c] = r]
Done(c)    == Take(c, None)
Begin(c)   == class[c].pc = "idle" /\ toCome > 0 /\ toCome' = toCome - 1
Within     == UNCHANGED toCome

----------------------------------------------------------------------------
(* The course.                                                             *)

\* A bug: the course is read without its lock.
CourseRead(c) == c \in Client

CourseFree(c) == \A d \in Client \ {c} : class[d].pc \notin {"editing", "enrolling"}

ValidStateTransition(from, to) == <<from, to>> \in {<<"draft", "open">>, <<"open", "closed">>}

UpdateCourse(c, state) ==
    /\ Begin(c) /\ CourseFree(c) /\ course.phase = "live"
    /\ ValidStateTransition(course.state, state)
    /\ course' = [course EXCEPT !.state = state]
    /\ UNCHANGED <<curriculum, learners, class>>

DeleteCourse(c) ==
    /\ Begin(c) /\ CourseFree(c) /\ course.phase = "live"
    /\ course' = [course EXCEPT !.phase = "trash"]
    /\ UNCHANGED <<curriculum, learners, class>>

RestoreCourse(c) ==
    /\ Begin(c) /\ CourseFree(c) /\ course.phase = "trash"
    /\ course' = [course EXCEPT !.phase = "live"]
    /\ UNCHANGED <<curriculum, learners, class>>

\* With all that refers to it.
PurgeCourse(c) ==
    /\ Begin(c) /\ CourseFree(c) /\ course.phase = "trash"
    /\ course' = [course EXCEPT !.phase = "gone"]
    /\ module' = [m \in Module |-> [module[m] EXCEPT !.phase = "gone"]]
    /\ lesson' = [l \in Lesson |-> [lesson[l] EXCEPT !.phase = "gone"]]
    /\ enrolled' = {} /\ progress' = {}
    /\ instructor' = [i \in Instructor |-> {}]
    /\ UNCHANGED <<student, signed, class>>

\* ensure_course_editable; the module or lesson is read again under the lock.
EnsureCourseEditable(c) ==
    /\ Begin(c) /\ CourseFree(c)
    /\ course.phase = "live" /\ course.state # "closed"
    /\ Take(c, [pc |-> "editing"])
    /\ UNCHANGED <<course, curriculum, learners>>

Editing(c) == class[c].pc = "editing" /\ Within /\ Done(c) /\ UNCHANGED <<course, student, signed, instructor>>

Behind(places) == IF places = {} THEN 0 ELSE (CHOOSE p \in places : \A q \in places : q <= p) + 1

There    == {m \in Module : module[m].phase = "live"}
InIt(m)  == {l \in Lesson : lesson[l].phase = "live" /\ lesson[l].in = m}
Orders(S) == {f \in [S -> 0 .. Cardinality(S) - 1] : \A x, y \in S : f[x] = f[y] => x = y}

CreateModule(c, m) ==
    /\ Editing(c) /\ module[m].phase = "none"
    /\ module' = [module EXCEPT ![m] = [phase |-> "live", pos |-> Behind({module[n].pos : n \in There})]]
    /\ UNCHANGED <<lesson, enrolled, progress>>

DeleteModule(c, m) ==
    /\ Editing(c) /\ m \in There
    /\ module' = [module EXCEPT ![m].phase = "gone"]
    /\ lesson' = [l \in Lesson |-> IF l \in InIt(m) THEN [lesson[l] EXCEPT !.phase = "gone"] ELSE lesson[l]]
    /\ progress' = {p \in progress : p[2] \notin InIt(m)}
    /\ UNCHANGED enrolled

ReorderModules(c) ==
    /\ Editing(c)
    /\ \E order \in Orders(There) :
          module' = [m \in Module |-> IF m \in There THEN [module[m] EXCEPT !.pos = order[m]] ELSE module[m]]
    /\ UNCHANGED <<lesson, enrolled, progress>>

CreateLesson(c, m, l) ==
    /\ Editing(c) /\ m \in There /\ lesson[l].phase = "none"
    /\ lesson' = [lesson EXCEPT ![l] = [phase |-> "live", in |-> m, text |-> 0,
                                       pos |-> Behind({lesson[k].pos : k \in InIt(m)})]]
    /\ UNCHANGED <<module, enrolled, progress>>

\* Also update_module: a title, or a body.
UpdateLesson(c, l) ==
    /\ Editing(c) /\ lesson[l].phase = "live"
    /\ lesson' = [lesson EXCEPT ![l].text = 1 - @]
    /\ UNCHANGED <<module, enrolled, progress>>

DeleteLesson(c, l) ==
    /\ Editing(c) /\ lesson[l].phase = "live"
    /\ lesson' = [lesson EXCEPT ![l].phase = "gone"]
    /\ progress' = {p \in progress : p[2] # l}
    /\ UNCHANGED <<module, enrolled>>

ReorderLessons(c, m) ==
    /\ Editing(c) /\ m \in There
    /\ \E order \in Orders(InIt(m)) :
          lesson' = [l \in Lesson |-> IF l \in InIt(m) THEN [lesson[l] EXCEPT !.pos = order[l]] ELSE lesson[l]]
    /\ UNCHANGED <<module, enrolled, progress>>

----------------------------------------------------------------------------
(* Instructors.                                                            *)

EnsureCourse(c, i, grants) ==
    /\ Begin(c) /\ course.phase = "live"
    /\ Take(c, [pc |-> "naming", i |-> i, grants |-> grants])
    /\ UNCHANGED <<course, curriculum, learners>>

ReplaceInstructor(c) ==
    LET r == class[c]
    IN  /\ r.pc = "naming"
        /\ instructor' = IF course.phase = "gone" THEN instructor
                         ELSE [instructor EXCEPT ![r.i] = r.grants]
        /\ Done(c) /\ Within
        /\ UNCHANGED <<course, curriculum, student, signed, enrolled, progress>>

RemoveInstructor(c, i) ==
    /\ Begin(c) /\ course.phase = "live" /\ instructor[i] # {}
    /\ instructor' = [instructor EXCEPT ![i] = {}]
    /\ UNCHANGED <<course, curriculum, student, signed, enrolled, progress, class>>

----------------------------------------------------------------------------
(* Students.                                                               *)

\* A student's row is locked only by requests of one step here.
OnStudent(c, s) == Begin(c) /\ student[s].phase = "live" /\ UNCHANGED <<course, curriculum, progress, instructor, class>>

ReissueInvitation(c, s) ==
    /\ OnStudent(c, s) /\ student[s].standing = "asked"
    /\ student' = [student EXCEPT ![s].invited = @ + 1]
    /\ UNCHANGED <<signed, enrolled>>

ActivateStudent(c, s, invitation) ==
    /\ OnStudent(c, s) /\ student[s].standing = "asked"
    /\ invitation # 0 /\ invitation = student[s].invited
    /\ student' = [student EXCEPT ![s].standing = "learning", ![s].invited = 0]
    /\ signed' = signed \cup {s}
    /\ UNCHANGED enrolled

UpdateStudent(c, s, standing) ==
    /\ OnStudent(c, s) /\ student[s].standing # "asked"
    /\ student' = [student EXCEPT ![s].standing = standing]
    /\ UNCHANGED <<signed, enrolled>>

\* Its sessions end; its invitation is gone when it is restored.
DeleteStudent(c, s) ==
    /\ OnStudent(c, s)
    /\ student' = [student EXCEPT ![s].phase = "trash", ![s].invited = 0]
    /\ signed' = signed \ {s}
    /\ UNCHANGED enrolled

RestoreStudent(c, s) ==
    /\ Begin(c) /\ student[s].phase = "trash"
    /\ student' = [student EXCEPT ![s].phase = "live"]
    /\ UNCHANGED <<course, curriculum, signed, enrolled, progress, instructor, class>>

PurgeStudent(c, s) ==
    /\ Begin(c) /\ student[s].phase = "trash"
    /\ student' = [student EXCEPT ![s].phase = "gone"]
    /\ signed' = signed \ {s} /\ enrolled' = enrolled \ {s}
    /\ progress' = {p \in progress : p[1] # s}
    /\ UNCHANGED <<course, curriculum, instructor, class>>

LoginStudent(c, s) ==
    /\ Begin(c) /\ student[s].phase = "live" /\ student[s].standing = "learning"
    /\ Take(c, [pc |-> "signing", s |-> s])
    /\ UNCHANGED <<course, curriculum, learners>>

CreateSession(c) ==
    /\ class[c].pc = "signing"
    /\ signed' = IF student[class[c].s].phase = "gone" THEN signed ELSE signed \cup {class[c].s}
    /\ Done(c) /\ Within
    /\ UNCHANGED <<course, curriculum, student, enrolled, progress, instructor>>

LogoutStudent(c, s) ==
    /\ OnStudent(c, s) /\ s \in signed
    /\ signed' = signed \ {s}
    /\ UNCHANGED <<student, enrolled>>

----------------------------------------------------------------------------
(* Enrolment and progress.                                                 *)

\* ensure_course_open
EnsureCourseOpen(c, s) ==
    /\ Begin(c) /\ CourseFree(c) /\ course.phase = "live" /\ course.state = "open"
    /\ Take(c, [pc |-> "enrolling", s |-> s])
    /\ UNCHANGED <<course, curriculum, learners>>

Enroll(c) ==
    LET s == class[c].s
    IN  /\ class[c].pc = "enrolling"
        /\ enrolled' = IF student[s].phase = "live" /\ student[s].standing = "learning"
                       THEN enrolled \cup {s} ELSE enrolled
        /\ Done(c) /\ Within
        /\ UNCHANGED <<course, curriculum, student, signed, progress, instructor>>

Unenroll(c, s) ==
    /\ Begin(c) /\ s \in enrolled
    /\ enrolled' = enrolled \ {s}
    /\ UNCHANGED <<course, curriculum, student, signed, progress, instructor, class>>

\* complete_lesson for a student that authenticate_student let in.
CanLearn(s, l) ==
    /\ s \in signed /\ s \in enrolled
    /\ student[s].phase = "live" /\ student[s].standing = "learning"
    /\ course.phase = "live" /\ course.state = "open" /\ lesson[l].phase = "live"

GetLearningLesson(c, s, l) ==
    /\ Begin(c) /\ CanLearn(s, l)
    /\ Take(c, [pc |-> "learning", s |-> s, l |-> l])
    /\ UNCHANGED <<course, curriculum, learners>>

\* The row refers to the student and to the lesson.
CompleteLesson(c) ==
    LET r == class[c]
    IN  /\ r.pc = "learning"
        /\ progress' = IF student[r.s].phase # "gone" /\ lesson[r.l].phase = "live"
                       THEN progress \cup {<<r.s, r.l>>} ELSE progress
        /\ Done(c) /\ Within
        /\ UNCHANGED <<course, curriculum, student, signed, enrolled, instructor>>

Next == \E c \in Client :
    \/ \E state \in {"open", "closed"} : UpdateCourse(c, state)
    \/ DeleteCourse(c) \/ RestoreCourse(c) \/ PurgeCourse(c) \/ EnsureCourseEditable(c)
    \/ \E m \in Module : \/ CreateModule(c, m) \/ DeleteModule(c, m) \/ ReorderLessons(c, m)
                         \/ \E l \in Lesson : CreateLesson(c, m, l)
    \/ ReorderModules(c) \/ \E l \in Lesson : UpdateLesson(c, l) \/ DeleteLesson(c, l)
    \/ \E i \in Instructor : RemoveInstructor(c, i) \/ \E g \in Grants : EnsureCourse(c, i, g)
    \/ ReplaceInstructor(c) \/ CreateSession(c) \/ Enroll(c) \/ CompleteLesson(c)
    \/ \E s \in Student :
          \/ ReissueInvitation(c, s) \/ DeleteStudent(c, s) \/ RestoreStudent(c, s) \/ PurgeStudent(c, s)
          \/ LoginStudent(c, s) \/ LogoutStudent(c, s) \/ EnsureCourseOpen(c, s) \/ Unenroll(c, s)
          \/ \E n \in {1, 2} : ActivateStudent(c, s, n)
          \/ \E standing \in {"learning", "stopped"} : UpdateStudent(c, s, standing)
          \/ \E l \in Lesson : GetLearningLesson(c, s, l)

Spec == Init /\ [][Next]_vars

----------------------------------------------------------------------------
TypeOK ==
    /\ course \in [state : {"draft", "open", "closed"}, phase : {"live", "trash", "gone"}]
    /\ module \in [Module -> [phase : {"none", "live", "gone"}, pos : Nat]]
    /\ lesson \in [Lesson -> [phase : {"none", "live", "gone"}, in : Module, pos : Nat, text : Text]]
    /\ student \in [Student -> [phase : {"live", "trash", "gone"}, standing : {"asked", "learning", "stopped"},
                                invited : Nat]]
    /\ signed \subseteq Student /\ enrolled \subseteq Student /\ progress \subseteq Student \X Lesson
    /\ instructor \in [Instructor -> Grants \cup {{}}]

\* What is closed, or in the trash, keeps its modules and lessons, and takes nobody.
SettledStays == course.state = "closed" \/ course.phase # "live" =>
    /\ course'.phase # "gone" => UNCHANGED curriculum
    /\ enrolled' \subseteq enrolled

\* A student enters while learning, and is not in the trash.
EntersLearning == \A s \in enrolled' \ enrolled : student[s].phase = "live" /\ student[s].standing = "learning"

\* Progress is with lessons that are there, of students that are there.
ProgressIsOfSomething == \A p \in progress' : student'[p[1]].phase # "gone" /\ lesson'[p[2]].phase = "live"

(* A course that is closed or trashed stays as it was, though editors and  *)
(* enrolments had begun before; nobody enters who is not learning by then; *)
(* and no completion that was under way outlives its lesson or student.    *)
CoursesSettle == [][SettledStays /\ EntersLearning /\ ProgressIsOfSomething]_vars

(* A closed course takes no progress.  Not so: completions take no lock.   *)
ClosedTakesNoProgress ==
    [][course.state = "closed" => progress' \subseteq progress]_vars

(* Progress is recorded for those who are enrolled.  Not so, for the same. *)
ProgressIsOfTheEnrolled ==
    [][\A p \in progress' \ progress : p[1] \in enrolled]_vars
===============================================================================
