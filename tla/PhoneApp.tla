------------------------------- MODULE PhoneApp -------------------------------
(***************************************************************************)
(* The phone application.  Its activities, its card service and what its    *)
(* background tasks post back run on one thread, one handler after the      *)
(* other; the tasks themselves run one at a time, in the order in which     *)
(* they were started, whichever activity has started them.  The account is  *)
(* kept twice: in the preferences, which last, and in AccountStorage.       *)
(* The process may be killed at any time, between two commits as well.      *)
(***************************************************************************)
EXTENDS Naturals, Sequences, FiniteSets, SequencesExt

CONSTANTS
  Names,          (* the cruzIDs people log in with                         *)
  Nobody,         (* null, and what an empty list shows                     *)
  Instances,      (* activity objects that may exist, or be waited for      *)
  MaxDepth,       (* BOUND: activities on the back stack                    *)
  MaxTasks        (* BOUND: background tasks that have not been posted      *)

ASSUME PhoneAssumption ==
  /\ Nobody \notin Names
  /\ MaxDepth \in Nat /\ MaxTasks \in Nat

VARIABLES
  prefs,          (* the shared preferences                                 *)
  sAccount,       (* AccountStorage.sAccount                                *)
  stack,          (* the activities, the visible one last                   *)
  queue,          (* the tasks that have been executed, the running one first *)
  posts,          (* finished tasks whose onPostExecute is still to run     *)
  hung,           (* the running task waits for a server that never answers *)
  torn            (* history: the process was killed between two commits    *)

accountVars == <<prefs, sAccount, torn>>
phoneVars == <<accountVars, stack, queue, posts, hung>>

-----------------------------------------------------------------------------
(* What an activity holds: LabsActivity the rooms, and RoomLogActivity the  *)
(* visits, of somebody; LoginActivity, mAuthTask.                          *)
Activity == [id : Instances, kind : {"labs", "login", "log"},
             shows : Names \cup {Nobody}, mAuthTask : BOOLEAN]

Task == [kind : {"login", "rooms", "logs"}, user : Names \cup {Nobody}, owner : Instances]

Top == Last(stack)
Visible(kind) == stack # << >> /\ Top.kind = kind

(* BOUND: objects that are neither on the stack nor waited for by a task.   *)
Free == Instances \ ({a.id : a \in Range(stack)} \cup {t.owner : t \in Range(queue \o posts)})
RoomFor(n) == Cardinality(Free) >= n

(* Which object it is makes no difference.                                  *)
Object == CHOOSE i \in Free : TRUE
OtherObject == CHOOSE i \in Free \ {Object} : TRUE

New(i, kind) == [id |-> i, kind |-> kind, shows |-> Nobody, mAuthTask |-> FALSE]

Room(n) == Len(queue) + Len(posts) + n <= MaxTasks

(* AccountStorage.getAccount, which also remembers what it returns. *)
GetAccount == IF sAccount = Nobody THEN prefs.cruzId ELSE sAccount

(* LabsActivity.onResume and refresh: the task asks for the user that the   *)
(* preferences name now.                                                   *)
Fetch(i) == IF prefs.cruzId = Nobody
            THEN << >> ELSE <<[kind |-> "rooms", user |-> prefs.cruzId, owner |-> i]>>

Dies ==
  /\ sAccount' = Nobody
  /\ stack' = << >>
  /\ queue' = << >>
  /\ posts' = << >>
  /\ hung' = FALSE

-----------------------------------------------------------------------------
(* LabsActivity.onCreate and onResume: without a login the form is put over *)
(* the list, which is resumed all the same.                                *)
Create(below) ==
  /\ RoomFor(2)
  /\ stack' = below \o <<New(Object, "labs")>>
                    \o (IF prefs.LoggedIn THEN << >> ELSE <<New(OtherObject, "login")>>)
  /\ queue' = queue \o Fetch(Object)

Launch ==
  /\ stack = << >>
  /\ Room(1)
  /\ Create(<< >>)
  /\ UNCHANGED <<accountVars, posts, hung>>

(* RoomLogActivity.onCreate *)
OpensLog(below) ==
  /\ stack' = Append(below, New(Object, "log"))
  /\ queue' = Append(queue, [kind |-> "logs", user |-> GetAccount, owner |-> Object])

(* Turning the phone replaces an activity, when it is visible, by a new     *)
(* object; a task that the old one waits for goes on, and reports to it.   *)
Recreate(s) ==
  /\ s # << >>
  /\ RoomFor(1)
  /\ CASE Last(s).kind = "labs"  -> Len(s) < MaxDepth /\ Create(Front(s))
       [] Last(s).kind = "login" -> stack' = Append(Front(s), New(Object, "login")) /\ UNCHANGED queue
       [] Last(s).kind = "log"   -> OpensLog(Front(s))
  /\ sAccount' = IF Last(s).kind = "log" THEN GetAccount ELSE sAccount

Rotate ==
  /\ Room(1)
  /\ Recreate(stack)
  /\ UNCHANGED <<prefs, torn, posts, hung>>

(* What is uncovered is resumed, or created anew if the phone was turned    *)
(* meanwhile.                                                              *)
Resume(s) ==
  /\ stack' = s
  /\ queue' = IF s # << >> /\ Last(s).kind = "labs" THEN queue \o Fetch(Last(s).id) ELSE queue
  /\ UNCHANGED sAccount

Uncover(s) == Resume(s) \/ Recreate(s)

Back ==
  /\ stack # << >>
  /\ Room(1)
  /\ Uncover(Front(stack))
  /\ UNCHANGED <<prefs, torn, posts, hung>>

(* The menu entry, or leaving the application and coming back to it. *)
Refresh ==
  /\ Visible("labs")
  /\ Room(1)
  /\ queue' = queue \o Fetch(Top.id)
  /\ UNCHANGED <<accountVars, stack, posts, hung>>

(* LabsActivity.onItemClick *)
OpenLog ==
  /\ Visible("labs")
  /\ Top.shows # Nobody
  /\ Len(stack) < MaxDepth
  /\ Room(1)
  /\ RoomFor(1)
  /\ OpensLog(stack)
  /\ sAccount' = GetAccount
  /\ UNCHANGED <<prefs, torn, posts, hung>>

-----------------------------------------------------------------------------
(* attemptLogin: the account is stored at once; what the task started       *)
(* before that finds out decides only when the form closes.                *)
AttemptLogin(name) ==
  /\ Visible("login")
  /\ ~Top.mAuthTask
  /\ Room(1)
  /\ stack' = Append(Front(stack), [Top EXCEPT !.mAuthTask = TRUE])
  /\ queue' = Append(queue, [kind |-> "login", user |-> name, owner |-> Top.id])
  /\ prefs' = [LoggedIn |-> TRUE, cruzId |-> name]
  /\ sAccount' = name
  /\ torn' = FALSE
  /\ UNCHANGED <<posts, hung>>

(* Mutant: the object in memory keeps the account.                          *)
LogoutKeepsCache ==
  /\ Visible("labs")
  /\ Len(stack) < MaxDepth
  /\ prefs' = [LoggedIn |-> FALSE, cruzId |-> Nobody]
  /\ UNCHANGED sAccount
  /\ torn' = FALSE
  /\ RoomFor(1)
  /\ stack' = Front(stack) \o <<[Top EXCEPT !.shows = Nobody], New(Object, "login")>>
  /\ UNCHANGED <<queue, posts, hung>>

(* The list is emptied, and the form put over it. *)
Logout ==
  /\ Visible("labs")
  /\ Len(stack) < MaxDepth
  /\ prefs' = [LoggedIn |-> FALSE, cruzId |-> Nobody]
  /\ sAccount' = Nobody
  /\ torn' = FALSE
  /\ RoomFor(1)
  /\ stack' = Front(stack) \o <<[Top EXCEPT !.shows = Nobody], New(Object, "login")>>
  /\ UNCHANGED <<queue, posts, hung>>

RootedInForm == IF stack = << >> THEN FALSE ELSE Head(stack).kind = "login"

(* CardService: a lock asks.  Without an account a login form is opened, on *)
(* top of what there is unless a form is all there is.                     *)
Card ==
  /\ sAccount' = GetAccount
  /\ IF GetAccount # Nobody \/ RootedInForm
     THEN UNCHANGED stack
     ELSE /\ Len(stack) < MaxDepth /\ RoomFor(1)
          /\ stack' = Append(stack, New(Object, "login"))
  /\ UNCHANGED <<prefs, torn, queue, posts, hung>>

-----------------------------------------------------------------------------
(* Mutant: without an answer there is no list, not even an empty one.       *)
FoundOrNull(t) == IF t.kind = "login" THEN {t.user} ELSE {t.user, "null"}

(* What a task has found: a fetch that fails gives an empty list. *)
Found(t) == IF t.kind = "login" THEN {t.user} ELSE {t.user, Nobody}

(* Mutant: the tasks run side by side.                                      *)
RunnableAny == 1..Len(queue)

Runnable == {n \in 1..Len(queue) : n = 1}

(* doInBackground *)
Work ==
  /\ ~hung
  /\ \E n \in Runnable :
       /\ queue' = RemoveAt(queue, n)
       /\ \E user \in Found(queue[n]) : posts' = Append(posts, [queue[n] EXCEPT !.user = user])
  /\ UNCHANGED <<accountVars, stack, hung>>

(* No timeout is set on the connection. *)
Hang ==
  /\ queue # << >>
  /\ Head(queue).kind # "login"
  /\ hung' = TRUE
  /\ UNCHANGED <<accountVars, stack, queue, posts>>

Deliver(t) ==
  /\ stack' = [n \in DOMAIN stack |->
                 IF stack[n].id = t.owner THEN [stack[n] EXCEPT !.shows = t.user] ELSE stack[n]]
  /\ UNCHANGED <<queue, sAccount>>

(* The stack without the object i, wherever it is, if it still is there.    *)
Without(i) ==
  IF \E n \in DOMAIN stack : stack[n].id = i
  THEN RemoveAt(stack, CHOOSE n \in DOMAIN stack : stack[n].id = i)
  ELSE stack

FinishForm(t) ==
  LET left == Without(t.owner)
  IN  IF stack # << >> /\ Top.id = t.owner
      THEN Uncover(left)
      ELSE stack' = left /\ UNCHANGED <<queue, sAccount>>

(* Mutant: the form stays, and remembers its task.                         *)
PostUnreset ==
  /\ posts # << >>
  /\ posts' = Tail(posts)
  /\ Head(posts).kind # "login" => Deliver(Head(posts))
  /\ Head(posts).kind = "login" => UNCHANGED <<stack, queue, sAccount>>
  /\ UNCHANGED <<prefs, torn, hung>>

(* onPostExecute: a list replaces the one its activity holds; a login form  *)
(* is finished, wherever on the stack it is.  An activity that is gone does *)
(* nothing any more.                                                       *)
Post ==
  /\ posts # << >>
  /\ posts' = Tail(posts)
  /\ IF Head(posts).kind = "login" THEN FinishForm(Head(posts)) ELSE Deliver(Head(posts))
  /\ UNCHANGED <<prefs, torn, hung>>

-----------------------------------------------------------------------------
Kill == Dies /\ UNCHANGED <<prefs, torn>>

(* LoggedIn is committed, the account is not. *)
KilledBetween ==
  /\ \/ /\ Visible("login") /\ ~Top.mAuthTask
        /\ prefs' = [prefs EXCEPT !.LoggedIn = TRUE]
     \/ /\ Visible("labs")
        /\ prefs' = [prefs EXCEPT !.LoggedIn = FALSE]
  /\ torn' = TRUE
  /\ Dies

-----------------------------------------------------------------------------
PhoneInit ==
  /\ prefs = [LoggedIn |-> FALSE, cruzId |-> Nobody]
  /\ sAccount = Nobody
  /\ stack = << >>
  /\ queue = << >>
  /\ posts = << >>
  /\ hung = FALSE
  /\ torn = FALSE

Person ==
  \/ Launch \/ Rotate \/ Back \/ Refresh \/ OpenLog
  \/ \E name \in Names : AttemptLogin(name)
  \/ Logout \/ Card

PhoneNext == Person \/ Work \/ Hang \/ Post \/ Kill \/ KilledBetween

(* The executor's thread and the main thread run; nobody has to touch the   *)
(* phone, and no server has to answer.                                     *)
PhoneSpec ==
  PhoneInit /\ [][PhoneNext]_phoneVars /\ WF_phoneVars(Work) /\ WF_phoneVars(Post)

-----------------------------------------------------------------------------
(* Properties. *)

(* The variables keep their types, and no object is on the stack twice.     *)
PhoneTypeOK ==
  /\ prefs \in [LoggedIn : BOOLEAN, cruzId : Names \cup {Nobody}]
  /\ sAccount \in Names \cup {Nobody}
  /\ stack \in Seq(Activity)
  /\ \A m, n \in DOMAIN stack : stack[m].id = stack[n].id => m = n
  /\ queue \in Seq(Task) /\ posts \in Seq(Task)
  /\ hung \in BOOLEAN /\ torn \in BOOLEAN

(* The phone has one identity: what the card service answers a lock with is *)
(* what the preferences say, through every restart; and there is somebody   *)
(* to answer for exactly if the application takes its user as logged in,    *)
(* unless it was killed between the two commits of a login or logout.       *)
OneIdentity ==
  /\ sAccount # Nobody => sAccount = prefs.cruzId
  /\ ~torn => (prefs.LoggedIn <=> prefs.cruzId # Nobody)

(* Fetches for a former user may still be under way when another logs in,   *)
(* and overwrite the list; but since the tasks run in order, what is left   *)
(* when all have reported is the list of the present user, or none.         *)
RoomsSettle ==
  queue = << >> /\ posts = << >> /\ Visible("labs") /\ prefs.cruzId # Nobody =>
    Top.shows \in {prefs.cruzId, Nobody}

(* A login form does not wait for ever: it closes, or is replaced by a      *)
(* fresh one, unless a fetch started before it never gets its answer.       *)
Waiting(i) == \E a \in Range(stack) : a.id = i /\ a.mAuthTask

FormsClose == \A i \in Instances : Waiting(i) ~> (~Waiting(i) \/ hung)
=============================================================================
