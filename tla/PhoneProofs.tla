------------------------------ MODULE PhoneProofs ------------------------------
(***************************************************************************)
(* What a phone answers a lock with, for any number of people, activities   *)
(* and tasks.                                                              *)
(***************************************************************************)
EXTENDS PhoneApp, SequenceTheorems, FiniteSetTheorems, TLAPS

AccountTypes ==
  /\ prefs \in [LoggedIn : BOOLEAN, cruzId : Names \cup {Nobody}]
  /\ sAccount \in Names \cup {Nobody}
  /\ torn \in BOOLEAN

IdentityInv == AccountTypes /\ OneIdentity

(* All that an ordinary step does to the account is to look it up, or to    *)
(* forget what was looked up.                                              *)
LooksUp ==
  /\ UNCHANGED <<prefs, torn>>
  /\ sAccount' \in {sAccount, GetAccount, Nobody}

(* An activity that is resumed takes the account from the preferences. *)
LEMMA ResumingLooksUp ==
  ASSUME NEW s, UNCHANGED <<prefs, torn>>, Uncover(s) \/ Recreate(s)
  PROVE  LooksUp
<1>1. CASE Recreate(s)
  BY <1>1 DEF Recreate, LooksUp
<1>2. CASE Resume(s)
  BY <1>2 DEF Resume, LooksUp
<1> QED
  BY <1>1, <1>2 DEF Uncover

(* A task that ends takes it from there, or leaves it alone. *)
LEMMA PostLooksUp == Post => LooksUp
<1> SUFFICES ASSUME Post PROVE LooksUp
  OBVIOUS
<1> DEFINE t == Head(posts)
<1>1. UNCHANGED <<prefs, torn>> /\ (FinishForm(t) \/ Deliver(t))
  BY DEF Post
<1>2. CASE Deliver(t)
  BY <1>1, <1>2 DEF Deliver, LooksUp
<1>3. CASE FinishForm(t)
  <2> DEFINE left == Without(t.owner)
  <2>1. Uncover(left) \/ UNCHANGED sAccount
    BY <1>3 DEF FinishForm
  <2> HIDE DEF left
  <2>2. CASE Uncover(left)
    BY <1>1, <2>2, ResumingLooksUp
  <2>3. CASE UNCHANGED sAccount
    BY <1>1, <2>3 DEF LooksUp
  <2> QED
    BY <2>1, <2>2, <2>3
<1> QED
  BY <1>1, <1>2, <1>3

(* Taking the account from the preferences keeps the identity. *)
LEMMA LookingUpKeepsIdentity == IdentityInv /\ LooksUp => IdentityInv'
  BY DEF IdentityInv, AccountTypes, OneIdentity, LooksUp, GetAccount

(* Every step of the phone keeps the identity. *)
LEMMA IdentityKept == IdentityInv /\ [PhoneNext]_phoneVars => IdentityInv'
<1> SUFFICES ASSUME IdentityInv, [PhoneNext]_phoneVars PROVE IdentityInv'
  OBVIOUS
<1> USE PhoneAssumption
<1>1. CASE Launch \/ Refresh \/ Work \/ Hang \/ UNCHANGED phoneVars
  <2>1. LooksUp
    BY <1>1 DEF Launch, Refresh, Work, Hang, phoneVars, accountVars, LooksUp
  <2> QED
    BY <2>1, LookingUpKeepsIdentity
<1>2. CASE Rotate \/ Back
  <2>1. UNCHANGED <<prefs, torn>> /\ (Recreate(stack) \/ Uncover(Front(stack)))
    BY <1>2 DEF Rotate, Back
  <2>2. LooksUp
    BY <2>1, ResumingLooksUp
  <2> QED
    BY <2>2, LookingUpKeepsIdentity
<1>3. CASE OpenLog \/ Card
  <2>1. LooksUp
    BY <1>3 DEF OpenLog, Card, LooksUp
  <2> QED
    BY <2>1, LookingUpKeepsIdentity
<1>4. CASE \E name \in Names : AttemptLogin(name)
  <2>1. PICK name \in Names : AttemptLogin(name)
    BY <1>4
  <2> QED
    BY <2>1 DEF AttemptLogin, IdentityInv, AccountTypes, OneIdentity
<1>5. CASE Logout
  BY <1>5 DEF Logout, IdentityInv, AccountTypes, OneIdentity
<1>6. CASE Post
  BY <1>6, PostLooksUp, LookingUpKeepsIdentity
<1>7. CASE Kill
  <2>1. LooksUp
    BY <1>7 DEF Kill, Dies, LooksUp
  <2> QED
    BY <2>1, LookingUpKeepsIdentity
<1>8. CASE KilledBetween
  <2>1. sAccount' = Nobody /\ torn' = TRUE
    BY <1>8 DEF KilledBetween, Dies
  <2>2. prefs' \in [LoggedIn : BOOLEAN, cruzId : Names \cup {Nobody}]
    BY <1>8 DEF KilledBetween, IdentityInv, AccountTypes
  <2> QED
    BY <2>1, <2>2 DEF IdentityInv, AccountTypes, OneIdentity
<1> QED
  BY <1>1, <1>2, <1>3, <1>4, <1>5, <1>6, <1>7, <1>8 DEF PhoneNext, Person

(* A new installation knows nobody. *)
LEMMA IdentityStarts == PhoneInit => IdentityInv
<1> SUFFICES ASSUME PhoneInit PROVE IdentityInv
  OBVIOUS
<1>1. prefs = [LoggedIn |-> FALSE, cruzId |-> Nobody] /\ sAccount = Nobody /\ torn = FALSE
  BY DEF PhoneInit
<1>2. ~prefs.LoggedIn /\ prefs.cruzId = Nobody
  BY <1>1
<1>3. AccountTypes
  BY <1>1 DEF AccountTypes
<1>4. OneIdentity
  BY <1>1, <1>2, Zenon DEF OneIdentity
<1> QED
  BY <1>3, <1>4 DEF IdentityInv

(* What a phone answers a lock with is what its preferences say, and only   *)
(* a kill between two commits makes the two preferences disagree.           *)
THEOREM PhoneHasOneIdentity == PhoneSpec => []OneIdentity
<1>1. IdentityInv => OneIdentity
  BY DEF IdentityInv
<1> QED
  BY <1>1, IdentityStarts, IdentityKept, PTL DEF PhoneSpec

-----------------------------------------------------------------------------
(***************************************************************************)
(* Whose rooms the list shows.  What has been asked for and not shown yet   *)
(* waits in line, the finished tasks first; for the visible list the last   *)
(* task in that line has the last word, or the list itself if there is     *)
(* none.  It names the present user, or nobody.                            *)
(***************************************************************************)

Line == posts \o queue

(* The task t ends by replacing the list that the activity i holds.        *)
IsFor(t, i) == t.owner = i /\ t.kind # "login"

(* When all tasks in line have been posted, the activity i, which shows v   *)
(* now, shows c or nobody.                                                 *)
SettlesOn(tasks, i, v, c) ==
  /\ \A n \in DOMAIN tasks :
       /\ IsFor(tasks[n], i)
       /\ \A m \in DOMAIN tasks : m > n => ~IsFor(tasks[m], i)
       => tasks[n].user \in {c, Nobody}
  /\ (\A n \in DOMAIN tasks : ~IsFor(tasks[n], i)) => v \in {c, Nobody}

RoomsInv ==
  Visible("labs") /\ prefs.cruzId # Nobody =>
    SettlesOn(Line, Top.id, Top.shows, prefs.cruzId)

-----------------------------------------------------------------------------
(* A task for the present user that joins the line has the last word ...    *)
LEMMA LastWord ==
  ASSUME NEW tasks \in Seq(Task), NEW t \in Task, NEW i, NEW v, NEW c,
         IsFor(t, i), t.user \in {c, Nobody}
  PROVE  SettlesOn(Append(tasks, t), i, v, c)
<1> DEFINE more == Append(tasks, t)
<1>1. /\ DOMAIN more = 1..(Len(tasks) + 1) /\ Len(tasks) \in Nat
      /\ more[Len(tasks) + 1] = t
      /\ \A n \in 1..Len(tasks) : more[n] = tasks[n]
  BY AppendProperties, LenProperties
<1> HIDE DEF more
<1>2. more[Len(tasks) + 1] = t /\ Len(tasks) + 1 \in DOMAIN more
  BY <1>1
<1>3. ASSUME NEW n \in DOMAIN more, \A m \in DOMAIN more : m > n => ~IsFor(more[m], i)
      PROVE  more[n].user \in {c, Nobody}
  <2>1. n = Len(tasks) + 1
    BY <1>1, <1>2, <1>3
  <2> QED BY <1>2, <2>1
<1> QED BY <1>2, <1>3 DEF SettlesOn, more

(* ... when the first of the line is posted, the list is the one it brings, *)
(* or the one that was there if it is for another activity ...              *)
LEMMA FirstPosted ==
  ASSUME NEW tasks \in Seq(Task), tasks # << >>, NEW i, NEW v, NEW c,
         SettlesOn(tasks, i, v, c)
  PROVE  SettlesOn(Tail(tasks), i, IF IsFor(Head(tasks), i) THEN Head(tasks).user ELSE v, c)
<1> DEFINE rest == Tail(tasks)
           w == IF IsFor(Head(tasks), i) THEN Head(tasks).user ELSE v
<1>1. /\ DOMAIN tasks = 1..Len(tasks) /\ Len(tasks) \in Nat \ {0} /\ Head(tasks) = tasks[1]
      /\ DOMAIN rest = 1..(Len(tasks) - 1)
      /\ \A n \in 1..(Len(tasks) - 1) : rest[n] = tasks[n + 1]
  BY EmptySeq, HeadTailProperties, LenProperties
<1> HIDE DEF rest
<1>2. ASSUME NEW n \in DOMAIN rest, IsFor(rest[n], i),
             \A m \in DOMAIN rest : m > n => ~IsFor(rest[m], i)
      PROVE  rest[n].user \in {c, Nobody}
  <2>1. n + 1 \in DOMAIN tasks /\ rest[n] = tasks[n + 1]
    BY <1>1
  <2>2. ASSUME NEW m \in DOMAIN tasks, m > n + 1 PROVE ~IsFor(tasks[m], i)
    <3>1. m - 1 \in DOMAIN rest /\ m - 1 > n /\ rest[m - 1] = tasks[m]
      BY <1>1, <2>2
    <3> QED BY <1>2, <3>1
  <2> QED BY <1>2, <2>1, <2>2 DEF SettlesOn
<1>3. ASSUME \A n \in DOMAIN rest : ~IsFor(rest[n], i) PROVE w \in {c, Nobody}
  <2>1. ASSUME NEW m \in DOMAIN tasks, m > 1 PROVE ~IsFor(tasks[m], i)
    <3>1. m - 1 \in DOMAIN rest /\ rest[m - 1] = tasks[m]
      BY <1>1, <2>1
    <3> QED BY <1>3, <3>1
  <2>2. 1 \in DOMAIN tasks
    BY <1>1
  <2>3. CASE IsFor(tasks[1], i)
    BY <1>1, <2>1, <2>2, <2>3 DEF SettlesOn
  <2>4. CASE ~IsFor(tasks[1], i)
    <3>1. \A n \in DOMAIN tasks : n = 1 \/ n > 1
      BY <1>1
    <3>2. \A n \in DOMAIN tasks : ~IsFor(tasks[n], i)
      BY <2>1, <2>4, <3>1
    <3> QED BY <1>1, <2>4, <3>2 DEF SettlesOn
  <2> QED BY <2>3, <2>4
<1> HIDE DEF w
<1>4. SettlesOn(rest, i, w, c)
  BY <1>2, <1>3 DEF SettlesOn
<1> QED BY <1>4 DEF w, rest

(* ... and a task that fails brings an empty list.                          *)
LEMMA MayFail ==
  ASSUME NEW tasks \in Seq(Task), NEW same \in Seq(Task), Len(same) = Len(tasks),
         \A n \in 1..Len(tasks) : /\ same[n].owner = tasks[n].owner
                                 /\ same[n].kind = tasks[n].kind
                                 /\ same[n].user \in {tasks[n].user, Nobody},
         NEW i, NEW v, NEW c, SettlesOn(tasks, i, v, c)
  PROVE  SettlesOn(same, i, v, c)
<1>1. DOMAIN tasks = 1..Len(tasks) /\ DOMAIN same = 1..Len(tasks)
  BY LenProperties
<1>2. \A n \in DOMAIN tasks : IsFor(same[n], i) <=> IsFor(tasks[n], i)
  BY <1>1 DEF IsFor
<1> QED BY <1>1, <1>2 DEF SettlesOn

-----------------------------------------------------------------------------
(* Activities, none of them twice ... *)
Stacks(s) ==
  /\ s \in Seq(Activity)
  /\ \A m, n \in DOMAIN s : s[m].id = s[n].id => m = n

(* ... all of them on the stack now. *)
Within(s) ==
  /\ Stacks(s)
  /\ \A n \in DOMAIN s : \E m \in DOMAIN stack : s[n] = stack[m]

Shape ==
  /\ Stacks(stack)
  /\ queue \in Seq(Task) /\ posts \in Seq(Task)
  /\ hung \in BOOLEAN

PhoneInv == IdentityInv /\ Shape /\ RoomsInv

(* There is an object left, or there are two, when there is room for them.  *)
LEMMA ObjectsAreFree ==
  /\ RoomFor(1) \/ RoomFor(2) => Object \in Free
  /\ RoomFor(2) => OtherObject \in Free /\ OtherObject # Object
<1>1. RoomFor(1) \/ RoomFor(2) => Free # {}
  BY FS_EmptySet DEF RoomFor
<1>2. Free # {} => Object \in Free
  BY DEF Object
<1>3. ASSUME RoomFor(2) PROVE Free \ {Object} # {}
  <2>1. Cardinality({Object}) = 1
    BY FS_Singleton
  <2>2. Free # {Object}
    BY <1>3, <2>1 DEF RoomFor
  <2> QED BY <1>1, <1>2, <1>3, <2>2
<1>4. Free \ {Object} # {} => OtherObject \in Free \ {Object}
  BY DEF OtherObject
<1> QED BY <1>1, <1>2, <1>3, <1>4

(* An object that is free is nowhere. *)
LEMMA FreeIsUnused ==
  ASSUME NEW i \in Free
  PROVE  /\ i \in Instances
         /\ \A s : Within(s) => \A n \in DOMAIN s : s[n].id # i
<1>1. \A n \in DOMAIN stack : stack[n].id # i
  BY DEF Free, Range
<1> QED BY <1>1 DEF Free, Within

(* Putting an activity on top of others. *)
LEMMA Pushed ==
  ASSUME NEW s, Stacks(s), NEW a \in Activity, \A n \in DOMAIN s : s[n].id # a.id
  PROVE  /\ Stacks(Append(s, a)) /\ Append(s, a) = s \o <<a>>
         /\ Append(s, a) # << >> /\ Last(Append(s, a)) = a
         /\ \A n \in DOMAIN Append(s, a) :
              Append(s, a)[n] = a \/ (n \in DOMAIN s /\ Append(s, a)[n] = s[n])
<1> DEFINE t == Append(s, a)
<1>1. /\ s \in Seq(Activity) /\ Len(s) \in Nat /\ DOMAIN s = 1..Len(s)
      /\ \A m, n \in DOMAIN s : s[m].id = s[n].id => m = n
  BY LenProperties DEF Stacks
<1>2. /\ t \in Seq(Activity) /\ t # << >> /\ Len(t) = Len(s) + 1
      /\ \A n \in 1..Len(s) : t[n] = s[n]
      /\ t[Len(s) + 1] = a
  BY <1>1, AppendProperties
<1>3. DOMAIN t = 1..(Len(s) + 1)
  BY <1>2, LenProperties
<1>4. t = s \o <<a>>
  BY <1>1, AppendIsConcat
<1> HIDE DEF t
<1>5. \A n \in DOMAIN t : t[n] = a \/ (n \in DOMAIN s /\ t[n] = s[n])
  BY <1>1, <1>2, <1>3
<1>6. \A m, n \in DOMAIN t : t[m].id = t[n].id => m = n
  <2> SUFFICES ASSUME NEW m \in DOMAIN t, NEW n \in DOMAIN t, t[m].id = t[n].id PROVE m = n
    OBVIOUS
  <2>1. CASE m \in 1..Len(s) /\ n \in 1..Len(s)
    BY <1>1, <1>2, <2>1
  <2>2. CASE m = Len(s) + 1 \/ n = Len(s) + 1
    BY <1>1, <1>2, <1>3, <2>2
  <2> QED BY <1>1, <1>3, <2>1, <2>2
<1> QED BY <1>2, <1>4, <1>5, <1>6 DEF Stacks, Last, t

(* What is under the top of activities on the stack is on it as well.       *)
LEMMA FrontIsWithin ==
  ASSUME NEW s, Within(s), s # << >>
  PROVE  Within(Front(s)) /\ Len(Front(s)) = Len(s) - 1
<1> DEFINE t == Front(s)
<1>1. s \in Seq(Activity) /\ Len(s) \in Nat \ {0} /\ DOMAIN s = 1..Len(s)
  BY LenProperties, EmptySeq DEF Within, Stacks
<1>2. \A n \in 1..(Len(s) - 1) : s[n] \in Activity
  BY <1>1, ElementOfSeq
<1>3. /\ t \in Seq(Activity) /\ Len(t) = Len(s) - 1
      /\ \A n \in 1..(Len(s) - 1) : t[n] = s[n]
  BY <1>1, <1>2, SubSeqProperties DEF Front
<1>4. DOMAIN t = 1..(Len(s) - 1)
  BY <1>3, LenProperties
<1> HIDE DEF t
<1>5. \A n \in DOMAIN t : n \in DOMAIN s /\ t[n] = s[n]
  BY <1>1, <1>3, <1>4
<1>6. Within(t)
  BY <1>3, <1>5 DEF Within, Stacks
<1> QED BY <1>3, <1>6 DEF t

(* So is what remains when an activity is finished; and unless it was the   *)
(* top, the top stays where it is.                                         *)
LEMMA WithoutIsWithin ==
  ASSUME Stacks(stack), NEW i
  PROVE  /\ Within(Without(i))
         /\ stack # << >> /\ Top.id # i => Without(i) # << >> /\ Last(Without(i)) = Top
<1>1. /\ stack \in Seq(Activity) /\ Len(stack) \in Nat /\ DOMAIN stack = 1..Len(stack)
      /\ stack # << >> => Len(stack) \in DOMAIN stack
  BY LenProperties, EmptySeq DEF Stacks
<1>2. CASE ~\E n \in DOMAIN stack : stack[n].id = i
  BY <1>2 DEF Without, Within, Top
<1>3. CASE \E n \in DOMAIN stack : stack[n].id = i
  <2> DEFINE t == Without(i)
  <2>1. PICK k \in DOMAIN stack : stack[k].id = i /\ t = RemoveAt(stack, k)
    BY <1>3 DEF Without
  <2>2. \A n \in 1..Len(stack) : stack[n] \in Activity
    BY <1>1, ElementOfSeq
  <2> DEFINE below == SubSeq(stack, 1, k - 1)
             above == SubSeq(stack, k + 1, Len(stack))
  <2>3. /\ below \in Seq(Activity) /\ Len(below) = k - 1
        /\ \A n \in 1..(k - 1) : below[n] = stack[n]
    BY <1>1, <2>2, SubSeqProperties
  <2>4. /\ above \in Seq(Activity) /\ Len(above) = Len(stack) - k
        /\ \A n \in 1..(Len(stack) - k) : above[n] = stack[k + n]
    BY <1>1, <2>2, SubSeqProperties
  <2> HIDE DEF below, above
  <2>5. /\ t \in Seq(Activity) /\ Len(t) = Len(stack) - 1
        /\ \A n \in 1..(Len(stack) - 1) : t[n] = IF n < k THEN stack[n] ELSE stack[n + 1]
    <3>1. t = below \o above
      BY <2>1 DEF RemoveAt, below, above
    <3> HIDE DEF t
    <3>2. /\ t \in Seq(Activity) /\ Len(t) = Len(stack) - 1
          /\ \A n \in 1..(Len(stack) - 1) :
               t[n] = IF n <= k - 1 THEN below[n] ELSE above[n - (k - 1)]
      <4>1. /\ t \in Seq(Activity) /\ Len(t) = Len(below) + Len(above)
            /\ \A n \in 1..(Len(below) + Len(above)) :
                 t[n] = IF n <= Len(below) THEN below[n] ELSE above[n - Len(below)]
        BY <2>3, <2>4, <3>1, ConcatProperties
      <4>2. Len(below) + Len(above) = Len(stack) - 1
        BY <1>1, <2>3, <2>4
      <4> QED BY <2>3, <4>1, <4>2
    <3>3. ASSUME NEW n \in 1..(Len(stack) - 1)
          PROVE  t[n] = IF n < k THEN stack[n] ELSE stack[n + 1]
      <4>1. CASE n < k
        BY <1>1, <2>3, <3>2, <4>1
      <4>2. CASE ~(n < k)
        <5>1. n - (k - 1) \in 1..(Len(stack) - k) /\ k + (n - (k - 1)) = n + 1
          BY <1>1, <4>2
        <5>2. t[n] = above[n - (k - 1)]
          BY <1>1, <3>2, <4>2
        <5> QED BY <2>4, <4>2, <5>1, <5>2
      <4> QED BY <4>1, <4>2
    <3> QED BY <3>2, <3>3
  <2>6. DOMAIN t = 1..(Len(stack) - 1)
    BY <2>5, LenProperties
  <2> HIDE DEF t
  <2>7. \A n \in DOMAIN t : \E m \in DOMAIN stack : t[n] = stack[m] /\ m = IF n < k THEN n ELSE n + 1
    BY <1>1, <2>5, <2>6
  <2>8. \A m, n \in DOMAIN t : t[m].id = t[n].id => m = n
    <3> SUFFICES ASSUME NEW m \in DOMAIN t, NEW n \in DOMAIN t, t[m].id = t[n].id PROVE m = n
      OBVIOUS
    <3>1. PICK p \in DOMAIN stack : t[m] = stack[p] /\ p = IF m < k THEN m ELSE m + 1
      BY <2>7
    <3>2. PICK q \in DOMAIN stack : t[n] = stack[q] /\ q = IF n < k THEN n ELSE n + 1
      BY <2>7
    <3>3. p = q
      BY <3>1, <3>2 DEF Stacks
    <3> QED BY <1>1, <2>6, <3>1, <3>2, <3>3
  <2>9. Within(t)
    BY <2>5, <2>7, <2>8 DEF Within, Stacks
  <2>10. ASSUME stack # << >>, Top.id # i PROVE t # << >> /\ Last(t) = Top
    <3>1. k # Len(stack)
      BY <2>1, <2>10 DEF Top, Last
    <3>2. Len(t) \in 1..(Len(stack) - 1) /\ Len(t) >= k
      BY <1>1, <2>1, <2>5, <3>1
    <3>3. t[Len(t)] = stack[Len(stack)]
      BY <1>1, <2>5, <3>2
    <3>4. t # << >>
      BY <2>5, <3>2, EmptySeq
    <3> QED BY <3>3, <3>4 DEF Last, Top
  <2> QED BY <2>9, <2>10 DEF t
<1> QED BY <1>2, <1>3

-----------------------------------------------------------------------------
(* What a list asks for when it is resumed. *)
AsksFor(i) == [kind |-> "rooms", user |-> prefs.cruzId, owner |-> i]

(* Another activity has come to the top.  If it is a list, and somebody is  *)
(* logged in, it has asked for the rooms of that person.                    *)
Resumed ==
  /\ Stacks(stack')
  /\ queue' \in Seq(Task)
  /\ stack' # << >> /\ Last(stack').kind = "labs" /\ prefs.cruzId # Nobody =>
       AsksFor(Last(stack').id) \in Task /\ queue' = Append(queue, AsksFor(Last(stack').id))

(* What it has asked for has the last word, whatever was asked before.      *)
LEMMA ResumedSettles ==
  ASSUME PhoneInv, Resumed, prefs' = prefs, hung' = hung,
         posts' = posts \/ (posts # << >> /\ posts' = Tail(posts))
  PROVE  Shape' /\ RoomsInv'
<1>1. posts' \in Seq(Task) /\ queue \in Seq(Task)
  BY HeadTailProperties DEF PhoneInv, Shape
<1>2. Shape'
  BY <1>1 DEF PhoneInv, Shape, Resumed, Stacks
<1>3. ASSUME Visible("labs")', prefs'.cruzId # Nobody
      PROVE  SettlesOn(Line', Last(stack').id, Last(stack').shows, prefs.cruzId)
  <2> DEFINE t == AsksFor(Last(stack').id)
  <2>1. t \in Task /\ queue' = Append(queue, t)
    BY <1>3 DEF Resumed, Visible, Top
  <2>2. IsFor(t, Last(stack').id) /\ t.user = prefs.cruzId
    BY DEF IsFor, AsksFor
  <2> HIDE DEF t
  <2>3. Append(queue, t) = queue \o <<t>> /\ <<t>> \in Seq(Task)
    BY <1>1, <2>1, AppendIsConcat
  <2>4. posts' \o queue \in Seq(Task)
    BY <1>1, ConcatProperties
  <2>5. Line' = (posts' \o queue) \o <<t>>
    BY <1>1, <2>1, <2>3, ConcatAssociative DEF Line
  <2>6. Line' = Append(posts' \o queue, t)
    BY <2>1, <2>4, <2>5, AppendIsConcat
  <2> QED BY <2>1, <2>2, <2>4, <2>6, LastWord
<1> QED BY <1>2, <1>3 DEF RoomsInv, Top

(* The task of an activity that is fetched for. *)
LEMMA FetchAsks ==
  ASSUME PhoneInv, NEW i \in Instances
  PROVE  /\ AsksFor(i) \in Task
         /\ queue \o Fetch(i) \in Seq(Task)
         /\ prefs.cruzId # Nobody => queue \o Fetch(i) = Append(queue, AsksFor(i))
<1>1. AsksFor(i) \in Task /\ queue \in Seq(Task)
  BY DEF PhoneInv, Shape, IdentityInv, AccountTypes, AsksFor, Task
<1>2. CASE prefs.cruzId = Nobody
  BY <1>1, <1>2, ConcatEmptySeq DEF Fetch
<1>3. CASE prefs.cruzId # Nobody
  <2>1. Fetch(i) = <<AsksFor(i)>>
    BY <1>3 DEF Fetch, AsksFor
  <2> QED BY <1>1, <2>1, AppendIsConcat, AppendProperties
<1> QED BY <1>1, <1>2, <1>3

(* A new list, with or without a form over it. *)
LEMMA CreateResumes ==
  ASSUME PhoneInv, NEW below, Within(below), Create(below)
  PROVE  Resumed
<1> DEFINE labs == New(Object, "labs")
           form == New(OtherObject, "login")
           s == Append(below, labs)
<1>1. /\ Object \in Instances /\ OtherObject \in Instances /\ OtherObject # Object
      /\ \A n \in DOMAIN below : below[n].id # Object /\ below[n].id # OtherObject
  BY ObjectsAreFree, FreeIsUnused DEF Create
<1>2. /\ labs \in Activity /\ labs.id = Object
      /\ form \in Activity /\ form.id = OtherObject /\ form.kind = "login"
  BY <1>1 DEF New, Activity
<1>3. queue' = queue \o Fetch(Object)
  BY DEF Create
<1>4. stack' = (below \o <<labs>>) \o (IF prefs.LoggedIn THEN << >> ELSE <<form>>)
  BY DEF Create
<1> HIDE DEF labs, form
<1>5. /\ Stacks(s) /\ s = below \o <<labs>> /\ s # << >> /\ Last(s) = labs
      /\ \A n \in DOMAIN s : s[n] = labs \/ (n \in DOMAIN below /\ s[n] = below[n])
  BY <1>1, <1>2, Pushed DEF Within
<1> HIDE DEF s
<1>6. CASE prefs.LoggedIn
  <2>1. stack' = s
    BY <1>4, <1>5, <1>6, ConcatEmptySeq DEF Stacks
  <2> QED BY <1>1, <1>2, <1>3, <1>5, <2>1, FetchAsks DEF Resumed
<1>7. CASE ~prefs.LoggedIn
  <2>1. \A n \in DOMAIN s : s[n].id # form.id
    BY <1>1, <1>2, <1>5
  <2>2. /\ Stacks(Append(s, form)) /\ Append(s, form) = s \o <<form>>
        /\ Last(Append(s, form)) = form
    BY <1>2, <1>5, <2>1, Pushed
  <2>3. stack' = Append(s, form)
    BY <1>4, <1>5, <1>7, <2>2
  <2> QED BY <1>1, <1>2, <1>3, <2>2, <2>3, FetchAsks DEF Resumed
<1> QED BY <1>6, <1>7

(* An activity that is pushed, and is no list. *)
LEMMA PushResumes ==
  ASSUME PhoneInv, NEW below, Within(below), RoomFor(1), NEW kind \in {"login", "log"},
         stack' = Append(below, New(Object, kind)), queue' \in Seq(Task)
  PROVE  Resumed
<1> DEFINE a == New(Object, kind)
<1>1. Object \in Instances /\ \A n \in DOMAIN below : below[n].id # Object
  BY ObjectsAreFree, FreeIsUnused
<1>2. a \in Activity /\ a.id = Object /\ a.kind = kind
  BY <1>1 DEF New, Activity
<1> HIDE DEF a
<1>3. Stacks(Append(below, a)) /\ Last(Append(below, a)) = a
  BY <1>1, <1>2, Pushed DEF Within
<1> QED BY <1>2, <1>3 DEF Resumed, a

(* A list of visits is asked for. *)
LEMMA LogResumes ==
  ASSUME PhoneInv, NEW below, Within(below), RoomFor(1), OpensLog(below)
  PROVE  Resumed
<1> DEFINE t == [kind |-> "logs", user |-> GetAccount, owner |-> Object]
<1>1. Object \in Instances
  BY ObjectsAreFree, FreeIsUnused
<1>2. t \in Task /\ queue \in Seq(Task)
  BY <1>1 DEF PhoneInv, Shape, IdentityInv, AccountTypes, GetAccount, Task
<1>3. queue' = Append(queue, t)
  BY DEF OpensLog
<1> HIDE DEF t
<1>4. queue' \in Seq(Task)
  BY <1>2, <1>3, AppendProperties
<1> QED BY <1>4, PushResumes DEF OpensLog

(* A visible activity is replaced. *)
LEMMA RecreateResumes ==
  ASSUME PhoneInv, NEW s, Within(s), Recreate(s)
  PROVE  Resumed
<1>1. s # << >> /\ RoomFor(1) /\ Within(Front(s))
  BY FrontIsWithin DEF Recreate
<1>2. Last(s) \in Activity
  <2>1. s \in Seq(Activity) /\ Len(s) \in 1..Len(s)
    BY <1>1, EmptySeq, LenProperties DEF Within, Stacks
  <2> QED BY <2>1, ElementOfSeq DEF Last
<1>3. CASE Last(s).kind = "labs"
  <2>1. Create(Front(s))
    BY <1>3 DEF Recreate
  <2> QED BY <1>1, <2>1, CreateResumes
<1>4. CASE Last(s).kind = "login"
  <2>1. stack' = Append(Front(s), New(Object, "login")) /\ queue' = queue
    BY <1>4 DEF Recreate
  <2> QED BY <1>1, <2>1, PushResumes DEF PhoneInv, Shape
<1>5. CASE Last(s).kind = "log"
  <2>1. OpensLog(Front(s))
    BY <1>5 DEF Recreate
  <2> QED BY <1>1, <2>1, LogResumes
<1> QED BY <1>2, <1>3, <1>4, <1>5 DEF Activity

(* What was covered comes to the top. *)
LEMMA UncoverResumes ==
  ASSUME PhoneInv, NEW s, Within(s), Uncover(s)
  PROVE  Resumed
<1>1. CASE Recreate(s)
  BY <1>1, RecreateResumes
<1>2. CASE Resume(s)
  <2>1. stack' = s /\ Stacks(s) /\ queue \in Seq(Task)
    BY <1>2 DEF Resume, Within, PhoneInv, Shape
  <2>2. CASE s # << >> /\ Last(s).kind = "labs"
    <3>1. Last(s).id \in Instances
      <4>1. s \in Seq(Activity) /\ Len(s) \in 1..Len(s)
        BY <2>1, <2>2, EmptySeq, LenProperties DEF Stacks
      <4>2. Last(s) \in Activity
        BY <4>1, ElementOfSeq DEF Last
      <4> QED BY <4>2 DEF Activity
    <3>2. queue' = queue \o Fetch(Last(s).id)
      BY <1>2, <2>2 DEF Resume
    <3> QED BY <2>1, <3>1, <3>2, FetchAsks DEF Resumed
  <2>3. CASE ~(s # << >> /\ Last(s).kind = "labs")
    <3>1. queue' = queue
      BY <1>2, <2>3, Zenon DEF Resume
    <3> QED BY <2>1, <2>3, <3>1 DEF Resumed
  <2> QED BY <2>2, <2>3
<1> QED BY <1>1, <1>2 DEF Uncover

(* A finished task goes out of the line. *)
LEMMA PostMatters ==
  ASSUME PhoneInv, posts # << >>, posts' = Tail(posts), queue' = queue
  PROVE  /\ posts' \in Seq(Task)
         /\ Line \in Seq(Task) /\ Line # << >> /\ Head(Line) = Head(posts)
         /\ Line' = Tail(Line)
<1>1. /\ posts \in Seq(Task) /\ queue \in Seq(Task)
      /\ Len(posts) \in Nat \ {0} /\ Len(queue) \in Nat
  BY EmptySeq, LenProperties DEF PhoneInv, Shape
<1>2. /\ Tail(posts) \in Seq(Task) /\ Len(Tail(posts)) = Len(posts) - 1
      /\ \A n \in 1..(Len(posts) - 1) : Tail(posts)[n] = posts[n + 1]
  BY <1>1, HeadTailProperties
<1>3. /\ Line \in Seq(Task) /\ Len(Line) = Len(posts) + Len(queue)
      /\ \A n \in 1..(Len(posts) + Len(queue)) :
           Line[n] = IF n <= Len(posts) THEN posts[n] ELSE queue[n - Len(posts)]
  BY <1>1, ConcatProperties DEF Line
<1>4. Line # << >> /\ Head(Line) = Line[1] /\ Head(posts) = posts[1]
  BY <1>1, <1>3, EmptySeq, HeadTailProperties
<1>5. Line[1] = posts[1]
  <2>1. 1 \in 1..(Len(posts) + Len(queue)) /\ 1 <= Len(posts)
    BY <1>1
  <2> QED BY <1>3, <2>1
<1> DEFINE left == Tail(posts)
           rest == left \o queue
           tail == Tail(Line)
<1>6. Line' = rest
  BY DEF Line
<1>7. /\ rest \in Seq(Task) /\ Len(rest) = Len(left) + Len(queue)
      /\ \A n \in 1..(Len(left) + Len(queue)) :
           rest[n] = IF n <= Len(left) THEN left[n] ELSE queue[n - Len(left)]
  BY <1>1, <1>2, ConcatProperties
<1>8. /\ tail \in Seq(Task) /\ Len(tail) = Len(posts) + Len(queue) - 1
      /\ \A n \in 1..(Len(posts) + Len(queue) - 1) : tail[n] = Line[n + 1]
  BY <1>1, <1>3, <1>4, HeadTailProperties
<1> HIDE DEF rest, tail
<1>9. Len(rest) = Len(posts) + Len(queue) - 1
  BY <1>1, <1>2, <1>7
<1>10. ASSUME NEW n \in 1..Len(rest) PROVE rest[n] = tail[n]
  <2>1. n \in 1..(Len(posts) + Len(queue) - 1)
    BY <1>9, <1>10
  <2>2. tail[n] = IF n + 1 <= Len(posts) THEN posts[n + 1] ELSE queue[n + 1 - Len(posts)]
    BY <1>1, <1>3, <1>8, <2>1
  <2>3. rest[n] = IF n <= Len(posts) - 1 THEN left[n] ELSE queue[n - (Len(posts) - 1)]
    BY <1>1, <1>2, <1>7, <1>9, <2>1
  <2>4. CASE n <= Len(posts) - 1
    BY <1>1, <1>2, <2>1, <2>2, <2>3, <2>4
  <2>5. CASE ~(n <= Len(posts) - 1)
    <3>1. n + 1 - Len(posts) = n - (Len(posts) - 1)
      BY <1>1, <2>1
    <3> QED BY <1>1, <2>1, <2>2, <2>3, <2>5, <3>1
  <2> QED BY <2>4, <2>5
<1>11. rest = tail
  BY <1>1, <1>7, <1>8, <1>9, <1>10, SeqEqual
<1> QED BY <1>2, <1>3, <1>4, <1>5, <1>6, <1>11 DEF tail

(* A list arrives: at the visible activity, if it is that one which asked.  *)
LEMMA DeliverSettles ==
  ASSUME PhoneInv, posts # << >>, posts' = Tail(posts), Deliver(Head(posts)),
         Head(posts).kind # "login", UNCHANGED <<prefs, hung>>
  PROVE  Shape' /\ RoomsInv'
<1> DEFINE t == Head(posts)
           new(n) == IF stack[n].id = t.owner THEN [stack[n] EXCEPT !.shows = t.user]
                                              ELSE stack[n]
<1>1. /\ stack \in Seq(Activity) /\ Len(stack) \in Nat /\ DOMAIN stack = 1..Len(stack)
      /\ t \in Task
  BY LenProperties, HeadTailProperties DEF PhoneInv, Shape, Stacks
<1>2. \A n \in 1..Len(stack) : stack[n] \in Activity
  BY <1>1, ElementOfSeq
<1>3. \A n \in 1..Len(stack) :
        /\ new(n) \in Activity /\ new(n).id = stack[n].id /\ new(n).kind = stack[n].kind
        /\ new(n).shows = IF stack[n].id = t.owner THEN t.user ELSE stack[n].shows
  BY <1>1, <1>2 DEF Activity, Task
<1>4. stack' = [n \in 1..Len(stack) |-> new(n)] /\ queue' = queue
  BY <1>1 DEF Deliver
<1> HIDE DEF new
<1>5. stack' \in Seq(Activity) /\ Len(stack') = Len(stack) /\ DOMAIN stack' = 1..Len(stack)
  <2>1. stack' \in [1..Len(stack) -> Activity]
    BY <1>3, <1>4
  <2>2. stack' \in Seq(Activity)
    BY <1>1, <2>1, SeqDef
  <2>3. DOMAIN stack' = 1..Len(stack) /\ DOMAIN stack' = 1..Len(stack') /\ Len(stack') \in Nat
    BY <1>4, <2>2, LenProperties
  <2> QED BY <1>1, <2>2, <2>3
<1>6. \A n \in 1..Len(stack) : stack'[n] = new(n)
  BY <1>4
<1>7. Stacks(stack')
  BY <1>1, <1>3, <1>5, <1>6 DEF Stacks, PhoneInv, Shape
<1>8. Shape'
  BY <1>4, <1>7, PostMatters DEF Shape, PhoneInv, Stacks
<1>9. ASSUME Visible("labs")', prefs'.cruzId # Nobody
      PROVE  SettlesOn(Line', Last(stack').id, Last(stack').shows, prefs.cruzId)
  <2>1. stack # << >> /\ Len(stack) \in 1..Len(stack)
    <3>1. stack' # << >>
      BY <1>9 DEF Visible
    <3> QED BY <1>1, <1>5, <3>1, EmptySeq
  <2>2. /\ Last(stack').id = Top.id /\ Last(stack').kind = Top.kind
        /\ Last(stack').shows = IF Top.id = t.owner THEN t.user ELSE Top.shows
    BY <1>3, <1>5, <1>6, <2>1 DEF Last, Top
  <2>3. SettlesOn(Line, Top.id, Top.shows, prefs.cruzId)
    BY <1>9, <2>1, <2>2 DEF PhoneInv, RoomsInv, Visible, Top
  <2>4. IsFor(t, Top.id) <=> Top.id = t.owner
    BY DEF IsFor
  <2>5. /\ Line \in Seq(Task) /\ Line # << >> /\ Head(Line) = t
        /\ Line' = Tail(Line)
    BY <1>4, PostMatters
  <2> HIDE DEF t
  <2> QED BY <2>2, <2>3, <2>4, <2>5, FirstPosted
<1> QED BY <1>8, <1>9 DEF RoomsInv, Top

(* A form closes under the visible activity, or is not there any more.      *)
LEMMA FormGone ==
  ASSUME PhoneInv, posts # << >>, posts' = Tail(posts), Head(posts).kind = "login",
         stack = << >> \/ Top.id # Head(posts).owner,
         stack' = Without(Head(posts).owner), queue' = queue, UNCHANGED <<prefs, hung>>
  PROVE  Shape' /\ RoomsInv'
<1>1. Within(stack') /\ (stack # << >> => stack' # << >> /\ Last(stack') = Top)
  BY WithoutIsWithin DEF PhoneInv, Shape
<1>2. /\ posts' \in Seq(Task) /\ Line \in Seq(Task) /\ Line # << >>
      /\ Head(Line) = Head(posts) /\ Line' = Tail(Line)
  BY PostMatters
<1>3. Shape'
  BY <1>1, <1>2 DEF PhoneInv, Shape, Within, Stacks
<1>4. stack = << >> => stack' = << >>
  BY EmptySeq DEF Without
<1>5. ASSUME stack' # << >>, Last(stack').kind = "labs", prefs'.cruzId # Nobody
      PROVE  SettlesOn(Line', Last(stack').id, Last(stack').shows, prefs'.cruzId)
  <2>1. SettlesOn(Line, Top.id, Top.shows, prefs.cruzId) /\ Last(stack') = Top
    BY <1>1, <1>4, <1>5 DEF PhoneInv, RoomsInv, Visible
  <2>2. ~IsFor(Head(Line), Top.id)
    BY <1>2 DEF IsFor
  <2> QED BY <1>2, <2>1, <2>2, FirstPosted
<1> QED BY <1>3, <1>5 DEF RoomsInv, Visible, Top

(* The first task in the queue finishes, with an answer or without. *)
LEMMA WorkSettles ==
  ASSUME PhoneInv, Work
  PROVE  Shape' /\ RoomsInv'
<1>1. /\ posts \in Seq(Task) /\ queue \in Seq(Task) /\ Len(posts) \in Nat /\ Len(queue) \in Nat
  BY LenProperties DEF PhoneInv, Shape
<1>2. /\ Len(queue) >= 1 /\ queue' = RemoveAt(queue, 1)
      /\ UNCHANGED <<prefs, stack, hung>>
      /\ \E u \in Found(queue[1]) : posts' = Append(posts, [queue[1] EXCEPT !.user = u])
  <2>1. PICK n \in Runnable :
          /\ queue' = RemoveAt(queue, n)
          /\ \E u \in Found(queue[n]) : posts' = Append(posts, [queue[n] EXCEPT !.user = u])
    BY DEF Work
  <2>2. n = 1 /\ Len(queue) >= 1
    BY <1>1 DEF Runnable
  <2>3. UNCHANGED <<prefs, stack, hung>>
    BY DEF Work, accountVars
  <2> QED BY <2>1, <2>2, <2>3
<1>3. PICK u \in {queue[1].user, Nobody} :
        posts' = Append(posts, [queue[1] EXCEPT !.user = u])
  BY <1>2 DEF Found
<1> DEFINE t == [queue[1] EXCEPT !.user = u]
           rest == SubSeq(queue, 2, Len(queue))
<1>4. queue[1] \in Task
  BY <1>1, <1>2, ElementOfSeq
<1>5. t \in Task /\ t.owner = queue[1].owner /\ t.kind = queue[1].kind /\ t.user = u
  BY <1>3, <1>4 DEF Task
<1> HIDE DEF t
<1>6. /\ rest \in Seq(Task) /\ Len(rest) = Len(queue) - 1
      /\ \A n \in 1..(Len(queue) - 1) : rest[n] = queue[n + 1]
  <2>1. \A n \in 2..Len(queue) : queue[n] \in Task
    BY <1>1, ElementOfSeq
  <2>2. /\ rest \in Seq(Task) /\ Len(rest) = IF 2 <= Len(queue) THEN Len(queue) - 2 + 1 ELSE 0
        /\ \A n \in 1..(Len(queue) - 2 + 1) : rest[n] = queue[2 + n - 1]
    BY <1>1, <2>1, SubSeqProperties
  <2> HIDE DEF rest
  <2>3. Len(rest) = Len(queue) - 1 /\ Len(queue) - 2 + 1 = Len(queue) - 1
    <3>1. Len(queue) \in Nat /\ Len(queue) >= 1
      BY <1>1, <1>2
    <3>2. Len(rest) = IF 2 <= Len(queue) THEN Len(queue) - 2 + 1 ELSE 0
      BY <2>2
    <3>3. Len(queue) - 2 + 1 = Len(queue) - 1
      BY <3>1
    <3>4. CASE 2 <= Len(queue)
      BY <3>2, <3>3, <3>4
    <3>5. CASE ~(2 <= Len(queue))
      BY <3>1, <3>2, <3>3, <3>5
    <3> QED BY <3>3, <3>4, <3>5
  <2>4. \A n \in 1..(Len(queue) - 1) : 2 + n - 1 = n + 1
    BY <1>1
  <2> QED BY <2>2, <2>3, <2>4
<1>7. queue' = rest
  <2>1. SubSeq(queue, 1, 1 - 1) = << >>
    BY SubSeqEmpty
  <2>2. RemoveAt(queue, 1) = << >> \o rest
    BY <2>1 DEF RemoveAt
  <2> QED BY <1>2, <1>6, <2>2, ConcatEmptySeq
<1> HIDE DEF rest
<1>8. /\ posts' \in Seq(Task) /\ Len(posts') = Len(posts) + 1
      /\ \A n \in 1..Len(posts) : posts'[n] = posts[n]
      /\ posts'[Len(posts) + 1] = t
  BY <1>1, <1>3, <1>5, AppendProperties DEF t
<1>9. Shape'
  BY <1>2, <1>6, <1>7, <1>8 DEF PhoneInv, Shape, Stacks
<1>10. /\ Line \in Seq(Task) /\ Len(Line) = Len(posts) + Len(queue)
       /\ \A n \in 1..(Len(posts) + Len(queue)) :
            Line[n] = IF n <= Len(posts) THEN posts[n] ELSE queue[n - Len(posts)]
  BY <1>1, ConcatProperties DEF Line
<1>11. /\ Line' \in Seq(Task) /\ Len(Line') = Len(posts) + Len(queue)
       /\ \A n \in 1..(Len(posts) + Len(queue)) :
            Line'[n] = IF n <= Len(posts) + 1 THEN posts'[n] ELSE rest[n - (Len(posts) + 1)]
  <2>1. Line' = posts' \o rest
    BY <1>7 DEF Line
  <2>2. /\ posts' \o rest \in Seq(Task) /\ Len(posts' \o rest) = Len(posts') + Len(rest)
        /\ \A n \in 1..(Len(posts') + Len(rest)) :
             (posts' \o rest)[n] = IF n <= Len(posts') THEN posts'[n] ELSE rest[n - Len(posts')]
    BY <1>6, <1>8, ConcatProperties
  <2>3. Len(posts') + Len(rest) = Len(posts) + Len(queue)
    BY <1>1, <1>6, <1>8
  <2> QED BY <1>8, <2>1, <2>2, <2>3
<1>12. ASSUME NEW n \in 1..Len(Line)
       PROVE  /\ Line'[n].owner = Line[n].owner /\ Line'[n].kind = Line[n].kind
              /\ Line'[n].user \in {Line[n].user, Nobody}
  <2>1. n \in 1..(Len(posts) + Len(queue))
    BY <1>10, <1>12
  <2>2. CASE n <= Len(posts)
    <3>1. n \in 1..Len(posts) /\ n <= Len(posts) + 1
      BY <1>1, <2>1, <2>2
    <3>2. Line[n] = posts[n] /\ Line'[n] = posts'[n] /\ posts'[n] = posts[n]
      BY <1>8, <1>10, <1>11, <2>1, <2>2, <3>1
    <3> QED BY <3>2
  <2>3. CASE n = Len(posts) + 1
    <3>1. Line[n] = queue[1] /\ Line'[n] = t
      BY <1>1, <1>8, <1>10, <1>11, <2>1, <2>3
    <3> QED BY <1>3, <1>5, <3>1
  <2>4. CASE n > Len(posts) + 1
    <3>1. n - (Len(posts) + 1) \in 1..(Len(queue) - 1)
      BY <1>1, <2>1, <2>4
    <3>2. (n - (Len(posts) + 1)) + 1 = n - Len(posts)
      BY <1>1, <2>1
    <3>3. Line[n] = queue[n - Len(posts)] /\ Line'[n] = rest[n - (Len(posts) + 1)]
      BY <1>1, <1>10, <1>11, <2>1, <2>4
    <3>4. Line'[n] = Line[n]
      BY <1>6, <3>1, <3>2, <3>3
    <3> QED BY <3>4
  <2> QED BY <1>1, <2>1, <2>2, <2>3, <2>4
<1>13. ASSUME NEW i, NEW v, NEW c, SettlesOn(Line, i, v, c) PROVE SettlesOn(Line', i, v, c)
  <2>1. PICK line : line = Line
    OBVIOUS
  <2>2. PICK next : next = Line'
    OBVIOUS
  <2>3. /\ line \in Seq(Task) /\ next \in Seq(Task) /\ Len(next) = Len(line)
        /\ \A n \in 1..Len(line) : /\ next[n].owner = line[n].owner
                                   /\ next[n].kind = line[n].kind
                                   /\ next[n].user \in {line[n].user, Nobody}
    BY <1>10, <1>11, <1>12, <2>1, <2>2
  <2>4. SettlesOn(next, i, v, c)
    BY <1>13, <2>1, <2>3, MayFail
  <2> QED BY <2>2, <2>4
<1>14. RoomsInv'
  BY <1>2, <1>13 DEF PhoneInv, RoomsInv, Visible, Top
<1> QED BY <1>9, <1>14

(* A task is posted. *)
LEMMA PostSettles ==
  ASSUME PhoneInv, Post
  PROVE  Shape' /\ RoomsInv'
<1> DEFINE t == Head(posts)
<1>1. posts # << >> /\ posts' = Tail(posts) /\ UNCHANGED <<prefs, hung>>
  BY DEF Post
<1>2. CASE t.kind # "login"
  <2>1. Deliver(t)
    BY <1>2 DEF Post
  <2> QED BY <1>1, <1>2, <2>1, DeliverSettles
<1>3. CASE t.kind = "login"
  <2>1. FinishForm(t)
    BY <1>3 DEF Post
  <2>2. CASE stack # << >> /\ Top.id = t.owner
    <3>1. Uncover(Without(t.owner))
      BY <2>1, <2>2 DEF FinishForm
    <3>2. Within(Without(t.owner))
      BY WithoutIsWithin DEF PhoneInv, Shape
    <3>3. Resumed
      BY <3>1, <3>2, UncoverResumes
    <3> QED BY <1>1, <3>3, ResumedSettles
  <2>3. CASE ~(stack # << >> /\ Top.id = t.owner)
    <3>1. stack' = Without(t.owner) /\ queue' = queue
      BY <2>1, <2>3 DEF FinishForm
    <3> QED BY <1>1, <1>3, <2>3, <3>1, FormGone
  <2> QED BY <2>2, <2>3
<1> QED BY <1>2, <1>3

(* The object at the top is not under it as well. *)
LEMMA TopIsAlone ==
  ASSUME PhoneInv, stack # << >>
  PROVE  /\ Within(Front(stack))
         /\ \A n \in DOMAIN Front(stack) : Front(stack)[n].id # Top.id
<1>1. /\ Within(stack) /\ stack \in Seq(Activity) /\ Len(stack) \in Nat \ {0}
      /\ DOMAIN stack = 1..Len(stack)
  BY EmptySeq, LenProperties DEF PhoneInv, Shape, Within, Stacks
<1>2. Within(Front(stack)) /\ Len(Front(stack)) = Len(stack) - 1
  BY <1>1, FrontIsWithin
<1>3. DOMAIN Front(stack) = 1..(Len(stack) - 1)
  BY <1>2, LenProperties DEF Within, Stacks
<1>4. \A n \in 1..(Len(stack) - 1) : Front(stack)[n] = stack[n]
  <2>1. \A n \in 1..(Len(stack) - 1) : stack[n] \in Activity
    BY <1>1, ElementOfSeq
  <2> QED BY <1>1, <2>1, SubSeqProperties DEF Front
<1>5. \A n \in 1..(Len(stack) - 1) :
        n \in DOMAIN stack /\ Len(stack) \in DOMAIN stack /\ n # Len(stack)
  <2>1. PICK l \in Nat \ {0} : l = Len(stack)
    BY <1>1
  <2>2. \A n \in 1..(l - 1) : n \in 1..l /\ l \in 1..l /\ n # l
    OBVIOUS
  <2> QED BY <1>1, <2>1, <2>2
<1> QED BY <1>2, <1>3, <1>4, <1>5 DEF PhoneInv, Shape, Stacks, Top, Last

(* Two are one and then the other.                                          *)
LEMMA PairIsConcat ==
  ASSUME NEW a \in Activity, NEW b \in Activity
  PROVE  <<a, b>> = <<a>> \o <<b>>
<1>1. <<a>> \in Seq(Activity) /\ <<b>> \in Seq(Activity) /\ <<a, b>> \in Seq(Activity)
  OBVIOUS
<1>2. Append(<<a>>, b) = <<a>> \o <<b>>
  BY <1>1, AppendIsConcat
<1>3. /\ Append(<<a>>, b) \in Seq(Activity) /\ Len(Append(<<a>>, b)) = 2
      /\ Append(<<a>>, b)[1] = a /\ Append(<<a>>, b)[2] = b
  <2>1. Len(<<a>>) = 1 /\ <<a>>[1] = a
    OBVIOUS
  <2>2. /\ Append(<<a>>, b) \in Seq(Activity) /\ Len(Append(<<a>>, b)) = Len(<<a>>) + 1
        /\ \A n \in 1..Len(<<a>>) : Append(<<a>>, b)[n] = <<a>>[n]
        /\ Append(<<a>>, b)[Len(<<a>>) + 1] = b
    BY <1>1, AppendProperties
  <2> QED BY <2>1, <2>2
<1>4. Len(<<a, b>>) = 2 /\ <<a, b>>[1] = a /\ <<a, b>>[2] = b
  OBVIOUS
<1>5. PICK s \in Seq(Activity) : s = Append(<<a>>, b)
  BY <1>3
<1>6. PICK p \in Seq(Activity) : p = <<a, b>>
  BY <1>1
<1>7. Len(s) = Len(p) /\ \A n \in 1..Len(s) : s[n] = p[n]
  <2>1. \A n \in 1..2 : n = 1 \/ n = 2
    OBVIOUS
  <2> QED BY <1>3, <1>4, <1>5, <1>6, <2>1
<1>8. s = p
  BY <1>7, SeqEqual
<1> QED BY <1>2, <1>5, <1>6, <1>8

(* The steps that put an activity on top which is no list. *)
LEMMA OpeningSettles ==
  ASSUME PhoneInv, OpenLog \/ Logout \/ Card
  PROVE  Shape' /\ RoomsInv'
<1>1. Within(stack) /\ posts' = posts /\ hung' = hung /\ queue \in Seq(Task)
  BY DEF OpenLog, Logout, Card, PhoneInv, Shape, Within
<1>2. CASE OpenLog
  <2>1. RoomFor(1) /\ OpensLog(stack) /\ prefs' = prefs
    BY <1>2 DEF OpenLog
  <2>2. Resumed
    BY <1>1, <2>1, LogResumes
  <2> QED BY <1>1, <2>1, <2>2, ResumedSettles
<1>3. CASE Card /\ UNCHANGED stack
  BY <1>3 DEF Card, PhoneInv, Shape, Stacks, RoomsInv, Visible, Top, Line
<1>4. CASE Card /\ ~UNCHANGED stack
  <2>1. /\ RoomFor(1) /\ stack' = Append(stack, New(Object, "login"))
        /\ UNCHANGED <<prefs, queue>>
    BY <1>4 DEF Card
  <2>2. Resumed
    BY <1>1, <2>1, PushResumes
  <2> QED BY <1>1, <2>1, <2>2, ResumedSettles
<1>5. CASE Logout
  <2> DEFINE emptied == [Top EXCEPT !.shows = Nobody]
             form == New(Object, "login")
             s == Append(Front(stack), emptied)
  <2>1. stack # << >> /\ RoomFor(1) /\ queue' = queue /\ prefs'.cruzId = Nobody
    BY <1>5 DEF Logout, Visible
  <2>2. /\ Top \in Activity /\ stack \in Seq(Activity) /\ Len(stack) \in Nat \ {0}
        /\ DOMAIN stack = 1..Len(stack)
    <3>1. stack \in Seq(Activity) /\ Len(stack) \in 1..Len(stack)
      BY <2>1, EmptySeq, LenProperties DEF PhoneInv, Shape, Stacks
    <3> QED BY <2>1, <3>1, ElementOfSeq, EmptySeq, LenProperties DEF Top, Last
  <2>3. emptied \in Activity /\ emptied.id = Top.id
    BY <2>2 DEF Activity
  <2>4. Within(Front(stack)) /\ \A n \in DOMAIN Front(stack) : Front(stack)[n].id # Top.id
    BY <2>1, TopIsAlone
  <2>5. /\ Object \in Instances /\ Top.id # Object
        /\ \A n \in DOMAIN Front(stack) : Front(stack)[n].id # Object
    <3>1. Object \in Free
      BY <2>1, ObjectsAreFree
    <3>2. Len(stack) \in DOMAIN stack
      BY <2>2
    <3> QED BY <1>1, <2>4, <3>1, <3>2, FreeIsUnused DEF Top, Last
  <2>6. form \in Activity /\ form.id = Object
    BY <2>5 DEF New, Activity
  <2> HIDE DEF emptied, form
  <2>7. /\ Stacks(s) /\ s = Front(stack) \o <<emptied>>
        /\ \A n \in DOMAIN s : s[n] = emptied \/ (n \in DOMAIN Front(stack) /\ s[n] = Front(stack)[n])
    BY <2>3, <2>4, Pushed DEF Within
  <2> HIDE DEF s
  <2>8. \A n \in DOMAIN s : s[n].id # form.id
    BY <2>3, <2>5, <2>6, <2>7
  <2>9. Stacks(Append(s, form))
    BY <2>6, <2>7, <2>8, Pushed
  <2>10. stack' = Append(s, form)
    <3>1. stack' = Front(stack) \o <<emptied, form>>
      BY <1>5 DEF Logout, emptied, form
    <3>2. <<emptied, form>> = <<emptied>> \o <<form>>
      BY <2>3, <2>6, PairIsConcat
    <3>3. /\ Front(stack) \in Seq(Activity)
          /\ <<emptied>> \in Seq(Activity) /\ <<form>> \in Seq(Activity)
      BY <2>3, <2>4, <2>6 DEF Within, Stacks
    <3>4. stack' = s \o <<form>>
      <4>1. (Front(stack) \o <<emptied>>) \o <<form>> = Front(stack) \o (<<emptied>> \o <<form>>)
        BY <3>3, ConcatAssociative
      <4> QED BY <2>7, <3>1, <3>2, <4>1
    <3> QED BY <2>6, <2>7, <3>4, AppendIsConcat DEF Stacks
  <2> QED BY <1>1, <2>1, <2>9, <2>10 DEF PhoneInv, Shape, Stacks, RoomsInv
<1> QED BY <1>2, <1>3, <1>4, <1>5

(* Somebody presses the button of a login form. *)
LEMMA LoginSettles ==
  ASSUME PhoneInv, NEW name \in Names, AttemptLogin(name)
  PROVE  Shape' /\ RoomsInv'
<1> DEFINE a == [Top EXCEPT !.mAuthTask = TRUE]
           t == [kind |-> "login", user |-> name, owner |-> Top.id]
<1>1. /\ stack # << >> /\ Top.kind = "login" /\ posts' = posts /\ hung' = hung
      /\ stack' = Append(Front(stack), a) /\ queue' = Append(queue, t)
  BY DEF AttemptLogin, Visible
<1>2. /\ Within(stack) /\ stack \in Seq(Activity) /\ Len(stack) \in Nat \ {0}
      /\ DOMAIN stack = 1..Len(stack)
      /\ queue \in Seq(Task)
  BY <1>1, EmptySeq, LenProperties DEF PhoneInv, Shape, Within, Stacks
<1>3. Top \in Activity
  BY <1>2, ElementOfSeq DEF Top, Last
<1>4. /\ a \in Activity /\ a.id = Top.id /\ a.kind = "login" /\ t \in Task
  BY <1>1, <1>3 DEF Activity, Task
<1> HIDE DEF a, t
<1>5. Within(Front(stack)) /\ \A n \in DOMAIN Front(stack) : Front(stack)[n].id # Top.id
  BY <1>1, <1>2, TopIsAlone
<1>6. Stacks(Append(Front(stack), a)) /\ Last(Append(Front(stack), a)) = a
  BY <1>4, <1>5, Pushed DEF Within
<1>7. queue' \in Seq(Task)
  BY <1>1, <1>2, <1>4, AppendProperties
<1> QED BY <1>1, <1>4, <1>6, <1>7 DEF PhoneInv, Shape, Stacks, RoomsInv, Visible, Top
-----------------------------------------------------------------------------
(* What comes to the top, comes to it as the last step that puts something  *)
(* there: the application is started, the phone turned, an activity left.  *)
LEMMA ComingBackSettles ==
  ASSUME PhoneInv, Launch \/ Rotate \/ Back
  PROVE  Shape' /\ RoomsInv'
<1>1. UNCHANGED <<prefs, posts, hung>> /\ Within(stack)
  BY DEF Launch, Rotate, Back, accountVars, PhoneInv, Shape, Within
<1>2. CASE Launch
  <2>1. Create(<< >>) /\ Within(<< >>)
    BY <1>1, <1>2 DEF Launch
  <2> QED BY <1>1, <2>1, CreateResumes, ResumedSettles
<1>3. CASE Rotate
  <2>1. Recreate(stack)
    BY <1>3 DEF Rotate
  <2> QED BY <1>1, <2>1, RecreateResumes, ResumedSettles
<1>4. CASE Back
  <2>1. stack # << >> /\ Uncover(Front(stack))
    BY <1>4 DEF Back
  <2>2. Within(Front(stack))
    BY <1>1, <2>1, FrontIsWithin
  <2> QED BY <1>1, <2>1, <2>2, UncoverResumes, ResumedSettles
<1> QED BY <1>2, <1>3, <1>4

(* The visible list is fetched again. *)
LEMMA RefreshSettles ==
  ASSUME PhoneInv, Refresh
  PROVE  Shape' /\ RoomsInv'
<1>1. /\ stack # << >> /\ Stacks(stack) /\ UNCHANGED <<prefs, stack, posts, hung>>
      /\ queue' = queue \o Fetch(Top.id)
  BY DEF Refresh, Visible, accountVars, PhoneInv, Shape
<1>2. Top.id \in Instances
  <2>1. stack \in Seq(Activity) /\ Len(stack) \in 1..Len(stack)
    BY <1>1, EmptySeq, LenProperties DEF Stacks
  <2>2. Top \in Activity
    BY <2>1, ElementOfSeq DEF Top, Last
  <2> QED BY <2>2 DEF Activity
<1>3. Resumed
  BY <1>1, <1>2, FetchAsks DEF Resumed, Top
<1> QED BY <1>1, <1>3, ResumedSettles

(* No activities are activities, and no tasks are tasks. *)
LEMMA NoneIsSeq == << >> \in Seq(Activity) /\ << >> \in Seq(Task) /\ DOMAIN << >> = {}
<1>1. \A S : << >> \in Seq(S)
  BY EmptySeq
<1>2. DOMAIN << >> = 1..0
  BY EmptySeq, LenProperties
<1> QED BY <1>1, <1>2

(* Without activities there is nothing to settle. *)
LEMMA NothingSettles ==
  ASSUME stack' = << >>, queue' = << >>, posts' = << >>, hung' = FALSE
  PROVE  Shape' /\ RoomsInv'
<1>1. << >> \in Seq(Activity) /\ << >> \in Seq(Task) /\ DOMAIN << >> = {}
  BY NoneIsSeq
<1>2. Shape'
  BY <1>1, Zenon DEF Shape, Stacks
<1> QED BY <1>2 DEF RoomsInv, Visible

(* Every step keeps the one identity, and the last word of the line. *)
LEMMA PhoneKept == PhoneInv /\ [PhoneNext]_phoneVars => PhoneInv'
<1> SUFFICES ASSUME PhoneInv, [PhoneNext]_phoneVars PROVE PhoneInv'
  OBVIOUS
<1>1. IdentityInv'
  BY IdentityKept DEF PhoneInv
<1>2. CASE Launch \/ Rotate \/ Back
  BY <1>1, <1>2, ComingBackSettles DEF PhoneInv
<1>3. CASE Refresh
  BY <1>1, <1>3, RefreshSettles DEF PhoneInv
<1>4. CASE OpenLog \/ Logout \/ Card
  BY <1>1, <1>4, OpeningSettles DEF PhoneInv
<1>5. CASE \E name \in Names : AttemptLogin(name)
  BY <1>1, <1>5, LoginSettles DEF PhoneInv
<1>6. CASE Work
  BY <1>1, <1>6, WorkSettles DEF PhoneInv
<1>7. CASE Post
  BY <1>1, <1>7, PostSettles DEF PhoneInv
<1>8. CASE Hang \/ UNCHANGED phoneVars
  <2>1. UNCHANGED <<prefs, stack, queue, posts>> /\ hung' \in {hung, TRUE}
    BY <1>8 DEF Hang, phoneVars, accountVars
  <2> QED
    BY <1>1, <2>1 DEF PhoneInv, Shape, Stacks, RoomsInv, Visible, Top, Line
<1>9. CASE Kill \/ KilledBetween
  <2>1. stack' = << >> /\ queue' = << >> /\ posts' = << >> /\ hung' = FALSE
    BY <1>9 DEF Kill, KilledBetween, Dies
  <2> QED
    BY <1>1, <2>1, NothingSettles DEF PhoneInv
<1> QED
  BY <1>2, <1>3, <1>4, <1>5, <1>6, <1>7, <1>8, <1>9 DEF PhoneNext, Person

(* On a new installation there is no line. *)
LEMMA PhoneStarts == PhoneInit => PhoneInv
<1> SUFFICES ASSUME PhoneInit PROVE PhoneInv
  OBVIOUS
<1>1. stack = << >> /\ queue = << >> /\ posts = << >> /\ hung = FALSE
  BY DEF PhoneInit
<1>2. Shape
  <2>1. << >> \in Seq(Activity) /\ << >> \in Seq(Task) /\ DOMAIN << >> = {}
    BY NoneIsSeq
  <2> QED BY <1>1, <2>1, Zenon DEF Shape, Stacks
<1>3. RoomsInv
  BY <1>1 DEF RoomsInv, Visible
<1> QED
  BY <1>2, <1>3, IdentityStarts DEF PhoneInv

(* The variables keep their types, and no activity object is on the stack   *)
(* twice: what onPostExecute reports to is at most one activity.            *)
THEOREM PhoneTypes == PhoneSpec => []PhoneTypeOK
<1>1. PhoneInv => PhoneTypeOK
  BY DEF PhoneInv, IdentityInv, AccountTypes, Shape, Stacks, PhoneTypeOK
<1> QED
  BY <1>1, PhoneStarts, PhoneKept, PTL DEF PhoneSpec

(* However fetches for former users are mixed with logins, logouts and      *)
(* turns of the phone: when everything has been posted, the visible list    *)
(* of LabsActivity is that of the user in the preferences, or empty.        *)
THEOREM RoomsAreTheUsers == PhoneSpec => []RoomsSettle
<1>1. PhoneInv => RoomsSettle
  <2> SUFFICES ASSUME PhoneInv, queue = << >>, posts = << >>,
                      Visible("labs"), prefs.cruzId # Nobody
               PROVE  Top.shows \in {prefs.cruzId, Nobody}
    BY DEF RoomsSettle
  <2>1. SettlesOn(Line, Top.id, Top.shows, prefs.cruzId)
    BY DEF PhoneInv, RoomsInv
  <2>2. Line = << >>
    BY DEF Line
  <2> QED BY <2>1, <2>2 DEF SettlesOn
<1> QED
  BY <1>1, PhoneStarts, PhoneKept, PTL DEF PhoneSpec
===============================================================================
