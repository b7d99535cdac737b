-------------------------- MODULE CommitFileProofs --------------------------
(***************************************************************************)
(* Proofs about CommitFile for any number of handlers, transfers, names    *)
(* and faults, while the user leaves the empty file of a commit under way  *)
(* alone: os.replace overwrites whatever is put in its place.              *)
(***************************************************************************)
EXTENDS CommitFile, TLAPS

\* The steps that hold a copy which is complete.
WithCopy == {"seek", "reserve", "check", "replace"}

Safe(t) == t \in part \cup taken \/ \E n \in Names : dir[n] = Whole(t)

HandlerOK(h) ==
  /\ pc[h] \in Reserving => dir[cand[h]] = Hole(h)
  /\ pc[h] \in WithCopy => temp[h] = "whole"
  /\ pc[h] \in {"unlink", "drop"} =>
       \/ PartOf[h] \in taken
       \/ \E n \in Names : dir[n] = Whole(PartOf[h])

CommitInv ==
  /\ TypeOK /\ NeverLost
  /\ \A h \in Handlers : HandlerOK(h)

\* Neither faults nor the user get in the way of a single exposure.
Once == \A h \in Handlers : pc[h] \in Before => h \notin exposed

LEMMA Distinct ==
  /\ \A t : Whole(t) # Free /\ Whole(t) # UserFile
  /\ \A t, h : Whole(t) # Hole(h) /\ Torn(t) # Hole(h)
  /\ \A g, h : Hole(g) = Hole(h) => g = h
  /\ \A h : Hole(h) # Free /\ Hole(h) # UserFile
BY DEF Whole, Torn, Hole, Free, UserFile

LEMMA Entries ==
  /\ Free \in Entry /\ UserFile \in Entry
  /\ \A h \in Handlers : Hole(h) \in Entry
  /\ \A t \in Transfers : Whole(t) \in Entry /\ Torn(t) \in Entry
BY DEF Entry

\* What a step of h leaves of the others and of the directory.
Moves(h) ==
  /\ \A g \in Handlers : g # h =>
       /\ pc'[g] = pc[g] /\ cand'[g] = cand[g] /\ temp'[g] = temp[g]
       /\ g \in exposed' <=> g \in exposed
  /\ \A n \in Names :
       dir'[n] = dir[n] \/ (n = cand[h] /\ dir[n] \in {Free, Hole(h)})
  /\ taken' = taken

LEMMA StepMoves ==
  ASSUME CommitInv, NEW h \in Handlers, Verified(h) \/ CommitStep(h)
  PROVE  TypeOK' /\ Moves(h)
<1> USE CommitAssumption
<1>1. cand[h] \in Names /\ 1 \in Names /\ PartOf[h] \in Transfers
  BY DEF CommitInv, TypeOK, Names
<1>2. CASE Verified(h)
  BY <1>1, <1>2 DEF CommitInv, TypeOK, Verified, Goto, Moves, dirVars, Places
<1>3. ASSUME NEW a, NEW b, b \in Places, Look(h, a, b)
      PROVE  TypeOK' /\ Moves(h)
  <2>1. cand[h] < MaxName => cand[h] + 1 \in Names
    BY <1>1 DEF Names
  <2> QED
    BY <1>1, <1>3, <2>1 DEF CommitInv, TypeOK, Look, Goto, Moves, dirVars, boundVars
<1>4. CASE Link(h)
  <2>1. Whole(PartOf[h]) \in Entry /\ "unlink" \in Places
    BY <1>1, Entries DEF Places
  <2>2. dir[cand[h]] = Free
    BY <1>4 DEF Link, InUse
  <2> QED
    BY <1>1, <1>4, <2>1, <2>2 DEF CommitInv, TypeOK, Link, AfterLink, Goto, Moves,
       boundVars
<1>5. CASE LinkFails(h)
  BY <1>1, <1>5 DEF CommitInv, TypeOK, LinkFails, Again, Goto, Moves, dirVars,
     boundVars, Places
<1>6. CASE Unlink(h) \/ Drop(h)
  BY <1>1, <1>6 DEF CommitInv, TypeOK, Unlink, Drop, Goto, Moves, dirVars,
     boundVars, Places, Ended
<1>7. CASE OpenCopy(h) \/ FinishCopy(h)
  BY <1>1, <1>7 DEF CommitInv, TypeOK, OpenCopy, FinishCopy, CopyError, Fail,
     Again, Goto, Moves, dirVars, boundVars, Places, Ended
<1>8. CASE Reserve(h)
  <2>1. Hole(h) \in Entry
    BY Entries
  <2> QED
    BY <1>1, <1>8, <2>1 DEF CommitInv, TypeOK, Reserve, InUse, Fail, Again, Goto,
       Moves, boundVars, Places, Ended
<1>9. CASE Check(h) \/ Undo(h)
  BY <1>1, <1>9 DEF CommitInv, TypeOK, Check, Undo, Fail, Goto, Moves, dirVars,
     boundVars, Places, Ended
<1>10. CASE Replace(h) \/ RemoveHole(h)
  <2>1. Copied(h) \in Entry /\ Free \in Entry
    BY <1>1, Entries DEF Copied
  <2>2. dir[cand[h]] = Hole(h)
    BY <1>10 DEF CommitInv, HandlerOK, Reserving, Replace, RemoveHole
  <2> QED
    BY <1>1, <1>10, <2>1, <2>2 DEF CommitInv, TypeOK, Replace, RemoveHole, Fail,
       Goto, Moves, boundVars, Places, Ended
<1> QED
  BY <1>2, <1>3, <1>4, <1>5, <1>6, <1>7, <1>8, <1>9, <1>10 DEF CommitStep, Places

\* A verified file keeps its name, and a reservation stays its owner's.
LEMMA WholeStays ==
  ASSUME NEW h \in Handlers, Moves(h), NEW t, NEW n \in Names, dir[n] = Whole(t)
  PROVE  dir'[n] = Whole(t)
BY Distinct DEF Moves

LEMMA OthersStay ==
  ASSUME CommitInv, NEW h \in Handlers, Moves(h),
         NEW g \in Handlers, g # h
  PROVE  HandlerOK(g)'
<1>1. /\ pc'[g] = pc[g] /\ cand'[g] = cand[g] /\ temp'[g] = temp[g]
      /\ taken' = taken /\ cand[g] \in Names
  BY DEF Moves, CommitInv, TypeOK
<1>2. dir[cand[g]] = Hole(g) => dir'[cand[g]] = Hole(g)
  BY <1>1, Distinct DEF Moves
<1>3. (\E n \in Names : dir[n] = Whole(PartOf[g])) =>
        \E n \in Names : dir'[n] = Whole(PartOf[g])
  BY WholeStays
<1> QED
  BY <1>1, <1>2, <1>3 DEF HandlerOK, CommitInv

LEMMA StepInv ==
  ASSUME CommitInv, NEW h \in Handlers, Verified(h) \/ CommitStep(h)
  PROVE  CommitInv'
<1> USE CommitAssumption
<1>1. TypeOK' /\ Moves(h)
  BY StepMoves
<1>2. \A g \in Handlers : g # h => HandlerOK(g)'
  BY <1>1, OthersStay
<1>3. /\ cand[h] \in Names /\ PartOf[h] \in Transfers
      /\ pc \in [Handlers -> Places] /\ cand \in [Handlers -> Names]
      /\ temp \in [Handlers -> {"none", "torn", "whole"}]
      /\ dir \in [Names -> Entry] /\ HandlerOK(h)
  BY DEF CommitInv, TypeOK
<1>4. HandlerOK(h)'
  <2>1. CASE \/ Verified(h) \/ LinkFails(h) \/ OpenCopy(h) \/ FinishCopy(h)
             \/ Unlink(h) \/ Drop(h) \/ RemoveHole(h)
    BY <1>3, <2>1 DEF HandlerOK, Verified, LinkFails, OpenCopy, FinishCopy, Unlink,
       Drop, RemoveHole, CopyError, Fail, Again, Goto, Reserving, WithCopy
  <2>2. CASE Look(h, "look", "link") \/ Look(h, "seek", "reserve")
    BY <1>3, <2>2 DEF HandlerOK, Look, Goto, Reserving, WithCopy, dirVars
  <2>3. CASE Link(h)
    BY <1>3, <2>3 DEF HandlerOK, Link, AfterLink, Goto, Reserving, WithCopy
  <2>4. CASE Reserve(h)
    BY <1>3, <2>4 DEF HandlerOK, Reserve, Fail, Again, Goto, Reserving, WithCopy
  <2>5. CASE Check(h) \/ Undo(h)
    BY <1>3, <2>5 DEF HandlerOK, Check, Undo, Fail, Goto, Reserving, WithCopy, dirVars
  <2>6. CASE Replace(h)
    <3>1. Copied(h) = Whole(PartOf[h])
      BY <1>3, <2>6 DEF Copied, HandlerOK, Replace, WithCopy
    <3> QED
      BY <1>3, <2>6, <3>1 DEF HandlerOK, Replace, Goto, Reserving, WithCopy
  <2> QED
    BY <2>1, <2>2, <2>3, <2>4, <2>5, <2>6 DEF CommitStep
<1>5. NeverLost'
  <2> SUFFICES ASSUME NEW t \in received'
               PROVE  Safe(t)'
    BY DEF NeverLost, Safe
  <2>1. CASE t \in part'
    BY <2>1 DEF Safe
  <2>2. CASE t \notin part'
    <3>1. t \in received
      BY <2>2 DEF Verified, CommitStep, Look, Link, LinkFails, Unlink, OpenCopy,
         FinishCopy, Reserve, Check, Replace, Undo, RemoveHole, Drop
    <3>2. Safe(t)
      BY <3>1 DEF CommitInv, NeverLost, Safe
    <3>3. CASE t \in taken \/ \E n \in Names : dir[n] = Whole(t)
      BY <3>3, <1>1, WholeStays DEF Safe, Moves
    <3>4. CASE t \in part
      <4>1. (Unlink(h) \/ Drop(h)) /\ t = PartOf[h]
        BY <2>2, <3>4 DEF Verified, CommitStep, Look, Link, LinkFails, Unlink,
           OpenCopy, FinishCopy, Reserve, Check, Replace, Undo, RemoveHole, Drop
      <4>2. t \in taken \/ \E n \in Names : dir[n] = Whole(t)
        BY <4>1, <1>3 DEF HandlerOK, Unlink, Drop
      <4> QED
        BY <4>2, <1>1, WholeStays DEF Safe, Moves
    <3> QED
      BY <3>2, <3>3, <3>4 DEF Safe
  <2> QED
    BY <2>1, <2>2
<1> QED
  BY <1>1, <1>2, <1>4, <1>5 DEF CommitInv

\* What the user does to a name that no commit has reserved.
UserPuts(n, e) == Becomes(n, e) /\ ~Reserved(n)

LEMMA UserLeaves ==
  ASSUME CommitInv, "disturb" \notin UserActs, NEW n \in Names,
         UserCreates(n) \/ UserRemoves(n) \/ UserReplaces(n)
  PROVE  \E e \in {Free, UserFile} : UserPuts(n, e)
<1>1. CASE UserCreates(n)
  <2>1. dir[n] = Free => ~Reserved(n)
    BY Distinct DEF Reserved, CommitInv, HandlerOK
  <2> QED
    BY <1>1, <2>1 DEF UserCreates, UserPuts
<1>2. CASE UserRemoves(n) \/ UserReplaces(n)
  BY <1>2 DEF UserRemoves, UserReplaces, MayTouch, UserPuts
<1> QED
  BY <1>1, <1>2

\* The user leaves reservations alone; a crash leaves the directory as it is.
LEMMA WorldInv ==
  ASSUME CommitInv, "disturb" \notin UserActs,
         (\E n \in Names : UserCreates(n) \/ UserRemoves(n) \/ UserReplaces(n)) \/ Crash
  PROVE  CommitInv'
<1> USE CommitAssumption
<1>1. CASE Crash
  <2>1. /\ UNCHANGED <<dir, taken, part, received, cand, exposed, acts, runs>>
        /\ crashes' \in 0..MaxCrashes
        /\ pc' \in [Handlers -> {"done", "idle"}]
        /\ temp' = [h \in Handlers |-> "none"]
    BY <1>1 DEF Crash, dirVars, CommitInv, TypeOK
  <2>2. TypeOK'
    BY <2>1 DEF CommitInv, TypeOK, Places, Ended
  <2>3. NeverLost'
    BY <2>1 DEF CommitInv, NeverLost
  <2>4. \A h \in Handlers : HandlerOK(h)'
    BY <2>1 DEF HandlerOK, Reserving, WithCopy
  <2> QED
    BY <2>2, <2>3, <2>4 DEF CommitInv
<1>2. ASSUME NEW n \in Names, UserCreates(n) \/ UserRemoves(n) \/ UserReplaces(n)
      PROVE  CommitInv'
  <2>1. PICK e \in {Free, UserFile} : UserPuts(n, e)
    BY <1>2, UserLeaves
  <2>2. /\ dir' = [dir EXCEPT ![n] = e]
        /\ UNCHANGED <<part, received, pc, cand, temp, exposed, runs, crashes>>
        /\ taken' = taken \cup {t \in Transfers : dir[n] = Whole(t)}
        /\ acts' \in 0..MaxActs /\ ~Reserved(n)
    BY <2>1 DEF UserPuts, Becomes, handlerVars, CommitInv, TypeOK
  <2>3. TypeOK'
    BY <2>2, Entries DEF CommitInv, TypeOK
  <2>4. \A m \in Names, t \in Transfers :
          dir[m] = Whole(t) => dir'[m] = Whole(t) \/ t \in taken'
    BY <2>2 DEF CommitInv, TypeOK
  <2>5. NeverLost'
    BY <2>2, <2>4 DEF CommitInv, NeverLost, TypeOK
  <2>6. ASSUME NEW h \in Handlers
        PROVE  HandlerOK(h)'
    <3>1. cand[h] \in Names /\ HandlerOK(h) /\ PartOf[h] \in Transfers
      BY DEF CommitInv, TypeOK
    <3>2. pc[h] \in Reserving => dir'[cand[h]] = Hole(h)
      BY <2>2, <3>1 DEF HandlerOK, Reserved, CommitInv, TypeOK
    <3> QED
      BY <2>2, <2>4, <3>1, <3>2 DEF HandlerOK
  <2> QED
    BY <2>3, <2>5, <2>6 DEF CommitInv
<1> QED
  BY <1>1, <1>2

LEMMA InitInv == Init => CommitInv
<1> SUFFICES ASSUME Init PROVE CommitInv
  OBVIOUS
<1> USE CommitAssumption
<1>1. dir \in [Names -> Entry] /\ 1 \in Names
  BY Entries DEF Init, Names
<1>2. TypeOK
  BY <1>1 DEF Init, TypeOK, Places, Ended
<1> QED
  BY <1>2 DEF Init, CommitInv, NeverLost, HandlerOK, Reserving, WithCopy

LEMMA NextInv ==
  ASSUME CommitInv, "disturb" \notin UserActs, [Next]_vars
  PROVE  CommitInv'
<1>1. CASE Next
  BY <1>1, StepInv, WorldInv DEF Next
<1>2. CASE UNCHANGED vars
  BY <1>2 DEF vars, dirVars, handlerVars, boundVars, CommitInv, TypeOK, NeverLost,
     HandlerOK
<1> QED
  BY <1>1, <1>2

LEMMA Invariant ==
  ASSUME "disturb" \notin UserActs
  PROVE  Spec => []CommitInv
<1>1. CommitInv /\ [Next]_vars => CommitInv'
  BY NextInv
<1> QED
  BY <1>1, InitInv, PTL DEF Spec

\* While the user leaves reservations alone, no verified file is ever lost between its
\* partial and its name: commit_partial_file removes the one after the other.
THEOREM CommitKeeps ==
  ASSUME "disturb" \notin UserActs
  PROVE  Spec => [](TypeOK /\ NeverLost)
<1>1. CommitInv => TypeOK /\ NeverLost
  BY DEF CommitInv
<1> QED
  BY <1>1, Invariant, PTL

\* While the user leaves reservations alone, commit_partial_file overwrites none: names
\* are taken by link and O_EXCL, and os.replace meets its own reservation.
THEOREM CommitsBesideOthers ==
  ASSUME "disturb" \notin UserActs
  PROVE  Spec => NothingOverwritten
<1> DEFINE Kept == \A n \in Names : dir'[n] # dir[n] =>
                      \/ dir[n] = Free \/ acts' # acts
                      \/ \E h \in Handlers : dir[n] = Hole(h)
<1>1. ASSUME CommitInv, [Next]_vars
      PROVE  [Kept]_vars
  <2>1. ASSUME NEW h \in Handlers, Verified(h) \/ CommitStep(h)
        PROVE  Kept
    BY <1>1, <2>1, StepMoves DEF Moves
  <2>2. ASSUME NEW n \in Names, UserCreates(n) \/ UserRemoves(n) \/ UserReplaces(n)
        PROVE  Kept
    BY <1>1, <2>2 DEF UserCreates, UserRemoves, UserReplaces, Becomes, CommitInv, TypeOK
  <2>3. CASE Crash
    BY <2>3 DEF Crash, dirVars
  <2> QED
    BY <1>1, <2>1, <2>2, <2>3 DEF Next
<1> QED
  BY <1>1, Invariant, PTL DEF NothingOverwritten, Spec
-----------------------------------------------------------------------------
(* Commits run down *)

CommitSteps ==
  [look |-> 11, link |-> 10, unlink |-> 9, copy |-> 8, copying |-> 7, seek |-> 6,
   reserve |-> 5, check |-> 4, replace |-> 3, undo |-> 2, remove |-> 1, drop |-> 1,
   idle |-> 0, done |-> 0, failed |-> 0]

\* How many steps a commit still takes at most while nobody takes its name: those
\* of the call, and in each of its two searches one for every name.
CommitLeft(h) ==
  CommitSteps[pc[h]]
    + (IF pc[h] \in {"look", "seek"} THEN MaxName - cand[h] ELSE 0)
    + (IF pc[h] \in {"look", "link", "unlink", "copy", "copying"} THEN MaxName ELSE 0)

\* The name was free when h looked, and is not now that h wants to take it.
Retaken(h) == pc[h] \in {"link", "reserve"} /\ InUse(h)

CommitsRunDown ==
  \A h \in Handlers :
    /\ CommitLeft(h) \in Nat /\ CommitLeft(h)' \in Nat
    /\ CommitStep(h) => CommitLeft(h)' < CommitLeft(h) \/ Retaken(h)
    /\ CommitLeft(h)' > CommitLeft(h) => Verified(h) \/ (Retaken(h) /\ CommitStep(h))

PlacesOK == pc \in [Handlers -> Places] /\ cand \in [Handlers -> Names]

\* A step of h moves h alone, forward unless its name was taken.
LEMMA StepDescends ==
  ASSUME PlacesOK, NEW h \in Handlers, CommitStep(h)
  PROVE  /\ PlacesOK'
         /\ \A g \in Handlers \ {h} : pc'[g] = pc[g] /\ cand'[g] = cand[g]
         /\ CommitLeft(h)' < CommitLeft(h) \/ Retaken(h)
<1> USE CommitAssumption DEF PlacesOK, Places, Ended, Names, CommitLeft, CommitSteps
<1>1. CASE Look(h, "look", "link") \/ Look(h, "seek", "reserve")
  BY <1>1 DEF Look, Goto
<1>2. CASE Link(h) \/ Unlink(h) \/ OpenCopy(h)
  BY <1>2 DEF Link, AfterLink, Unlink, OpenCopy, Goto
<1>3. CASE LinkFails(h)
  BY <1>3 DEF LinkFails, Again, Goto, Retaken
<1>4. CASE FinishCopy(h)
  BY <1>4 DEF FinishCopy, CopyError, Fail, Again, Goto
<1>5. CASE Reserve(h)
  BY <1>5 DEF Reserve, Fail, Again, Goto, Retaken
<1>6. CASE Check(h) \/ Replace(h) \/ Drop(h)
  BY <1>6 DEF Check, Replace, Drop, Goto
<1>7. CASE Undo(h) \/ RemoveHole(h)
  BY <1>7 DEF Undo, RemoveHole, Fail, Goto
<1> QED
  BY <1>1, <1>2, <1>3, <1>4, <1>5, <1>6, <1>7 DEF CommitStep

\* commit_partial_file begins a search again only when the name it had found free was
\* taken meanwhile; otherwise each of its steps leads on, whatever fails and whatever
\* the other commits and the user do (the two loops, resume.py:46-59 and 70-103).
THEOREM CommitsEndInTime == Spec => [][CommitsRunDown]_vars
<1>1. Init => PlacesOK
  BY CommitAssumption DEF Init, PlacesOK, Places, Ended, Names
<1>2. ASSUME PlacesOK, Next PROVE PlacesOK' /\ CommitsRunDown
  <2>1. ASSUME PlacesOK', NEW h \in Handlers
        PROVE  CommitLeft(h) \in Nat /\ CommitLeft(h)' \in Nat
    BY <1>2, <2>1, CommitAssumption DEF PlacesOK, Places, Ended, Names, CommitLeft,
       CommitSteps
  <2>2. ASSUME NEW h, pc'[h] = pc[h], cand'[h] = cand[h]
        PROVE  CommitLeft(h)' = CommitLeft(h)
    BY <2>2 DEF CommitLeft
  <2>3. ASSUME NEW g \in Handlers, CommitStep(g) PROVE PlacesOK' /\ CommitsRunDown
    <3>1. PlacesOK'
      BY <1>2, <2>3, StepDescends
    <3>2. ASSUME NEW h \in Handlers \ {g}
          PROVE  CommitLeft(h)' = CommitLeft(h)
      BY <1>2, <2>2, <2>3, StepDescends
    <3>3. ASSUME NEW h \in Handlers, CommitStep(h)
          PROVE  CommitLeft(h)' < CommitLeft(h) \/ Retaken(h)
      BY <1>2, <3>3, StepDescends
    <3>4. ASSUME NEW h \in Handlers, CommitLeft(h)' > CommitLeft(h)
          PROVE  Retaken(h) /\ CommitStep(h)
      <4>1. h = g
        BY <2>1, <3>1, <3>2, <3>4
      <4> QED
        BY <2>1, <2>3, <3>1, <3>3, <3>4, <4>1
    <3> QED
      BY <2>1, <3>1, <3>3, <3>4 DEF CommitsRunDown
  <2>4. ASSUME PlacesOK', \A h \in Handlers : CommitLeft(h)' <= CommitLeft(h) \/ Verified(h)
        PROVE  CommitsRunDown
    <3>1. ASSUME NEW h \in Handlers, CommitStep(h)
          PROVE  CommitLeft(h)' < CommitLeft(h) \/ Retaken(h)
      BY <1>2, <3>1, StepDescends
    <3> QED
      BY <2>1, <2>4, <3>1 DEF CommitsRunDown
  <2>5. ASSUME NEW g \in Handlers, Verified(g) PROVE PlacesOK' /\ CommitsRunDown
    <3>1. /\ PlacesOK'
          /\ \A h \in Handlers \ {g} : pc'[h] = pc[h] /\ cand'[h] = cand[h]
      BY <1>2, <2>5, CommitAssumption DEF Verified, Goto, PlacesOK, Places, Names
    <3> QED
      BY <2>1, <2>2, <2>4, <2>5, <3>1
  <2>6. CASE \E n \in Names : UserCreates(n) \/ UserRemoves(n) \/ UserReplaces(n)
    <3>1. pc' = pc /\ cand' = cand
      BY <2>6 DEF UserCreates, UserRemoves, UserReplaces, Becomes, handlerVars
    <3> QED
      BY <1>2, <2>1, <2>2, <2>4, <3>1 DEF PlacesOK
  <2>7. CASE Crash
    <3>1. pc' \in [Handlers -> {"done", "idle"}] /\ cand' = cand
      BY <2>7 DEF Crash
    <3>2. PlacesOK'
      BY <1>2, <3>1 DEF PlacesOK, Places, Ended
    <3>3. \A h \in Handlers : CommitLeft(h)' = 0
      BY <3>1 DEF CommitLeft, CommitSteps
    <3> QED
      BY <2>1, <2>4, <3>2, <3>3
  <2> QED
    BY <1>2, <2>3, <2>5, <2>6, <2>7 DEF Next
<1>3. PlacesOK /\ UNCHANGED vars => PlacesOK'
  BY DEF PlacesOK, vars, handlerVars
<1> QED
  BY <1>1, <1>2, <1>3, PTL DEF Spec
-----------------------------------------------------------------------------
(* Nothing is left behind *)

Tidy(h) ==
  /\ \A n \in Names : dir[n] = Hole(h) => pc[h] \in Reserving /\ cand[h] = n
  /\ temp[h] # "none" => pc[h] \in {"copying", "undo", "remove"} \cup WithCopy

\* Another handler's step makes no reservation of g's.
LEMMA HolesAreOwn ==
  ASSUME CommitInv, NEW h \in Handlers, Verified(h) \/ CommitStep(h),
         NEW g \in Handlers, g # h, NEW n \in Names, dir'[n] = Hole(g)
  PROVE  dir[n] = Hole(g)
<1>1. cand[h] \in Names /\ dir \in [Names -> Entry]
  BY DEF CommitInv, TypeOK
<1>2. \/ UNCHANGED dir
      \/ \E e \in {Hole(h), Free, Whole(PartOf[h]), Torn(PartOf[h])} :
           dir' = [dir EXCEPT ![cand[h]] = e]
  BY DEF Verified, CommitStep, Look, Link, LinkFails, Unlink, OpenCopy, FinishCopy,
     Reserve, Check, Replace, Undo, RemoveHole, Drop, dirVars, Copied
<1> QED
  BY <1>1, <1>2, Distinct

LEMMA TidyStep ==
  ASSUME CommitInv, \A h \in Handlers : Tidy(h), crashes' = 0,
         "disturb" \notin UserActs, [Next]_vars
  PROVE  \A h \in Handlers : Tidy(h)'
<1>1. ASSUME NEW h \in Handlers, Verified(h) \/ CommitStep(h),
             NEW g \in Handlers
      PROVE  Tidy(g)'
  <2>1. Moves(h) /\ TypeOK'
    BY <1>1, StepMoves
  <2>2. CASE g # h
    BY <1>1, <2>1, <2>2, HolesAreOwn DEF Tidy, Moves
  <2>3. CASE g = h
    <3>1. /\ cand[h] \in Names /\ dir \in [Names -> Entry]
          /\ pc \in [Handlers -> Places] /\ cand \in [Handlers -> Names]
          /\ temp \in [Handlers -> {"none", "torn", "whole"}]
          /\ Tidy(h)
      BY DEF CommitInv, TypeOK
    <3>2. CASE \/ Verified(h) \/ LinkFails(h) \/ OpenCopy(h) \/ FinishCopy(h)
               \/ Unlink(h) \/ Drop(h)
      BY <3>1, <3>2 DEF Tidy, Verified, LinkFails, OpenCopy, FinishCopy, Unlink,
         Drop, CopyError, Fail, Again, Goto, Reserving, WithCopy, dirVars
    <3>3. CASE Look(h, "look", "link") \/ Look(h, "seek", "reserve")
      BY <3>1, <3>3 DEF Tidy, Look, Goto, Reserving, WithCopy, dirVars
    <3>4. CASE Link(h)
      BY <3>1, <3>4, Distinct DEF Tidy, Link, AfterLink, Goto, Reserving, WithCopy
    <3>5. CASE Reserve(h)
      BY <3>1, <3>5, Distinct DEF Tidy, Reserve, Fail, Again, Goto, Reserving,
         WithCopy
    <3>6. CASE Check(h)
      BY <3>1, <3>6 DEF Tidy, Check, Goto, Reserving, WithCopy, dirVars
    <3>7. CASE Undo(h)
      <4>1. dir[cand[h]] = Hole(h)
        BY <3>7 DEF CommitInv, HandlerOK, Undo, Reserving
      <4> QED
        BY <3>1, <3>7, <4>1 DEF Tidy, Undo, Goto, Reserving, WithCopy, dirVars
    <3>8. CASE Replace(h)
      <4>1. Copied(h) # Hole(h)
        BY Distinct DEF Copied
      <4>2. CASE /\ dir' = [dir EXCEPT ![cand[h]] = Copied(h)]
                 /\ temp' = [temp EXCEPT ![h] = "none"] /\ Goto(h, "drop")
        <5>1. \A n \in Names : dir'[n] # Hole(h)
          BY <3>1, <3>8, <4>1, <4>2 DEF Tidy
        <5> QED
          BY <2>3, <3>1, <4>2, <5>1 DEF Tidy
      <4>3. CASE Goto(h, "undo") /\ UNCHANGED <<dir, temp>>
        BY <2>3, <3>1, <3>8, <4>3 DEF Tidy, Replace, Goto, Reserving, WithCopy
      <4> QED
        BY <3>8, <4>2, <4>3 DEF Replace
    <3>9. CASE RemoveHole(h)
      BY <3>1, <3>9, Distinct DEF Tidy, RemoveHole, Fail, Goto, Reserving, WithCopy
    <3> QED
      BY <1>1, <3>2, <3>3, <3>4, <3>5, <3>6, <3>7, <3>8, <3>9 DEF CommitStep, Tidy
  <2> QED
    BY <2>2, <2>3
<1>2. ASSUME NEW n \in Names, UserCreates(n) \/ UserRemoves(n) \/ UserReplaces(n),
             NEW h \in Handlers
      PROVE  Tidy(h)'
  <2>1. PICK e \in {Free, UserFile} : UserPuts(n, e)
    BY <1>2, UserLeaves
  <2>2. /\ dir' = [dir EXCEPT ![n] = e] /\ UNCHANGED <<pc, cand, temp>>
        /\ e # Hole(h) /\ dir \in [Names -> Entry]
    BY <2>1, Distinct DEF UserPuts, Becomes, handlerVars, CommitInv, TypeOK
  <2> QED
    BY <2>2 DEF Tidy
<1>3. ~Crash
  BY CommitAssumption DEF Crash, CommitInv, TypeOK
<1>4. CASE UNCHANGED vars
  BY <1>4 DEF vars, dirVars, handlerVars, Tidy
<1> QED
  BY <1>1, <1>2, <1>3, <1>4 DEF Next

\* Whatever fails, commit_partial_file leaves neither a hidden copy nor an empty
\* name, unless the program is killed in it.
THEOREM CommitLeavesNothing ==
  ASSUME "disturb" \notin UserActs
  PROVE  Spec => []EndsClean
<1> DEFINE All == crashes = 0 => \A h \in Handlers : Tidy(h)
<1>1. Init => All
  <2> SUFFICES ASSUME Init, NEW h \in Handlers PROVE Tidy(h)
    OBVIOUS
  <2>1. \A n \in Names : dir[n] \in {Free, UserFile}
    BY DEF Init
  <2> QED
    BY <2>1, Distinct DEF Init, Tidy
<1>2. CommitInv /\ All /\ [Next]_vars => All'
  <2> SUFFICES ASSUME CommitInv, All, [Next]_vars, crashes' = 0
               PROVE  \A h \in Handlers : Tidy(h)'
    OBVIOUS
  <2>1. crashes = 0
    BY DEF Next, Verified, CommitStep, Look, Link, LinkFails, Unlink, OpenCopy,
       FinishCopy, Reserve, Check, Replace, Undo, RemoveHole, Drop, UserCreates,
       UserRemoves, UserReplaces, Becomes, Crash, vars, boundVars, CommitInv, TypeOK
  <2> QED
    BY <2>1, TidyStep
<1>3. All => EndsClean
  BY DEF Tidy, EndsClean, Ended, Reserving, WithCopy
<1> QED
  BY <1>1, <1>2, <1>3, Invariant, PTL DEF Spec
-----------------------------------------------------------------------------
(* The refinement *)

\* What the abstract specification sees.
View == [n \in Names |-> IF dir[n].kind = "hole" THEN Free ELSE dir[n]]
Owed == {h \in Handlers : pc[h] \in Before /\ h \notin exposed}

LEMMA OnceStep ==
  ASSUME CommitInv, Once, "disturb" \notin UserActs,
         "unlink" \notin Faults, [Next]_vars
  PROVE  Once'
<1>1. ASSUME NEW h \in Handlers, Verified(h) \/ CommitStep(h),
             NEW g \in Handlers, pc'[g] \in Before
      PROVE  g \notin exposed'
  <2>1. Moves(h)
    BY <1>1, StepMoves
  <2>2. CASE g # h
    BY <1>1, <2>1, <2>2 DEF Moves, Once
  <2>3. CASE g = h
    <3>1. pc \in [Handlers -> Places] /\ HandlerOK(h)
      BY DEF CommitInv, TypeOK
    <3> QED
      BY <1>1, <2>3, <3>1 DEF Once, Before, HandlerOK, Verified, CommitStep, Look,
         Link, AfterLink, LinkFails, Unlink, OpenCopy, FinishCopy, CopyError,
         Reserve, Check, Replace, Undo, RemoveHole, Drop, Fail, Again, Goto
  <2> QED
    BY <2>2, <2>3
<1>2. CASE Crash
  BY <1>2 DEF Crash, Once, Before
<1>3. ASSUME NEW n \in Names, UserCreates(n) \/ UserRemoves(n) \/ UserReplaces(n)
      PROVE  Once'
  BY <1>3 DEF UserCreates, UserRemoves, UserReplaces, Becomes, handlerVars, Once
<1>4. CASE UNCHANGED vars
  BY <1>4 DEF vars, handlerVars, Once
<1> QED
  BY <1>1, <1>2, <1>3, <1>4 DEF Next, Once

\* One handler leaves, enters or stays among those that owe a file.
LEMMA OwedMoves ==
  ASSUME CommitInv, Once, Once', NEW h \in Handlers, Moves(h)
  PROVE  /\ pc'[h] \in Before /\ pc[h] \in Before => UNCHANGED Owed
         /\ pc'[h] \notin Before /\ pc[h] \notin Before => UNCHANGED Owed
         /\ pc'[h] \notin Before /\ pc[h] \in Before =>
              h \in Owed /\ Owed' = Owed \ {h}
         /\ pc'[h] \in Before /\ pc[h] \notin Before =>
              h \notin Owed /\ Owed' = Owed \cup {h}
BY DEF Owed, Once, Moves

LEMMA EntryKinds ==
  /\ Free.kind = "free" /\ UserFile.kind = "user"
  /\ \A h : Hole(h).kind = "hole"
  /\ \A t : Whole(t).kind = "whole"
BY DEF Free, UserFile, Hole, Whole

\* A reservation is not seen.
LEMMA ViewStays ==
  ASSUME CommitInv, NEW h \in Handlers,
         NEW e \in {Free, Hole(h)}, dir[cand[h]] \in {Free, Hole(h)},
         dir' = [dir EXCEPT ![cand[h]] = e]
  PROVE  UNCHANGED View
BY EntryKinds DEF View, CommitInv, TypeOK

LEMMA ViewShows ==
  ASSUME CommitInv, NEW n \in Names, NEW e, e.kind # "hole",
         dir[n] = Free \/ (\E h \in Handlers : dir[n] = Hole(h)),
         dir' = [dir EXCEPT ![n] = e]
  PROVE  View[n] = Free /\ View' = [View EXCEPT ![n] = e]
BY EntryKinds DEF View, CommitInv, TypeOK

LEMMA StepMaps ==
  ASSUME CommitInv, Once, "disturb" \notin UserActs,
         "unlink" \notin Faults, [Next]_vars
  PROVE  Abstract!Next \/ UNCHANGED <<View, Owed>>
<1>0. Once'
  BY OnceStep
<1>1. ASSUME NEW h \in Handlers, Verified(h) \/ CommitStep(h)
      PROVE  Abstract!Next \/ UNCHANGED <<View, Owed>>
  <2>1. /\ Moves(h) /\ cand[h] \in Names /\ PartOf[h] \in Transfers
        /\ pc \in [Handlers -> Places] /\ HandlerOK(h)
    BY <1>1, StepMoves, CommitAssumption DEF CommitInv, TypeOK
  <2>2. CASE UNCHANGED View
    <3>1. CASE UNCHANGED Owed
      BY <2>2, <3>1
    <3>2. CASE h \in Owed /\ Owed' = Owed \ {h}
      <4>1. Abstract!GivenUp
        <5>1. {h} \in SUBSET Owed
          BY <3>2
        <5> QED
          BY <2>2, <3>2, <5>1 DEF Abstract!GivenUp, View, Owed
      <4> QED
        BY <4>1 DEF Abstract!Next
    <3>3. CASE h \notin Owed /\ Owed' = Owed \cup {h}
      <4>1. Abstract!Verify(h)
        BY <2>2, <3>3 DEF Abstract!Verify, View, Owed
      <4> QED
        BY <4>1 DEF Abstract!Next
    <3> QED
      BY <1>0, <2>1, <3>1, <3>2, <3>3, OwedMoves
  <2>3. ASSUME pc[h] \in Before, pc'[h] \notin Before,
               dir[cand[h]] \in {Free, Hole(h)},
               dir' = [dir EXCEPT ![cand[h]] = Whole(PartOf[h])]
        PROVE  Abstract!Next
    <3>1. h \in Owed /\ Owed' = Owed \ {h}
      BY <1>0, <2>1, <2>3, OwedMoves
    <3>2. PICK n \in Names : n = cand[h]
      BY <2>1
    <3>3. /\ View[n] = Free
          /\ View' = [View EXCEPT ![n] = Whole(PartOf[h])]
      <4>1. Whole(PartOf[h]).kind # "hole"
        BY EntryKinds
      <4> QED
        BY <2>1, <2>3, <3>2, <4>1, ViewShows
    <3>4. Free = Abstract!Free /\ Whole(PartOf[h]) = Abstract!Whole(PartOf[h])
      BY DEF Free, Whole, None, Abstract!Free, Abstract!Whole
    <3>5. Abstract!Expose(h, n)
      BY <3>1, <3>3, <3>4 DEF Abstract!Expose, View, Owed
    <3> QED
      BY <3>5 DEF Abstract!Next
  <2>4. CASE Link(h)
    BY <2>1, <2>3, <2>4 DEF Link, InUse, AfterLink, Goto, Before
  <2>5. CASE Replace(h)
    <3>1. dir[cand[h]] = Hole(h) /\ Copied(h) = Whole(PartOf[h])
      BY <2>1, <2>5 DEF HandlerOK, Replace, Reserving, WithCopy, Copied
    <3>2. CASE Goto(h, "undo") /\ UNCHANGED dir
      BY <2>2, <3>2 DEF View
    <3> QED
      BY <2>1, <2>3, <2>5, <3>1, <3>2 DEF Replace, Goto, Before
  <2>6. CASE Reserve(h) \/ RemoveHole(h)
    <3>1. CASE UNCHANGED dir
      BY <2>2, <3>1 DEF View
    <3>2. CASE \/ dir[cand[h]] = Free /\ dir' = [dir EXCEPT ![cand[h]] = Hole(h)]
               \/ dir[cand[h]] = Hole(h) /\ dir' = [dir EXCEPT ![cand[h]] = Free]
      BY <2>2, <3>2, ViewStays
    <3> QED
      BY <2>1, <2>6, <3>1, <3>2 DEF Reserve, RemoveHole, InUse, HandlerOK, Reserving
  <2>7. CASE UNCHANGED dir
    BY <2>2, <2>7 DEF View
  <2> QED
    BY <1>1, <2>4, <2>5, <2>6, <2>7 DEF Verified, CommitStep, Look, LinkFails,
       Unlink, OpenCopy, FinishCopy, Check, Undo, Drop, dirVars
<1>2. CASE Crash
  <2>1. UNCHANGED View /\ Owed' = {}
    BY <1>2 DEF Crash, dirVars, View, Owed, Before
  <2>2. Owed \in SUBSET Owed /\ Owed' = Owed \ Owed
    BY <2>1
  <2>3. Abstract!GivenUp
    BY <2>1, <2>2 DEF Abstract!GivenUp, View, Owed
  <2> QED
    BY <2>3 DEF Abstract!Next
<1>3. ASSUME NEW n \in Names, UserCreates(n) \/ UserRemoves(n) \/ UserReplaces(n)
      PROVE  Abstract!Next
  <2>1. PICK e \in {Free, UserFile} : UserPuts(n, e)
    BY <1>3, UserLeaves
  <2>2. View' = [View EXCEPT ![n] = e] /\ UNCHANGED Owed
    BY <2>1, EntryKinds DEF UserPuts, Becomes, handlerVars, View, Owed, CommitInv, TypeOK
  <2>3. UserFile = Abstract!UserFile /\ Free = Abstract!Free
    BY DEF UserFile, Free, None, Abstract!UserFile, Abstract!Free
  <2>4. Abstract!Rearrange(n)
    BY <2>2, <2>3 DEF Abstract!Rearrange, View, Owed
  <2> QED
    BY <2>4 DEF Abstract!Next
<1>4. CASE UNCHANGED vars
  BY <1>4 DEF vars, dirVars, handlerVars, View, Owed
<1> QED
  BY <1>1, <1>2, <1>3, <1>4 DEF Next

\* commit_partial_file exposes each verified file at once, whole, under a free
\* name and no more often than a handler verified it (AtomicCommit), for every
\* number of handlers, provided an unlink after a link does not fail.
THEOREM CommitIsAtomic ==
  ASSUME "disturb" \notin UserActs, "unlink" \notin Faults
  PROVE  Spec => ExposedAtOnce
<1>1. Init => Abstract!Init /\ Once
  <2> SUFFICES ASSUME Init PROVE Abstract!Init /\ Once
    OBVIOUS
  <2>1. \A n \in Names : dir[n] \in {Free, UserFile}
    BY DEF Init
  <2>2. View \in [Names -> {Abstract!Free, Abstract!UserFile}]
    BY <2>1, EntryKinds DEF View, Free, UserFile, None, Abstract!Free, Abstract!UserFile
  <2> QED
    BY <2>2 DEF Init, Abstract!Init, View, Once, Before
<1>2. CommitInv /\ Once /\ [Next]_vars => Once'
  BY OnceStep
<1>3. CommitInv /\ Once /\ [Next]_vars => [Abstract!Next]_(Abstract!vars)
  BY StepMaps DEF Abstract!vars, View, Owed
<1> QED
  BY <1>1, <1>2, <1>3, Invariant, PTL DEF Spec, ExposedAtOnce, Abstract!Spec
=============================================================================
