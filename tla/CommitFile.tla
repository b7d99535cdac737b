----------------------------- MODULE CommitFile -----------------------------
(***************************************************************************)
(* commit_partial_file (core/resume.py), step by step: the handlers that   *)
(* have verified a partial file give it a name in the receive directory,   *)
(* by a hard link or, where none can be made, by a copy that replaces a    *)
(* name reserved before.  The user works in the same directory, calls     *)
(* fail, and the program may be killed between any two steps.             *)
(***************************************************************************)
EXTENDS Naturals, FiniteSets

CONSTANTS
  Handlers,    \* receiving handlers
  Transfers,   \* transfers that offer a file of the same name
  PartOf,      \* the transfer whose file each handler receives
  MaxName,     \* bound: the names tried, the plain one, then (1), (2) ...
  Faults,      \* calls that may fail
  UserActs,    \* what the user does in the directory
  MaxOwn,      \* bound: names that may hold files of the user's at first
  MaxActs,     \* bound: how often the user does it
  MaxRuns,     \* bound: sessions that verify a file
  MaxCrashes   \* bound: times the program is killed

Names == 1..MaxName
None == "none"

ASSUME CommitAssumption ==
  /\ PartOf \in [Handlers -> Transfers] /\ None \notin Transfers \cup Handlers
  /\ MaxName \in Nat \ {0}
  /\ Faults \subseteq {"link", "unlink", "copy", "reserve", "replace", "drop"}
  /\ UserActs \subseteq {"create", "remove", "replace", "disturb"}
  /\ MaxOwn \in Nat /\ MaxActs \in Nat /\ MaxRuns \in Nat /\ MaxCrashes \in Nat

VARIABLES
  dir,      \* what each name holds
  part,     \* the transfers whose partial file is there
  pc,       \* where each handler is in commit_partial_file
  cand,     \* its destination
  temp,     \* its hidden .tmp-commit file
  exposed,  \* history: handlers that have exposed their file in this commit
  taken,    \* history: transfers whose file the user has removed or replaced
  received, \* history: transfers whose file has been verified
  acts, runs, crashes   \* bounds

dirVars == <<dir, taken>>
handlerVars == <<pc, cand, temp, exposed>>
boundVars == <<acts, runs, crashes>>
vars == <<dirVars, part, received, handlerVars, boundVars>>

Free == [kind |-> "free", by |-> None]
UserFile == [kind |-> "user", by |-> None]
Hole(h) == [kind |-> "hole", by |-> h]     \* the empty file h reserved
Whole(t) == [kind |-> "whole", by |-> t]   \* the verified content of t
Torn(t) == [kind |-> "torn", by |-> t]     \* a part of it

Entry == {Free, UserFile} \cup {Hole(h) : h \in Handlers}
           \cup {Whole(t) : t \in Transfers} \cup {Torn(t) : t \in Transfers}

Ended == {"idle", "done", "failed"}
Places == Ended \cup {"look", "link", "unlink", "copy", "copying", "seek",
                      "reserve", "check", "replace", "undo", "remove", "drop"}

TypeOK ==
  /\ dir \in [Names -> Entry] /\ part \in SUBSET Transfers
  /\ pc \in [Handlers -> Places] /\ cand \in [Handlers -> Names]
  /\ temp \in [Handlers -> {"none", "torn", "whole"}]
  /\ exposed \in SUBSET Handlers /\ taken \in SUBSET Transfers
  /\ received \in SUBSET Transfers /\ acts \in 0..MaxActs /\ runs \in 0..MaxRuns
  /\ crashes \in 0..MaxCrashes

Init ==
  /\ \E own \in SUBSET (Names \cap 1..MaxOwn) :
       dir = [n \in Names |-> IF n \in own THEN UserFile ELSE Free]
  /\ part = {}
  /\ pc = [h \in Handlers |-> "idle"] /\ cand = [h \in Handlers |-> 1]
  /\ temp = [h \in Handlers |-> "none"]
  /\ exposed = {} /\ taken = {} /\ received = {}
  /\ acts = 0 /\ runs = 0 /\ crashes = 0

-----------------------------------------------------------------------------
(* The handlers *)

Goto(h, place) == pc' = [pc EXCEPT ![h] = place]

\* The handler of a session that has not been told the file is complete has
\* received and verified it; it enters commit_partial_file.
Verified(h) ==
  /\ pc[h] \in {"idle", "failed"} /\ runs < MaxRuns
  /\ runs' = runs + 1
  /\ part' = part \cup {PartOf[h]} /\ received' = received \cup {PartOf[h]}
  /\ Goto(h, "look") /\ cand' = [cand EXCEPT ![h] = 1]
  /\ exposed' = exposed \ {h}
  /\ UNCHANGED <<dirVars, temp, acts, crashes>>

\* resolve_destination_collision: one name after the other, until one does not
\* exist.
Look(h, from, to) ==
  /\ pc[h] = from
  /\ IF dir[cand[h]] = Free
     THEN Goto(h, to) /\ UNCHANGED cand
     ELSE /\ cand[h] < MaxName
          /\ cand' = [cand EXCEPT ![h] = @ + 1] /\ UNCHANGED pc
  /\ UNCHANGED <<dirVars, part, temp, exposed, received, boundVars>>

\* Mutant of InUse: whatever the name holds, it can be had.
NotInUse(h) == FALSE

\* What os.link and O_EXCL ask of the name, in the step that takes it.
InUse(h) == dir[cand[h]] # Free

\* Mutant of Again: the same name is tried again.
AgainTheSame(h, place) == UNCHANGED <<pc, cand>>

\* The name has been taken since: another is looked for, from the first.
Again(h, place) == Goto(h, place) /\ cand' = [cand EXCEPT ![h] = 1]

\* Mutant of AfterLink: the loop is left as after an error.
AfterLinkCopy == "copy"

AfterLink == "unlink"

Link(h) ==
  /\ pc[h] = "link" /\ PartOf[h] \in part /\ ~InUse(h)
  /\ dir' = [dir EXCEPT ![cand[h]] = Whole(PartOf[h])]
  /\ exposed' = exposed \cup {h} /\ Goto(h, AfterLink)
  /\ UNCHANGED <<taken, part, cand, temp, received, boundVars>>

\* Mutant of LinkFails: the partial is unlinked in a finally clause.
LinkFailsAndDrops(h) ==
  /\ pc[h] = "link" /\ (PartOf[h] \notin part \/ InUse(h) \/ "link" \in Faults)
  /\ Goto(h, "copy") /\ part' = part \ {PartOf[h]}
  /\ UNCHANGED <<cand, dirVars, temp, exposed, received, boundVars>>

\* The partial is not there, the name is, or no link can be made: the
\* filesystem has none, or the call fails.
LinkFails(h) ==
  /\ pc[h] = "link"
  /\ \/ PartOf[h] \in part /\ InUse(h) /\ Again(h, "look")
     \/ /\ PartOf[h] \notin part \/ (~InUse(h) /\ "link" \in Faults)
        /\ Goto(h, "copy") /\ UNCHANGED cand
  /\ UNCHANGED <<dirVars, part, temp, exposed, received, boundVars>>

\* An OSError of unlink is taken for one of link.
Unlink(h) ==
  /\ pc[h] = "unlink"
  /\ \/ part' = part \ {PartOf[h]} /\ Goto(h, "done")
     \/ "unlink" \in Faults /\ Goto(h, "copy") /\ UNCHANGED part
  /\ UNCHANGED <<dirVars, cand, temp, exposed, received, boundVars>>

\* The hidden file is created once the partial could be opened.
OpenCopy(h) ==
  /\ pc[h] = "copy"
  /\ IF PartOf[h] \in part
     THEN Goto(h, "copying") /\ temp' = [temp EXCEPT ![h] = "torn"]
     ELSE Goto(h, "failed") /\ UNCHANGED temp
  /\ UNCHANGED <<dirVars, part, cand, exposed, received, boundVars>>

\* The finally clause removes the hidden file as an error is raised.
Fail(h) == Goto(h, "failed") /\ temp' = [temp EXCEPT ![h] = "none"]

CopyError(h) == Fail(h) /\ UNCHANGED cand

FinishCopy(h) ==
  /\ pc[h] = "copying"
  /\ \/ temp' = [temp EXCEPT ![h] = "whole"] /\ Again(h, "seek")
     \/ "copy" \in Faults /\ CopyError(h)
  /\ UNCHANGED <<dirVars, part, exposed, received, boundVars>>

Reserve(h) ==
  /\ pc[h] = "reserve"
  /\ \/ /\ ~InUse(h)
        /\ dir' = [dir EXCEPT ![cand[h]] = Hole(h)]
        /\ Goto(h, "check") /\ UNCHANGED <<cand, temp>>
     \/ InUse(h) /\ Again(h, "seek") /\ UNCHANGED <<dir, temp>>
     \/ "reserve" \in Faults /\ Fail(h) /\ UNCHANGED <<dir, cand>>
  /\ UNCHANGED <<taken, part, exposed, received, boundVars>>

\* The name must still hold the file that was reserved, when it is looked at.
Check(h) ==
  /\ pc[h] = "check"
  /\ Goto(h, IF dir[cand[h]] = Hole(h) THEN "replace" ELSE "undo")
  /\ UNCHANGED <<dirVars, part, cand, temp, exposed, received, boundVars>>

Copied(h) == IF temp[h] = "whole" THEN Whole(PartOf[h]) ELSE Torn(PartOf[h])

\* os.replace puts the hidden file in the place of whatever the name holds.
Replace(h) ==
  /\ pc[h] = "replace"
  /\ \/ /\ dir' = [dir EXCEPT ![cand[h]] = Copied(h)]
        /\ temp' = [temp EXCEPT ![h] = "none"]
        /\ exposed' = exposed \cup {h} /\ Goto(h, "drop")
     \/ "replace" \in Faults /\ Goto(h, "undo") /\ UNCHANGED <<dir, temp, exposed>>
  /\ UNCHANGED <<taken, part, cand, received, boundVars>>

\* Mutant of Undo: the reservation is left to itself.
UndoNothing(h) ==
  /\ pc[h] = "undo" /\ Fail(h)
  /\ UNCHANGED <<dirVars, part, cand, exposed, received, boundVars>>

\* After an error: is the name still the one reserved?
Undo(h) ==
  /\ pc[h] = "undo"
  /\ IF dir[cand[h]] = Hole(h) THEN Goto(h, "remove") /\ UNCHANGED temp ELSE Fail(h)
  /\ UNCHANGED <<dirVars, part, cand, exposed, received, boundVars>>

\* The name is removed, whatever it holds by now.
RemoveHole(h) ==
  /\ pc[h] = "remove"
  /\ dir' = [dir EXCEPT ![cand[h]] = Free] /\ Fail(h)
  /\ UNCHANGED <<taken, part, cand, exposed, received, boundVars>>

Drop(h) ==
  /\ pc[h] = "drop"
  /\ \/ part' = part \ {PartOf[h]} /\ Goto(h, "done")
     \/ "drop" \in Faults /\ Goto(h, "failed") /\ UNCHANGED part
  /\ UNCHANGED <<dirVars, cand, temp, exposed, received, boundVars>>

CommitStep(h) ==
  \/ Look(h, "look", "link") \/ Link(h) \/ LinkFails(h) \/ Unlink(h)
  \/ OpenCopy(h) \/ FinishCopy(h) \/ Look(h, "seek", "reserve") \/ Reserve(h)
  \/ Check(h) \/ Replace(h) \/ Undo(h) \/ RemoveHole(h) \/ Drop(h)

-----------------------------------------------------------------------------
(* The user and the machine *)

\* A name gets a new entry from outside the program.
Becomes(n, e) ==
  /\ acts < MaxActs /\ acts' = acts + 1
  /\ dir' = [dir EXCEPT ![n] = e]
  /\ taken' = taken \cup {t \in Transfers : dir[n] = Whole(t)}
  /\ UNCHANGED <<part, received, handlerVars, runs, crashes>>

\* Without "disturb" the user leaves the empty file of a commit under way alone.
Reserving == {"check", "replace", "undo", "remove"}
Reserved(n) == \E h \in Handlers : pc[h] \in Reserving /\ cand[h] = n
MayTouch(n) == dir[n] # Free /\ (Reserved(n) => "disturb" \in UserActs)

UserCreates(n) == "create" \in UserActs /\ dir[n] = Free /\ Becomes(n, UserFile)
UserRemoves(n) == "remove" \in UserActs /\ MayTouch(n) /\ Becomes(n, Free)
UserReplaces(n) == "replace" \in UserActs /\ MayTouch(n) /\ Becomes(n, UserFile)

\* Files stay as they are; every commit is lost, and so is the record that one
\* had ended unless it was written by then.
Crash ==
  /\ crashes < MaxCrashes /\ crashes' = crashes + 1
  /\ \E H \in SUBSET {h \in Handlers : pc[h] = "done"} :
       pc' = [h \in Handlers |-> IF h \in H THEN "done" ELSE "idle"]
  /\ temp' = [h \in Handlers |-> "none"]
  /\ UNCHANGED <<dirVars, part, received, cand, exposed, acts, runs>>

-----------------------------------------------------------------------------
Next ==
  \/ \E h \in Handlers : Verified(h) \/ CommitStep(h)
  \/ \E n \in Names : UserCreates(n) \/ UserRemoves(n) \/ UserReplaces(n)
  \/ Crash

Spec == Init /\ [][Next]_vars

\* A thread that commits is scheduled in the end.
FairSpec == Spec /\ \A h \in Handlers : WF_vars(CommitStep(h))

-----------------------------------------------------------------------------
(* Properties *)

\* No step of the program changes a name that holds anything but the empty file
\* which the program has reserved there itself: neither a file of the user nor
\* one received before is overwritten (the docstring of commit_partial_file),
\* though the name was looked up some steps ago.
NothingOverwritten ==
  [][\A n \in Names : dir'[n] # dir[n] =>
       \/ dir[n] = Free \/ acts' # acts
       \/ \E h \in Handlers : dir[n] = Hole(h)]_vars

\* What has been verified stays, in its partial file or under a name the
\* user can see, until the user takes it away, through errors and restarts.
NeverLost ==
  \A t \in received :
    t \in part \cup taken \/ \E n \in Names : dir[n] = Whole(t)

\* A commit that has ended has left no name empty and no hidden copy behind,
\* whatever failed in it.  A program killed in one leaves both.
EndsClean ==
  crashes = 0 =>
    \A h \in Handlers : pc[h] \in Ended =>
      temp[h] = "none" /\ \A n \in Names : dir[n] # Hole(h)

\* A commit ends, though other commits and the user take the names it looks up:
\* the two loops do not go on for ever.
CommitEnds == \A h \in Handlers : pc[h] = "look" ~> pc[h] \in Ended

\* Seen from outside, a verified file appears once for each handler that
\* verified it, at once and whole, under a name that was free (AtomicCommit).
\* A reserved name counts as free.
Before == {"look", "link", "copy", "copying", "seek", "reserve", "check",
           "replace"}

Abstract == INSTANCE AtomicCommit WITH
  dir <- [n \in Names |-> IF dir[n].kind = "hole" THEN Free ELSE dir[n]],
  owed <- {h \in Handlers : pc[h] \in Before /\ h \notin exposed}

ExposedAtOnce == Abstract!Spec

=============================================================================
