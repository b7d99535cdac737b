----------------------------- MODULE StateFiles -----------------------------
(***************************************************************************)
(* What the program keeps in its directory between two starts: the         *)
(* identity key and the metadata made from it (core/identity.py), and the  *)
(* decisions of the user (core/trust.py; core/address_book.py loads and    *)
(* saves in the same way).  Each is one small file, replaced by a renamed  *)
(* temporary file.  A process may be killed anywhere, the power may fail,  *)
(* any call of the filesystem may fail, and a file may have been damaged.  *)
(***************************************************************************)
EXTENDS Naturals, FiniteSets

CONSTANTS
  Absent, Damaged,  \* a file that is not there; one that cannot be read
  Devices,     \* devices the user decides about
  Runs,        \* runs of the program; each names the key it would generate
  MaxUp,       \* runs at the same time
  Unreadable,  \* files a read may fail for although they are whole
  MaxActs,     \* bound: decisions of the user
  MaxFaults,   \* bound: failing saves and reads
  MaxLoss,     \* bound: power failures
  MaxHarm      \* bound: files damaged while no run is up

Files == {"key", "meta", "store"}

ASSUME StateAssumption ==
  /\ Unreadable \subseteq Files /\ {MaxUp, MaxActs, MaxFaults, MaxLoss, MaxHarm} \subseteq Nat
  /\ {Absent, Damaged} \cap (Runs \cup Devices) = {} /\ IsFiniteSet(Runs)
  /\ \A D \in SUBSET Devices : D \notin {Absent, Damaged}

VARIABLES
  file,     \* what a reader finds in each file
  durable,  \* what a reader would find after a power failure
  pc,       \* where each run is
  temp,     \* it has written and flushed its temporary file
  ident,    \* the key it signs with
  mem,      \* the trusted devices in its memory
  act,      \* the decision it is saving: the device, and whether it is trusted
  told,     \* the devices whose trust was last reported as saved
  unsure,   \* the devices nothing is known of: the save failed, or the file was lost
  harmed,   \* the files that were damaged from outside, or lost to the power
  count     \* bound: what happened so often

runVars == <<pc, temp, ident, mem, act>>
ghosts == <<told, unsure, harmed>>
vars == <<file, durable, runVars, ghosts, count>>

Saving == {"savekey", "savemeta", "save"}
NoAct == [device |-> Absent, on |-> FALSE]
Bounds == [acts |-> MaxActs, faults |-> MaxFaults, loss |-> MaxLoss, harm |-> MaxHarm]

TypeOK ==
  /\ \A f \in {file, durable} :
       /\ {f["key"], f["meta"]} \subseteq Runs \cup {Absent, Damaged}
       /\ f["store"] \in {Absent, Damaged} \cup SUBSET Devices
  /\ pc \in [Runs -> {"off", "key", "meta", "load", "up", "down"} \cup Saving]
  /\ temp \in [Runs -> BOOLEAN] /\ ident \in [Runs -> Runs \cup {Absent}]
  /\ mem \in [Runs -> SUBSET Devices]
  /\ act \in [Runs -> {NoAct} \cup [device : Devices, on : BOOLEAN]]
  /\ told \subseteq Devices /\ unsure \subseteq Devices /\ harmed \subseteq Files
  /\ \A k \in DOMAIN Bounds : count[k] \in 0..Bounds[k]

\* What is loaded from a store that cannot be read: nothing.
Known(c) == IF c \in {Absent, Damaged} THEN {} ELSE c

Init ==
  /\ file = [n \in Files |-> Absent] /\ durable = file
  /\ pc = [r \in Runs |-> "off"] /\ temp = [r \in Runs |-> FALSE]
  /\ ident = [r \in Runs |-> Absent] /\ mem = [r \in Runs |-> {}]
  /\ act = [r \in Runs |-> NoAct]
  /\ told = {} /\ unsure = {} /\ harmed = {}
  /\ count = [k \in DOMAIN Bounds |-> 0]

Goto(r, place) == pc' = [pc EXCEPT ![r] = place]
Counted(k) == count[k] < Bounds[k] /\ count' = [count EXCEPT ![k] = @ + 1]
IsUp(r) == pc[r] \notin {"off", "down"}

-----------------------------------------------------------------------------
(* Replacing a file: _atomic_write, _save *)

Target(place) ==
  IF place = "savekey" THEN "key" ELSE IF place = "savemeta" THEN "meta" ELSE "store"
Content(r) == IF pc[r] = "save" THEN mem[r] ELSE ident[r]
Then(place) ==
  IF place = "savekey" THEN "meta" ELSE IF place = "savemeta" THEN "load" ELSE "up"

\* The content goes to a file of its own first.
Write(r) ==
  /\ pc[r] \in Saving /\ ~temp[r]
  /\ temp' = [temp EXCEPT ![r] = TRUE]
  /\ UNCHANGED <<file, durable, pc, ident, mem, act, ghosts, count>>

\* The content was flushed before the rename; the rename itself is not.
Renamed(n) == durable

Replace(r) ==
  /\ pc[r] \in Saving /\ temp[r]
  /\ file' = [file EXCEPT ![Target(pc[r])] = Content(r)]
  /\ durable' = Renamed(Target(pc[r]))
  /\ temp' = [temp EXCEPT ![r] = FALSE] /\ Goto(r, Then(pc[r]))
  /\ IF pc[r] = "save"
     THEN /\ told' = IF act[r].on THEN told \cup {act[r].device}
                                  ELSE told \ {act[r].device}
          /\ unsure' = unsure \ {act[r].device} /\ act' = [act EXCEPT ![r] = NoAct]
     ELSE UNCHANGED <<told, unsure, act>>
  /\ UNCHANGED <<ident, mem, harmed, count>>

\* The error is the caller's.  A start ends with it; a decision is reported as
\* failed, but stays in memory.
SaveFails(r) ==
  /\ pc[r] \in Saving /\ Counted("faults")
  /\ temp' = [temp EXCEPT ![r] = FALSE]
  /\ IF pc[r] = "save"
     THEN /\ Goto(r, "up") /\ unsure' = unsure \cup {act[r].device}
          /\ act' = [act EXCEPT ![r] = NoAct]
     ELSE Goto(r, "down") /\ UNCHANGED <<unsure, act>>
  /\ UNCHANGED <<file, durable, ident, mem, told, harmed>>

-----------------------------------------------------------------------------
(* A start *)

Start(r) ==
  /\ pc[r] = "off" /\ Cardinality({p \in Runs : IsUp(p)}) < MaxUp /\ Goto(r, "key")
  /\ UNCHANGED <<file, durable, temp, ident, mem, act, ghosts, count>>

ReadFails(n) == n \in Unreadable /\ Counted("faults")

\* Mutant of LoadsKey: only with its metadata.
LoadsKeyWithMeta == file["key"] \in Runs /\ file["meta"] \in Runs
LoadsKey == file["key"] \in Runs

\* A key that cannot be read, for whatever reason, is replaced by a new one.
LoadKey(r) ==
  /\ pc[r] = "key"
  /\ \/ LoadsKey /\ ident' = [ident EXCEPT ![r] = file["key"]]
        /\ Goto(r, "meta") /\ UNCHANGED count
     \/ /\ \/ ~LoadsKey /\ UNCHANGED count
           \/ ReadFails("key")
        /\ ident' = [ident EXCEPT ![r] = r] /\ Goto(r, "savekey")
  /\ UNCHANGED <<file, durable, temp, mem, act, ghosts>>

\* Mutant of MetaIsMade: written once, and never again.
MetaIsMadeOnce == file["meta"] \in {Absent, Damaged}

\* The metadata is made anew from the key at every start.
MetaIsMade == TRUE

\* What is damaged beyond the text encoding raises an error that is not caught.
LoadMeta(r) ==
  /\ pc[r] = "meta"
  /\ \/ Goto(r, IF MetaIsMade THEN "savemeta" ELSE "load")
     \/ file["meta"] = Damaged /\ Goto(r, "down")
  /\ UNCHANGED <<file, durable, temp, ident, mem, act, ghosts, count>>

\* A store that cannot be read is ignored: the next save replaces it.
LoadStore(r) ==
  /\ pc[r] = "load"
  /\ \/ /\ mem' = [mem EXCEPT ![r] = Known(file["store"])]
        /\ Goto(r, "up") /\ UNCHANGED <<unsure, count>>
     \/ /\ ReadFails("store") /\ unsure' = Devices
        /\ Goto(r, "up") /\ UNCHANGED mem
     \/ /\ file["store"] = Damaged /\ Goto(r, "down")
        /\ UNCHANGED <<mem, unsure, count>>
  /\ UNCHANGED <<file, durable, temp, ident, act, told, harmed>>

-----------------------------------------------------------------------------
(* Decisions *)

\* Mutant of Saved: only a device that is new to the memory is saved.
SavedIfNew(r, d, on) == on /\ d \notin mem[r]

\* trust saves always, untrust what was there.
Saved(r, d, on) == on \/ d \in mem[r]

\* The memory changes first.
Decide(r, d, on) ==
  /\ pc[r] = "up" /\ Counted("acts")
  /\ mem' = [mem EXCEPT ![r] = IF on THEN @ \cup {d} ELSE @ \ {d}]
  /\ IF Saved(r, d, on)
     THEN /\ act' = [act EXCEPT ![r] = [device |-> d, on |-> on]]
          /\ Goto(r, "save") /\ UNCHANGED told
     ELSE /\ told' = IF on THEN told \cup {d} ELSE told \ {d}
          /\ UNCHANGED <<pc, act>>
  /\ UNCHANGED <<file, durable, temp, ident, unsure, harmed>>

-----------------------------------------------------------------------------
(* The end of a run, and what happens to the disk *)

\* The program ends or is killed; a decision under way has been reported to nobody.
End(r) ==
  /\ IsUp(r) /\ Goto(r, "down")
  /\ unsure' = unsure \cup ({act[r].device} \cap Devices)
  /\ act' = [act EXCEPT ![r] = NoAct] /\ temp' = [temp EXCEPT ![r] = FALSE]
  /\ ident' = [ident EXCEPT ![r] = Absent] /\ mem' = [mem EXCEPT ![r] = {}]
  /\ UNCHANGED <<file, durable, told, harmed, count>>

Settle(n) ==
  /\ durable[n] # file[n] /\ durable' = [durable EXCEPT ![n] = file[n]]
  /\ UNCHANGED <<file, runVars, ghosts, count>>

\* What had not reached the disk is lost, with every run.
PowerFails ==
  /\ Counted("loss") /\ \E r \in Runs : IsUp(r)
  /\ file' = durable
  /\ pc' = [r \in Runs |-> IF IsUp(r) THEN "down" ELSE pc[r]]
  /\ temp' = [r \in Runs |-> FALSE] /\ act' = [r \in Runs |-> NoAct]
  /\ ident' = [r \in Runs |-> Absent] /\ mem' = [r \in Runs |-> {}]
  /\ harmed' = harmed \cup {n \in Files : durable[n] = Absent /\ file[n] # Absent}
  /\ unsure' = IF durable["store"] # file["store"] THEN Devices
               ELSE unsure \cup ({act[r].device : r \in Runs} \cap Devices)
  /\ UNCHANGED <<durable, told>>

Harm(n) ==
  /\ Counted("harm") /\ \A r \in Runs : ~IsUp(r)
  /\ file' = [file EXCEPT ![n] = Damaged]
  /\ durable' = [durable EXCEPT ![n] = Damaged]
  /\ harmed' = harmed \cup {n}
  /\ unsure' = IF n = "store" THEN Devices ELSE unsure
  /\ UNCHANGED <<runVars, told>>

Next ==
  \/ \E r \in Runs :
       \/ Start(r) \/ LoadKey(r) \/ LoadMeta(r) \/ LoadStore(r)
       \/ Write(r) \/ Replace(r) \/ SaveFails(r) \/ End(r)
       \/ \E d \in Devices, on \in BOOLEAN : Decide(r, d, on)
  \/ \E n \in Files : Settle(n) \/ Harm(n)
  \/ PowerFails

Spec == Init /\ [][Next]_vars

-----------------------------------------------------------------------------
(* Properties *)

\* A device keeps the key others know it by, through crashes and failing saves,
\* as long as the file itself is not lost (load_or_create).
IdentityKept ==
  [][\A k \in Runs :
       file["key"] = k /\ file'["key"] # k => "key" \in harmed']_vars

\* A run that is up signs with the key in the directory, and the metadata beside
\* it is made from that key, also after a crash between the two, or a new key
\* (load_or_create).
MetaFits ==
  \A r \in Runs :
    pc[r] \in {"load", "up", "save"} => file["key"] = ident[r] /\ file["meta"] = ident[r]

\* What the next start believes is what the user was last told (TrustStore.trust,
\* untrust), for every device whose last decision was reported as saved.
SavedAtStart ==
  [][\A r \in Runs : pc[r] = "load" /\ pc'[r] = "up" =>
       \A d \in Devices \ unsure' : d \in mem'[r] <=> d \in told]_vars

\* trust.py:161 calls what TrustStore.all returns the persisted decisions.
AllArePersisted ==
  \A r \in Runs : pc[r] = "up" => mem[r] = Known(file["store"])

\* identity.py:104: a start loads the persistent identity, and creates one only
\* when it is the first.
CreatedAtFirstStart ==
  [][\A r \in Runs : pc[r] = "key" /\ pc'[r] = "savekey" =>
       file["key"] \notin Runs]_vars

=============================================================================
