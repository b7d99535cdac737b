-------------------------- MODULE StateFilesProofs -------------------------
(***************************************************************************)
(* What StateFiles guarantees for any number of runs of the program, one   *)
(* at a time: the key, its metadata and the decisions of the user survive  *)
(* failing saves, crashes and power failures.                              *)
(***************************************************************************)
EXTENDS StateFiles, FiniteSetTheorems, TLAPS

Stages ==
  {"off", "key", "meta", "load", "up", "down", "savekey", "savemeta", "save"}

\* One run of the program follows the other: two at a time would write over each
\* other's key and decisions.
OneRunAtATime == MaxUp = 1

DirectoryTypes ==
  /\ file = [n \in Files |-> file[n]] /\ durable = [n \in Files |-> durable[n]]
  /\ {file["store"], durable["store"]} \subseteq {Absent, Damaged} \cup SUBSET Devices
  /\ pc \in [Runs -> Stages]
  /\ temp \in [Runs -> BOOLEAN] /\ ident \in [Runs -> Runs \cup {Absent}]
  /\ mem \in [Runs -> SUBSET Devices]
  /\ act \in [Runs -> {NoAct} \cup [device : Devices, on : BOOLEAN]]

OneUp == \A r, s \in Runs : IsUp(r) /\ IsUp(s) => r = s

\* A whole key is never written over, and never on its way to be.
KeyStays ==
  "key" \notin harmed =>
    /\ file["key"] \in Runs \cup {Absent}
    /\ durable["key"] \in {Absent, file["key"]}
    /\ \A r \in Runs : pc[r] = "savekey" => file["key"] = Absent

\* A run that has passed its key, and its metadata, finds them in the directory.
Fits ==
  \A r \in Runs :
    /\ pc[r] \in {"meta", "savemeta", "load", "up", "save"} => file["key"] = ident[r]
    /\ pc[r] \in {"load", "up", "save"} => file["meta"] = ident[r]

\* The store holds what the user was told.
StoreIsTold ==
  \A d \in Devices \ unsure : d \in Known(file["store"]) <=> d \in told

\* So does the memory, but for the decision that is being saved.
MemoryIsTold ==
  \A r \in Runs : pc[r] \in {"up", "save"} =>
    \A d \in Devices \ unsure :
      d # act[r].device => (d \in mem[r] <=> d \in told)

UnderWay ==
  \A r \in Runs :
    IF pc[r] = "save"
    THEN act[r].device \in Devices /\ (act[r].device \in mem[r] <=> act[r].on)
    ELSE act[r] = NoAct

DirectoryInv ==
  /\ DirectoryTypes /\ OneUp /\ Fits /\ StoreIsTold /\ MemoryIsTold /\ UnderWay

LEMMA DirectoryStart ==
  ASSUME OneRunAtATime, Init PROVE DirectoryInv /\ KeyStays
<1> USE DEF Init, Files, Stages
<1>1. DirectoryTypes
  BY DEF DirectoryTypes
<1>2. OneUp /\ Fits /\ MemoryIsTold /\ UnderWay
  BY DEF OneUp, Fits, MemoryIsTold, UnderWay, IsUp
<1>3. StoreIsTold
  BY DEF StoreIsTold, Known
<1>4. KeyStays
  BY DEF KeyStays
<1> QED
  BY <1>1, <1>2, <1>3, <1>4 DEF DirectoryInv

\* A start finds no other run.
LEMMA StartsAlone ==
  ASSUME OneRunAtATime, NEW r \in Runs, Start(r)
  PROVE  \A p \in Runs : ~IsUp(p)
<1> DEFINE U == {p \in Runs : IsUp(p)}
<1>1. IsFiniteSet(U)
  BY FS_Subset, StateAssumption
<1>2. Cardinality(U) < MaxUp
  BY DEF Start
<1>3. U = {}
  BY <1>1, <1>2, FS_CardinalityType, FS_EmptySet DEF OneRunAtATime
<1> QED
  BY <1>3

\* One step of a run other than a start, and other than a write to the directory.
\* What is asked of the run itself is left to the caller.
LEMMA SingleRun ==
  ASSUME OneUp, NEW r \in Runs, IsUp(r),
         \A p \in Runs \ {r} : pc'[p] = pc[p]
  PROVE  OneUp' /\ \A p \in Runs \ {r} : pc[p] \in {"off", "down"}
  BY DEF OneUp, IsUp

LEMMA StartKeeps ==
  ASSUME OneRunAtATime, DirectoryInv, NEW r \in Runs, Start(r)
  PROVE  DirectoryInv' /\ (KeyStays => KeyStays')
<1> USE DEF DirectoryInv, DirectoryTypes, Start, Goto, ghosts
<1>1. OneUp'
  BY StartsAlone DEF OneUp, IsUp
<1>2. DirectoryTypes'
  BY DEF Stages
<1>3. Fits' /\ StoreIsTold' /\ MemoryIsTold' /\ UnderWay'
  BY DEF Fits, StoreIsTold, MemoryIsTold, UnderWay, Known
<1>4. KeyStays => KeyStays'
  BY DEF KeyStays
<1> QED
  BY <1>1, <1>2, <1>3, <1>4

LEMMA LoadKeyKeeps ==
  ASSUME OneRunAtATime, DirectoryInv, NEW r \in Runs, LoadKey(r)
  PROVE  DirectoryInv' /\ ("key" \notin Unreadable /\ KeyStays => KeyStays')
<1> USE DEF DirectoryInv, DirectoryTypes, LoadKey, Goto,
       ghosts, LoadsKey, ReadFails
<1>1. OneUp' /\ \A p \in Runs \ {r} : pc[p] \in {"off", "down"}
  BY SingleRun DEF IsUp
<1>2. DirectoryTypes'
  BY DEF Stages
<1>3. Fits' /\ StoreIsTold' /\ MemoryIsTold' /\ UnderWay'
  BY DEF Fits, StoreIsTold, MemoryIsTold, UnderWay, Known
<1>4. "key" \notin Unreadable /\ KeyStays => KeyStays'
  BY DEF KeyStays
<1> QED
  BY <1>1, <1>2, <1>3, <1>4

LEMMA LoadMetaKeeps ==
  ASSUME OneRunAtATime, DirectoryInv, NEW r \in Runs, LoadMeta(r)
  PROVE  DirectoryInv' /\ (KeyStays => KeyStays')
<1> USE DEF DirectoryInv, DirectoryTypes, LoadMeta, Goto,
       ghosts, MetaIsMade
<1>1. OneUp' /\ \A p \in Runs \ {r} : pc[p] \in {"off", "down"}
  BY SingleRun DEF IsUp
<1>2. DirectoryTypes'
  BY DEF Stages
<1>3. Fits' /\ StoreIsTold' /\ MemoryIsTold' /\ UnderWay'
  BY DEF Fits, StoreIsTold, MemoryIsTold, UnderWay, Known
<1>4. KeyStays => KeyStays'
  BY DEF KeyStays
<1> QED
  BY <1>1, <1>2, <1>3, <1>4

\* The store that is loaded is what the user was told.
LEMMA LoadStoreKeeps ==
  ASSUME OneRunAtATime, DirectoryInv, NEW r \in Runs, LoadStore(r)
  PROVE  DirectoryInv' /\ (KeyStays => KeyStays')
<1> USE DEF DirectoryInv, DirectoryTypes, LoadStore, Goto,
       ReadFails
<1>1. OneUp' /\ \A p \in Runs \ {r} : pc[p] \in {"off", "down"}
  BY SingleRun DEF IsUp
<1>2. Known(file["store"]) \in SUBSET Devices
  BY DEF Known
<1>3. DirectoryTypes'
  BY <1>2 DEF Stages
<1>4. Fits' /\ UnderWay'
  BY <1>1 DEF Fits, UnderWay
<1>5. StoreIsTold'
  BY DEF StoreIsTold, Known
<1>6. MemoryIsTold'
  BY <1>1, <1>2 DEF MemoryIsTold, StoreIsTold
<1>7. KeyStays => KeyStays'
  BY DEF KeyStays
<1> QED
  BY <1>1, <1>3, <1>4, <1>5, <1>6, <1>7

LEMMA WriteKeeps ==
  ASSUME OneRunAtATime, DirectoryInv, NEW r \in Runs, Write(r)
  PROVE  DirectoryInv' /\ (KeyStays => KeyStays')
<1> USE DEF DirectoryInv, DirectoryTypes, Write, ghosts
<1>1. OneUp' /\ DirectoryTypes'
  BY DEF OneUp, IsUp
<1>2. Fits' /\ StoreIsTold' /\ MemoryIsTold' /\ UnderWay' /\ (KeyStays => KeyStays')
  BY DEF Fits, StoreIsTold, MemoryIsTold, UnderWay, Known, KeyStays
<1> QED
  BY <1>1, <1>2

\* The three files one at a time.  Only here does a run change what is read.
LEMMA ReplaceKeeps ==
  ASSUME OneRunAtATime, DirectoryInv, NEW r \in Runs, Replace(r)
  PROVE  DirectoryInv' /\ (KeyStays => KeyStays')
<1> USE DEF DirectoryInv, DirectoryTypes, Replace, Goto,
       Saving, Renamed, Then
<1>1. OneUp' /\ \A p \in Runs \ {r} : pc[p] \in {"off", "down"}
  BY SingleRun DEF IsUp
<1>2. CASE pc[r] = "savekey"
  <2>1. file' = [file EXCEPT !["key"] = ident[r]] /\ pc' = [pc EXCEPT ![r] = "meta"]
    BY <1>2 DEF Target, Content
  <2>2. file'["key"] = ident[r] /\ file'["store"] = file["store"]
    BY <2>1 DEF Files
  <2>3. DirectoryTypes'
    <3>1. file' = [n \in Files |-> file'[n]] /\ durable' = [n \in Files |-> durable'[n]]
      BY <2>1
    <3>2. pc' \in [Runs -> Stages] /\ temp' \in [Runs -> BOOLEAN]
      BY <2>1 DEF Stages
    <3>3. /\ durable' = durable /\ ident' = ident /\ mem' = mem
          /\ act' = act
      BY <1>2
    <3> HIDE DEF Replace
    <3> QED
      BY <2>2, <3>1, <3>2, <3>3
  <2>4. Fits' /\ StoreIsTold' /\ MemoryIsTold' /\ UnderWay'
    BY <1>1, <1>2, <2>1, <2>2 DEF Fits, StoreIsTold, MemoryIsTold, UnderWay, Known
  <2>5. KeyStays => KeyStays'
    BY <1>1, <1>2, <2>1, <2>2 DEF KeyStays
  <2> QED
    BY <1>1, <2>3, <2>4, <2>5
<1>3. CASE pc[r] = "savemeta"
  <2>1. file' = [file EXCEPT !["meta"] = ident[r]] /\ pc' = [pc EXCEPT ![r] = "load"]
    BY <1>3 DEF Target, Content
  <2>2. /\ file'["key"] = file["key"] /\ file'["meta"] = ident[r]
        /\ file'["store"] = file["store"]
    BY <2>1 DEF Files
  <2>3. DirectoryTypes'
    <3>1. file' = [n \in Files |-> file'[n]] /\ durable' = [n \in Files |-> durable'[n]]
      BY <2>1
    <3>2. pc' \in [Runs -> Stages] /\ temp' \in [Runs -> BOOLEAN]
      BY <2>1 DEF Stages
    <3>3. /\ durable' = durable /\ ident' = ident /\ mem' = mem
          /\ act' = act
      BY <1>3
    <3> HIDE DEF Replace
    <3> QED
      BY <2>2, <3>1, <3>2, <3>3
  <2>4. Fits' /\ StoreIsTold' /\ MemoryIsTold' /\ UnderWay'
    BY <1>1, <1>3, <2>1, <2>2 DEF Fits, StoreIsTold, MemoryIsTold, UnderWay, Known
  <2>5. KeyStays => KeyStays'
    BY <1>1, <1>3, <2>1, <2>2 DEF KeyStays
  <2> QED
    BY <1>1, <2>3, <2>4, <2>5
<1>4. CASE pc[r] = "save"
  <2>1. file' = [file EXCEPT !["store"] = mem[r]] /\ pc' = [pc EXCEPT ![r] = "up"]
    BY <1>4 DEF Target, Content
  <2>2. /\ file'["key"] = file["key"] /\ file'["meta"] = file["meta"]
        /\ file'["store"] = mem[r]
    BY <2>1 DEF Files
  <2>3. act' = [act EXCEPT ![r] = NoAct]
    BY <1>4
  <2>4. DirectoryTypes'
    <3>1. file' = [n \in Files |-> file'[n]] /\ durable' = [n \in Files |-> durable'[n]]
      BY <2>1
    <3>2. pc' \in [Runs -> Stages] /\ temp' \in [Runs -> BOOLEAN]
      BY <2>1 DEF Stages
    <3> QED
      BY <1>4, <2>2, <2>3, <3>1, <3>2
  <2>5. Fits' /\ UnderWay'
    BY <1>1, <1>4, <2>1, <2>2, <2>3 DEF Fits, UnderWay
  <2>6. \A d \in Devices \ unsure' : d \in mem[r] <=> d \in told'
    BY <1>4 DEF MemoryIsTold, UnderWay
  <2>7. StoreIsTold'
    <3>1. Known(mem[r]) = mem[r]
      BY StateAssumption DEF Known
    <3> QED
      BY <2>2, <2>6, <3>1 DEF StoreIsTold, Known
  <2>8. MemoryIsTold'
    BY <1>1, <2>1, <2>6 DEF MemoryIsTold
  <2>9. KeyStays => KeyStays'
    BY <1>1, <1>4, <2>1, <2>2 DEF KeyStays
  <2> QED
    BY <1>1, <2>4, <2>5, <2>7, <2>8, <2>9
<1> QED
  BY <1>2, <1>3, <1>4

LEMMA SaveFailsKeeps ==
  ASSUME OneRunAtATime, DirectoryInv, NEW r \in Runs, SaveFails(r)
  PROVE  DirectoryInv' /\ (KeyStays => KeyStays')
<1> USE DEF DirectoryInv, DirectoryTypes, SaveFails, Goto,
       Saving
<1>1. OneUp' /\ \A p \in Runs \ {r} : pc[p] \in {"off", "down"}
  BY SingleRun DEF IsUp
<1>2. DirectoryTypes'
  BY DEF Stages
<1>3. Fits' /\ StoreIsTold' /\ UnderWay'
  BY <1>1 DEF Fits, StoreIsTold, UnderWay, Known
<1>4. MemoryIsTold'
  BY <1>1 DEF MemoryIsTold
<1>5. KeyStays => KeyStays'
  BY <1>1 DEF KeyStays
<1> QED
  BY <1>1, <1>2, <1>3, <1>4, <1>5

LEMMA DecideKeeps ==
  ASSUME OneRunAtATime, DirectoryInv, NEW r \in Runs, NEW d \in Devices,
         NEW on \in BOOLEAN, Decide(r, d, on)
  PROVE  DirectoryInv' /\ (KeyStays => KeyStays')
<1> USE DEF DirectoryInv, DirectoryTypes, Decide, Goto,
       Saved
<1>1. OneUp' /\ \A p \in Runs \ {r} : pc[p] \in {"off", "down"}
  <2>1. \A p \in Runs \ {r} : pc'[p] = pc[p]
    OBVIOUS
  <2> QED
    BY <2>1, SingleRun DEF IsUp
<1>2. DirectoryTypes'
  BY DEF Stages
<1>3. Fits' /\ (KeyStays => KeyStays')
  BY <1>1 DEF Fits, KeyStays
<1>4. CASE Saved(r, d, on)
  <2>1. UnderWay'
    BY <1>1, <1>4 DEF UnderWay
  <2>2. StoreIsTold'
    BY <1>4 DEF StoreIsTold, Known
  <2>3. MemoryIsTold'
    <3>1. \A e \in Devices \ unsure : e \in mem[r] <=> e \in told
      BY StateAssumption DEF MemoryIsTold, UnderWay, NoAct
    <3>2. /\ told' = told /\ unsure' = unsure /\ act'[r].device = d
          /\ \A e \in Devices : e # d => (e \in mem'[r] <=> e \in mem[r])
      BY <1>4
    <3> QED
      BY <1>1, <1>4, <3>1, <3>2 DEF MemoryIsTold
  <2> QED
    BY <1>1, <1>2, <1>3, <2>1, <2>2, <2>3
<1>5. CASE ~Saved(r, d, on)
  <2>1. mem' = mem /\ on = FALSE /\ d \notin mem[r]
    BY <1>5
  <2>2. \A e \in Devices \ unsure : e \in told' <=> e \in told
    BY <1>5, <2>1, StateAssumption DEF MemoryIsTold, UnderWay, NoAct
  <2>3. StoreIsTold' /\ MemoryIsTold' /\ UnderWay'
    BY <1>5, <2>1, <2>2 DEF StoreIsTold, MemoryIsTold, UnderWay, Known
  <2> QED
    BY <1>1, <1>2, <1>3, <2>3
<1> QED
  BY <1>4, <1>5

LEMMA EndKeeps ==
  ASSUME OneRunAtATime, DirectoryInv, NEW r \in Runs, End(r)
  PROVE  DirectoryInv' /\ (KeyStays => KeyStays')
<1> USE DEF DirectoryInv, DirectoryTypes, End, Goto
<1>1. OneUp' /\ \A p \in Runs \ {r} : pc[p] \in {"off", "down"}
  BY SingleRun DEF IsUp
<1>2. DirectoryTypes'
  BY DEF Stages
<1>3. Fits' /\ StoreIsTold' /\ MemoryIsTold' /\ UnderWay' /\ (KeyStays => KeyStays')
  BY <1>1 DEF Fits, StoreIsTold, MemoryIsTold, UnderWay, Known, KeyStays
<1> QED
  BY <1>1, <1>2, <1>3

\* What happens to the disk: of the files, only the lost and the damaged change.
LEMMA DiskKeeps ==
  ASSUME OneRunAtATime, DirectoryInv,
         PowerFails \/ \E n \in Files : Settle(n) \/ Harm(n)
  PROVE  DirectoryInv' /\ (KeyStays => KeyStays')
<1> USE DEF DirectoryInv, DirectoryTypes
<1>1. CASE PowerFails
  <2> USE <1>1 DEF PowerFails
  <2>1. \A r \in Runs : pc'[r] \in {"off", "down"}
    BY DEF IsUp
  <2>2. DirectoryTypes'
    BY <2>1 DEF Stages, IsUp
  <2>3. OneUp' /\ Fits' /\ MemoryIsTold' /\ UnderWay'
    BY <2>1 DEF OneUp, Fits, MemoryIsTold, UnderWay, IsUp
  <2>4. StoreIsTold'
    BY DEF StoreIsTold, Known
  <2>5. KeyStays => KeyStays'
    BY <2>1 DEF KeyStays, Files
  <2> QED
    BY <2>2, <2>3, <2>4, <2>5
<1>2. ASSUME NEW n \in Files, Settle(n) PROVE DirectoryInv' /\ (KeyStays => KeyStays')
  <2> USE <1>2 DEF Settle, runVars, ghosts
  <2>1. DirectoryTypes'
    BY DEF Files
  <2>2. OneUp' /\ Fits' /\ StoreIsTold' /\ MemoryIsTold' /\ UnderWay'
    BY DEF OneUp, Fits, StoreIsTold, MemoryIsTold, UnderWay, IsUp, Known
  <2>3. KeyStays => KeyStays'
    BY DEF KeyStays, Files
  <2> QED
    BY <2>1, <2>2, <2>3
<1>3. ASSUME NEW n \in Files, Harm(n) PROVE DirectoryInv' /\ (KeyStays => KeyStays')
  <2> USE <1>3 DEF Harm, runVars
  <2>1. DirectoryTypes'
    BY DEF Files
  <2>2. OneUp' /\ Fits' /\ MemoryIsTold' /\ UnderWay'
    BY DEF OneUp, Fits, MemoryIsTold, UnderWay, IsUp, Known
  <2>3. StoreIsTold'
    BY DEF StoreIsTold, Known, Files
  <2>4. KeyStays => KeyStays'
    BY DEF KeyStays, Files, IsUp
  <2> QED
    BY <2>1, <2>2, <2>3, <2>4
<1> QED
  BY <1>1, <1>2, <1>3

LEMMA DirectoryStep ==
  ASSUME OneRunAtATime, DirectoryInv, [Next]_vars
  PROVE  DirectoryInv' /\ ("key" \notin Unreadable /\ KeyStays => KeyStays')
<1>1. CASE UNCHANGED vars
  BY <1>1 DEF vars, runVars, ghosts, DirectoryInv,
     DirectoryTypes, OneUp, Fits, StoreIsTold, MemoryIsTold, UnderWay, KeyStays,
     IsUp, Known
<1>2. ASSUME NEW r \in Runs, Start(r) \/ LoadKey(r)
             \/ LoadMeta(r) \/ LoadStore(r)
      PROVE  DirectoryInv' /\ ("key" \notin Unreadable /\ KeyStays => KeyStays')
  BY <1>2, StartKeeps, LoadKeyKeeps, LoadMetaKeeps, LoadStoreKeeps
<1>3. ASSUME NEW r \in Runs, Write(r) \/ Replace(r)
             \/ SaveFails(r) \/ End(r)
      PROVE  DirectoryInv' /\ (KeyStays => KeyStays')
  BY <1>3, WriteKeeps, ReplaceKeeps, SaveFailsKeeps, EndKeeps
<1>4. ASSUME NEW r \in Runs, NEW d \in Devices, NEW on \in BOOLEAN,
             Decide(r, d, on)
      PROVE  DirectoryInv' /\ (KeyStays => KeyStays')
  BY <1>4, DecideKeeps
<1> QED
  BY <1>1, <1>2, <1>3, <1>4, DiskKeeps DEF Next, Files

\* A run that becomes ready leaves what was told as it is: no other run is up.
LEMMA DirectoryTold ==
  ASSUME pc \in [Runs -> Stages], Next,
         NEW r \in Runs, pc[r] = "load", pc'[r] = "up"
  PROVE  told' = told
<1>1. ASSUME NEW q \in Runs, Replace(q) PROVE FALSE
  BY <1>1 DEF Replace, Goto, Saving, Then
<1>2. ASSUME NEW q \in Runs, NEW d \in Devices, NEW on \in BOOLEAN, Decide(q, d, on)
      PROVE  FALSE
  BY <1>2 DEF Decide, Goto
<1>3. ASSUME NEW q \in Runs, Start(q) \/ LoadKey(q)
             \/ LoadMeta(q) \/ LoadStore(q) \/ Write(q)
             \/ SaveFails(q) \/ End(q)
      PROVE  told' = told
  BY <1>3 DEF Start, LoadKey, LoadMeta,
     LoadStore, Write, SaveFails, End,
     ghosts
<1>4. ASSUME NEW n, Settle(n) \/ Harm(n) \/ PowerFails
      PROVE  told' = told
  BY <1>4 DEF Settle, Harm, PowerFails, ghosts
<1> QED
  BY <1>1, <1>2, <1>3, <1>4 DEF Next

\* A whole key is written over by nobody; it is lost, or damaged from outside.
LEMMA KeyWritten ==
  ASSUME OneRunAtATime, DirectoryInv, KeyStays, Next,
         NEW k \in Runs, file["key"] = k, file'["key"] # k
  PROVE  "key" \in harmed'
<1> USE DEF DirectoryInv, DirectoryTypes
<1>1. k # Absent
  BY StateAssumption
<1>2. ASSUME NEW q \in Runs, Replace(q) PROVE "key" \in harmed'
  <2>1. file' = [file EXCEPT ![Target(pc[q])] = Content(q)]
        /\ harmed' = harmed
    BY <1>2 DEF Replace
  <2>2. pc[q] = "savekey"
    BY <1>2, <2>1 DEF Target, Replace, Saving
  <2> QED
    BY <1>1, <2>1, <2>2 DEF KeyStays
<1>3. CASE PowerFails
  BY <1>1, <1>3 DEF PowerFails, KeyStays, Files
<1>4. ASSUME NEW n, Settle(n) \/ Harm(n) PROVE "key" \in harmed'
  BY <1>4 DEF Settle, Harm, Files
<1>5. ASSUME NEW q \in Runs, Start(q) \/ LoadKey(q)
             \/ LoadMeta(q) \/ LoadStore(q) \/ Write(q)
             \/ SaveFails(q) \/ End(q)
             \/ \E d \in Devices, on \in BOOLEAN : Decide(q, d, on)
      PROVE  FALSE
  BY <1>5 DEF Start, LoadKey, LoadMeta, Decide,
     LoadStore, Write, SaveFails, End
<1> QED
  BY <1>2, <1>3, <1>4, <1>5 DEF Next

THEOREM DirectoryInvariant ==
  OneRunAtATime => (Spec => []DirectoryInv)
<1> SUFFICES ASSUME OneRunAtATime PROVE Spec => []DirectoryInv
  OBVIOUS
<1> QED
  BY DirectoryStart, DirectoryStep, PTL DEF Spec

\* A run that is up signs with the key in the directory, and the metadata beside it
\* is made from that key, whichever save failed or was cut off before
\* (DeviceIdentity.load_or_create, identity.py:104-185).
THEOREM DirectoryFits == OneRunAtATime => (Spec => []MetaFits)
<1> SUFFICES ASSUME OneRunAtATime PROVE Spec => []MetaFits
  OBVIOUS
<1>1. DirectoryInv => MetaFits
  BY DEF DirectoryInv, Fits, MetaFits
<1> QED
  BY <1>1, DirectoryInvariant, PTL

\* A start believes of every device what the user was last told, unless that save
\* failed or was lost (TrustStore, trust.py:61-237).
THEOREM DecisionsSurvive == OneRunAtATime => (Spec => SavedAtStart)
<1> SUFFICES ASSUME OneRunAtATime PROVE Spec => SavedAtStart
  OBVIOUS
<1> DEFINE Loaded ==
      \A r \in Runs : pc[r] = "load" /\ pc'[r] = "up" =>
        \A d \in Devices \ unsure' : d \in mem'[r] <=> d \in told
<1>1. DirectoryInv /\ DirectoryInv' /\ [Next]_vars
        => [Loaded]_vars
  <2> SUFFICES ASSUME DirectoryInv, DirectoryInv', Next, NEW r \in Runs,
                      pc[r] = "load", pc'[r] = "up"
               PROVE  \A d \in Devices \ unsure' : d \in mem'[r] <=> d \in told
    BY DEF Loaded
  <2>1. \A d \in Devices \ unsure' :
          d # act'[r].device => (d \in mem'[r] <=> d \in told')
    BY DEF DirectoryInv, MemoryIsTold
  <2>2. act'[r].device \notin Devices
    BY StateAssumption DEF DirectoryInv, UnderWay, NoAct
  <2>3. told' = told
    BY DirectoryTold DEF DirectoryInv, DirectoryTypes
  <2> QED
    BY <2>1, <2>2, <2>3
<1> QED
  BY <1>1, DirectoryInvariant, PTL DEF Spec, SavedAtStart

\* A device keeps its key as long as the key file is neither damaged nor lost and a
\* whole key is read (DeviceIdentity.load_or_create, identity.py:104-185).
THEOREM KeyIsKept ==
  OneRunAtATime /\ "key" \notin Unreadable => (Spec => IdentityKept)
<1> SUFFICES ASSUME OneRunAtATime, "key" \notin Unreadable
             PROVE  Spec => IdentityKept
  OBVIOUS
<1> DEFINE Kept ==
      \A k \in Runs : file["key"] = k /\ file'["key"] # k => "key" \in harmed'
<1>1. Init => KeyStays
  BY DirectoryStart
<1>2. DirectoryInv /\ KeyStays /\ [Next]_vars => KeyStays'
  BY DirectoryStep
<1>3. DirectoryInv /\ KeyStays /\ [Next]_vars => [Kept]_vars
  BY KeyWritten DEF vars
<1> QED
  BY <1>1, <1>2, <1>3, DirectoryInvariant, PTL DEF Spec, IdentityKept

-----------------------------------------------------------------------------
(* Types, however many runs there are at a time *)

\* A run that saves has a decision to save, and files are files.
TypesInv ==
  /\ TypeOK
  /\ file = [n \in Files |-> file[n]] /\ durable = [n \in Files |-> durable[n]]
  /\ count \in [DOMAIN Bounds -> Nat]
  /\ \A r \in Runs : pc[r] = "save" => act[r].device \in Devices

LEMMA FilesStep ==
  ASSUME TypesInv, [Next]_vars
  PROVE  /\ file' = [n \in Files |-> file'[n]] /\ durable' = [n \in Files |-> durable'[n]]
         /\ \A f \in {file', durable'} :
              /\ {f["key"], f["meta"]} \subseteq Runs \cup {Absent, Damaged}
              /\ f["store"] \in {Absent, Damaged} \cup SUBSET Devices
         /\ harmed' \subseteq Files
<1> USE DEF TypesInv, TypeOK
<1>1. ASSUME NEW n \in Files, Settle(n) \/ Harm(n)
      PROVE  /\ file' \in {file, [file EXCEPT ![n] = Damaged]}
             /\ durable' \in {[durable EXCEPT ![n] = Damaged], [durable EXCEPT ![n] = file[n]]}
             /\ harmed' \in {harmed, harmed \cup {n}}
  BY <1>1 DEF Settle, Harm, ghosts
<1>2. CASE \E n \in Files : Settle(n) \/ Harm(n)
  BY <1>1, <1>2 DEF Files
<1>3. CASE PowerFails
  BY <1>3 DEF PowerFails, Files
<1>4. ASSUME NEW r \in Runs, Replace(r)
      PROVE  /\ file' = [file EXCEPT ![Target(pc[r])] = Content(r)]
             /\ UNCHANGED <<durable, harmed>>
             /\ Target(pc[r]) \in {"key", "meta"} => Content(r) \in Runs \cup {Absent}
             /\ Target(pc[r]) = "store" => Content(r) \in SUBSET Devices
  BY <1>4 DEF Replace, Renamed, Target, Content, Saving
<1>5. CASE \E r \in Runs : Replace(r)
  BY <1>4, <1>5 DEF Files, Target
<1>6. CASE \E r \in Runs :
             \/ Start(r) \/ LoadKey(r) \/ LoadMeta(r) \/ LoadStore(r) \/ Write(r)
             \/ SaveFails(r) \/ End(r)
             \/ \E d \in Devices, on \in BOOLEAN : Decide(r, d, on)
  <2>1. UNCHANGED <<file, durable, harmed>>
    BY <1>6 DEF Start, LoadKey, LoadMeta, LoadStore, Write, SaveFails, End, Decide, ghosts
  <2> QED
    BY <2>1
<1>7. CASE UNCHANGED vars
  BY <1>7 DEF vars, ghosts
<1> QED
  BY <1>2, <1>3, <1>5, <1>6, <1>7 DEF Next

LEMMA RunsStep ==
  ASSUME TypesInv, [Next]_vars
  PROVE  /\ pc' \in [Runs -> {"off", "key", "meta", "load", "up", "down"} \cup Saving]
         /\ temp' \in [Runs -> BOOLEAN] /\ ident' \in [Runs -> Runs \cup {Absent}]
         /\ mem' \in [Runs -> SUBSET Devices]
         /\ act' \in [Runs -> {NoAct} \cup [device : Devices, on : BOOLEAN]]
         /\ told' \subseteq Devices /\ unsure' \subseteq Devices
         /\ \A r \in Runs : pc'[r] = "save" => act'[r].device \in Devices
<1> USE DEF TypesInv, TypeOK, Goto, Saving
<1>1. ASSUME NEW r \in Runs, Start(r) \/ LoadKey(r) \/ LoadMeta(r) \/ Write(r)
      PROVE  /\ UNCHANGED <<mem, act, told, unsure>>
             /\ \E place \in {"key", "meta", "savekey", "load", "savemeta", "down", pc[r]} :
                  pc' = [pc EXCEPT ![r] = place]
             /\ temp' \in {temp, [temp EXCEPT ![r] = TRUE]}
             /\ \E k \in Runs \cup {Absent} : ident' = [ident EXCEPT ![r] = k]
  BY <1>1 DEF Start, LoadKey, LoadMeta, Write, LoadsKey, MetaIsMade, ghosts
<1>2. CASE \E r \in Runs : Start(r) \/ LoadKey(r) \/ LoadMeta(r) \/ Write(r)
  BY <1>1, <1>2
<1>3. ASSUME NEW r \in Runs, LoadStore(r) PROVE Known(file["store"]) \in SUBSET Devices
  BY DEF Known
<1>4. CASE \E r \in Runs : LoadStore(r)
  BY <1>3, <1>4 DEF LoadStore
<1>5. CASE \E r \in Runs : Replace(r)
  BY <1>5 DEF Replace, Then, NoAct
<1>6. CASE \E r \in Runs : SaveFails(r)
  BY <1>6 DEF SaveFails, NoAct
<1>7. CASE \E r \in Runs : End(r)
  BY <1>7 DEF End
<1>8. CASE \E r \in Runs : \E d \in Devices, on \in BOOLEAN : Decide(r, d, on)
  BY <1>8 DEF Decide
<1>9. CASE PowerFails
  BY <1>9 DEF PowerFails, IsUp
<1>10. CASE \E n \in Files : Settle(n) \/ Harm(n)
  BY <1>10 DEF Settle, Harm, runVars, ghosts
<1>11. CASE UNCHANGED vars
  BY <1>11 DEF vars, runVars, ghosts
<1> QED
  BY <1>2, <1>4, <1>5, <1>6, <1>7, <1>8, <1>9, <1>10, <1>11 DEF Next

LEMMA CountStep ==
  ASSUME TypesInv, [Next]_vars
  PROVE  count' \in [DOMAIN Bounds -> Nat] /\ \A k \in DOMAIN Bounds : count'[k] \in 0..Bounds[k]
<1> USE DEF TypesInv, TypeOK
<1>1. \A k \in DOMAIN Bounds : Bounds[k] \in Nat
  BY StateAssumption DEF Bounds
<1>2. ASSUME NEW k \in DOMAIN Bounds, Counted(k)
      PROVE  /\ count' \in [DOMAIN Bounds -> Nat]
             /\ \A j \in DOMAIN Bounds : count'[j] \in 0..Bounds[j]
  BY <1>1, <1>2 DEF Counted
<1>3. {"acts", "faults", "loss", "harm"} = DOMAIN Bounds
  BY DEF Bounds
<1>4. UNCHANGED count \/ \E k \in DOMAIN Bounds : Counted(k)
  <2>1. CASE UNCHANGED vars
    BY <2>1 DEF vars
  <2>2. CASE Next
    BY <1>3, <2>2 DEF Next, Start, LoadKey, LoadMeta, LoadStore, Write, Replace, SaveFails,
       End, Decide, Settle, Harm, PowerFails, ReadFails
  <2> QED
    BY <2>1, <2>2
<1> QED
  BY <1>2, <1>4

\* The directory and all runs keep their types, for any number of runs at a time
\* (identity.py:72-185, trust.py:61-237).
THEOREM StateTypes == Spec => []TypeOK
<1>1. Init => TypesInv
  BY StateAssumption DEF Init, TypesInv, TypeOK, Bounds, Files
<1>2. TypesInv /\ [Next]_vars => TypesInv'
  BY FilesStep, RunsStep, CountStep DEF TypesInv, TypeOK, Bounds
<1>3. TypesInv => TypeOK
  BY DEF TypesInv
<1> QED
  BY <1>1, <1>2, <1>3, PTL DEF Spec

=============================================================================
