------------------------- MODULE SkillActivationProofs -------------------------
(***************************************************************************)
(* Proofs about SkillActivation: its types, and what holds of the active   *)
(* skills however the runs that share them, and whoever edits the skills'  *)
(* files, interleave.                                                      *)
(***************************************************************************)
EXTENDS SkillActivation, SequenceTheorems, TLAPS

-----------------------------------------------------------------------------
(***************************************************************************)
(* The inductive invariants.                                               *)
(***************************************************************************)
(* A skill's file holds what was first there, or what an edit so far wrote. *)
DiskOK ==
  \A d \in Dirs :
    /\ disk[d].kind \in {"missing", "unreadable", "skill"}
    /\ disk[d].kind = "skill" => disk[d].body \in {d} \X (0..edits)

(* The subdirectories still to load are directories, and a skill is indexed *)
(* under its directory's name.                                              *)
QueueOK == queue \in Seq(Dirs) /\ \A name \in DOMAIN index : index[name][2] = name

(* Skills are looked up once the index is complete. *)
IndexComplete ==
  /\ ScanDone \/ (active = <<>> /\ \A r \in Runs : pc[r] = "idle")
  /\ Shown \subseteq DOMAIN index

(* What a run has read, or will, is not older than the activation.          *)
ReadsAreFresh ==
  \A r \in Runs :
    /\ began[r] <= edits
    /\ pc[r] = "reading" /\ Framed(FileOf(arg[r])) => began[r] <= FileOf(arg[r]).body[2]
    /\ pc[r] = "loaded" => /\ body[r] \in Bodies /\ body[r][1] = index[arg[r]]
                           /\ began[r] <= body[r][2]

ActivationInv ==
  /\ DiskOK /\ QueueOK /\ IndexComplete /\ ReadsAreFresh
  /\ ActiveOnce /\ BodyReloaded /\ LoadedUntilUndone

-----------------------------------------------------------------------------
(***************************************************************************)
(* Sequences and names.                                                    *)
(***************************************************************************)
LEMMA RemoveAtFacts ==
  ASSUME NEW S, NEW s \in Seq(S), NEW k \in DOMAIN s
  PROVE  /\ RemoveAt(s, k) \in Seq(S)
         /\ DOMAIN RemoveAt(s, k) = 1..(Len(s) - 1)
         /\ \A i \in 1..(Len(s) - 1) : RemoveAt(s, k)[i] = IF i < k THEN s[i] ELSE s[i + 1]
<1>1. k \in 1..Len(s) /\ Len(s) \in Nat
  OBVIOUS
<1> DEFINE a == SubSeq(s, 1, k - 1)
           b == SubSeq(s, k + 1, Len(s))
<1>2. a \in Seq(S) /\ Len(a) = k - 1 /\ \A i \in 1..(k - 1) : a[i] = s[i]
  BY <1>1
<1>3. b \in Seq(S) /\ Len(b) = Len(s) - k /\ \A i \in 1..(Len(s) - k) : b[i] = s[k + i]
  BY <1>1
<1>4. RemoveAt(s, k) = a \o b
  BY DEF RemoveAt
<1> HIDE DEF a, b
<1>5. a \o b \in Seq(S) /\ Len(a \o b) = Len(s) - 1
  BY <1>1, <1>2, <1>3
<1>6. ASSUME NEW i \in 1..(Len(s) - 1)
      PROVE  (a \o b)[i] = IF i < k THEN s[i] ELSE s[i + 1]
  <2>1. CASE i < k
    BY <1>1, <1>2, <1>3, <2>1
  <2>2. CASE i >= k
    <3>1. (a \o b)[i] = b[i - (k - 1)]
      BY <1>1, <1>2, <1>3, <2>2, SMTT(30)
    <3>2. i - (k - 1) \in 1..(Len(s) - k) /\ k + (i - (k - 1)) = i + 1
      BY <1>1, <2>2
    <3> QED
      BY <1>1, <1>3, <2>2, <3>1, <3>2, SMTT(30)
  <2>3. i < k \/ i >= k
    BY <1>1
  <2> QED
    BY <2>1, <2>2, <2>3
<1> QED
  BY <1>4, <1>5, <1>6

(* A skill that is active has a position, and by ActiveOnce only one.       *)
LEMMA PositionFacts ==
  ASSUME NEW name, IsActive(name)
  PROVE  /\ Position(name) \in DOMAIN active /\ active[Position(name)].name = name
         /\ ActiveOnce => \A i \in DOMAIN active : active[i].name = name => i = Position(name)
BY DEF IsActive, Position, ActiveOnce

(* Installing a body replaces it where it stands, or adds it at the end.    *)
LEMMA InstalledFacts ==
  ASSUME active \in Seq(Entry), ActiveOnce, NEW name \in Range(SubDirs), NEW text \in Bodies
  PROVE  LET new == Installed(name, text)
         IN  /\ new \in Seq(Entry)
             /\ DOMAIN new = IF IsActive(name) THEN DOMAIN active ELSE 1..(Len(active) + 1)
             /\ \A i \in DOMAIN active :
                  /\ i \in DOMAIN new /\ new[i].name = active[i].name
                  /\ active[i].name # name => new[i] = active[i]
             /\ \A i \in DOMAIN new : new[i].name = name => new[i].body = text
             /\ \A i \in DOMAIN new : i \notin DOMAIN active => new[i].name = name
             /\ \E i \in DOMAIN new : new[i].name = name
<1>a. DOMAIN active = 1..Len(active) /\ Len(active) \in Nat
  OBVIOUS
<1>b. \A i \in DOMAIN active : active[i] \in Entry
  OBVIOUS
<1>1. CASE IsActive(name)
  <2> DEFINE p == Position(name)
  <2>1. p \in DOMAIN active /\ active[p].name = name
        /\ \A i \in DOMAIN active : active[i].name = name => i = p
    BY <1>1, PositionFacts
  <2> DEFINE e   == [active[p] EXCEPT !.body = text]
             new == [active EXCEPT ![p] = e]
  <2>2. Installed(name, text) = new
    BY <1>1 DEF Installed
  <2>3. e.name = name /\ e.body = text /\ e \in Entry
    BY <1>b, <2>1 DEF Entry
  <2> HIDE DEF p, e
  <2>4. /\ new \in Seq(Entry) /\ Len(new) = Len(active)
        /\ \A i \in 1..Len(active) : new[i] = IF i = p THEN e ELSE active[i]
    BY <1>a, <2>1, <2>3, ExceptSeq
  <2>5. DOMAIN new = DOMAIN active
    OBVIOUS
  <2> HIDE DEF new
  <2> QED
    BY <1>1, <2>1, <2>2, <2>3, <2>4, <2>5 DEF new
<1>2. CASE ~IsActive(name)
  <2> DEFINE e == [name |-> name, body |-> text]
             new == Append(active, e)
  <2>1. Installed(name, text) = new
    BY <1>2 DEF Installed
  <2>2. e \in Entry /\ e.name = name /\ e.body = text
    BY DEF Entry
  <2> HIDE DEF e
  <2>3. new \in Seq(Entry) /\ DOMAIN new = 1..(Len(active) + 1) /\ new[Len(active) + 1] = e
        /\ \A i \in DOMAIN active : new[i] = active[i]
    BY <1>a, <2>2
  <2>4. \A i \in DOMAIN active : active[i].name # name
    BY <1>2 DEF IsActive
  <2>5. \A i \in DOMAIN new : i \in DOMAIN active \/ i = Len(active) + 1
    BY <1>a, <2>3
  <2>6. Len(active) + 1 \in DOMAIN new /\ Len(active) + 1 \notin DOMAIN active
    BY <1>a, <2>3
  <2>7. \A i \in DOMAIN active : i \in DOMAIN new
    BY <1>a, <2>3
  <2> HIDE DEF new
  <2> QED
    BY <1>2, <2>1, <2>2, <2>3, <2>4, <2>5, <2>6, <2>7
<1> QED
  BY <1>1, <1>2

(* Where the skill at i stands once the one at k is removed.                *)
Shifted(i, k) == IF i < k THEN i ELSE i - 1

(* Deactivating takes one skill out and leaves the rest in order.           *)
LEMMA WithoutFacts ==
  ASSUME active \in Seq(Entry), ActiveOnce, NEW name
  PROVE  LET new == Without(name)
         IN  /\ new \in Seq(Entry)
             /\ \A i \in DOMAIN new :
                  /\ new[i].name # name
                  /\ \E j \in DOMAIN active : new[i] = active[j]
             /\ \A j \in DOMAIN active : active[j].name # name =>
                  LET i == IF IsActive(name) THEN Shifted(j, Position(name)) ELSE j
                  IN  i \in DOMAIN new /\ new[i] = active[j]
             /\ \A i, j \in DOMAIN new : new[i].name = new[j].name => i = j
<1>a. DOMAIN active = 1..Len(active) /\ Len(active) \in Nat
  OBVIOUS
<1>1. CASE IsActive(name)
  <2> DEFINE p   == Position(name)
             new == Without(name)
  <2>1. p \in DOMAIN active /\ active[p].name = name
        /\ \A i \in DOMAIN active : active[i].name = name => i = p
    BY <1>1, PositionFacts
  <2>2. /\ new \in Seq(Entry) /\ DOMAIN new = 1..(Len(active) - 1)
        /\ \A i \in 1..(Len(active) - 1) : new[i] = IF i < p THEN active[i] ELSE active[i + 1]
    BY <1>1, <2>1, RemoveAtFacts DEF Without
  <2> HIDE DEF p, new
  <2>3. \A i \in DOMAIN new :
          LET j == IF i < p THEN i ELSE i + 1
          IN  j \in DOMAIN active /\ j # p /\ new[i] = active[j]
    BY <1>a, <2>1, <2>2
  <2>4. \A j \in DOMAIN active : j # p =>
          Shifted(j, p) \in DOMAIN new /\ new[Shifted(j, p)] = active[j]
    BY <1>a, <2>1, <2>2 DEF Shifted
  <2>5. ASSUME NEW i \in DOMAIN new, NEW j \in DOMAIN new, new[i].name = new[j].name
        PROVE  i = j
    <3>1. (IF i < p THEN i ELSE i + 1) = (IF j < p THEN j ELSE j + 1)
      BY <2>3, <2>5 DEF ActiveOnce
    <3> QED
      BY <1>a, <2>1, <2>2, <3>1
  <2>6. /\ \A i \in DOMAIN new : new[i].name # name /\ \E j \in DOMAIN active : new[i] = active[j]
        /\ \A j \in DOMAIN active : active[j].name # name =>
             Shifted(j, p) \in DOMAIN new /\ new[Shifted(j, p)] = active[j]
    BY <2>1, <2>3, <2>4
  <2> QED
    BY <1>1, <2>2, <2>5, <2>6 DEF p, new
<1>2. CASE ~IsActive(name)
  BY <1>2 DEF Without, IsActive, ActiveOnce
<1> QED
  BY <1>1, <1>2

-----------------------------------------------------------------------------
(***************************************************************************)
(* The scan.                                                               *)
(***************************************************************************)
(* A skill is loaded under the name of its directory, or not at all.        *)
LEMMA LoadSkillFacts ==
  ASSUME DiskOK, NEW dir \in Dirs
  PROVE  /\ LoadSkill(dir).kind \in {"none", "Invalid", "skill"}
         /\ LoadSkill(dir).kind = "skill" => LoadSkill(dir).name = dir[2]
         /\ LoadSkill(dir).kind = "Invalid" => LoadSkill(dir).path = dir
<1>1. disk[dir].kind \in {"missing", "unreadable", "skill"}
  BY DEF DiskOK
<1>2. CASE disk[dir].kind = "missing"
  BY <1>2 DEF LoadSkill, NoSkill
<1>3. CASE disk[dir].kind = "unreadable"
  BY <1>3 DEF LoadSkill, Invalid
<1>4. CASE disk[dir].kind = "skill"
  <2> DEFINE header == disk[dir].header
             broken == Broken(header, dir[2])
             first  == FirstBroken(header, dir[2])
  <2>1. LoadSkill(dir) = IF broken = {} THEN [kind |-> "skill", name |-> header.name]
                         ELSE Invalid(dir, <<first.error, first.field>>)
    BY <1>4 DEF LoadSkill
  <2>2. ASSUME broken = {} PROVE header.name = dir[2]
    <3>1. 5 \in DOMAIN Rules(header, dir[2])
      BY DEF Rules
    <3>2. ~Rules(header, dir[2])[5].broken
      BY <2>2, <3>1 DEF Broken
    <3>3. Rules(header, dir[2])[5].broken = (header.name # dir[2])
      BY DEF Rules
    <3> QED
      BY <3>2, <3>3
  <2> HIDE DEF header, broken, first
  <2> QED
    BY <2>1, <2>2 DEF Invalid
<1> QED
  BY <1>1, <1>2, <1>3, <1>4

(* The index grows by the skill that was loaded, unless it has its name.    *)
LEMMA KeptFacts ==
  ASSUME NEW loaded, NEW dir
  PROVE  IF loaded.kind = "skill" /\ loaded.name \notin DOMAIN index
         THEN /\ DOMAIN Kept(loaded, dir) = DOMAIN index \cup {loaded.name}
              /\ Kept(loaded, dir)[loaded.name] = dir
              /\ \A name \in DOMAIN index : Kept(loaded, dir)[name] = index[name]
         ELSE Kept(loaded, dir) = index
<1>1. CASE loaded.kind = "skill" /\ loaded.name \notin DOMAIN index
  BY <1>1 DEF Kept
<1>2. CASE ~(loaded.kind = "skill" /\ loaded.name \notin DOMAIN index)
  BY <1>2 DEF Kept
<1> QED
  BY <1>1, <1>2

(* The scan's steps keep its types, and indexes skills by directory name.   *)
ScanTypes ==
  /\ scanned \in 0..Len(Roots) /\ queue \in Seq(Dirs)
  /\ DOMAIN index \subseteq Range(SubDirs)
  /\ \A name \in DOMAIN index : index[name] \in Dirs /\ index[name][2] = name

LEMMA RootsAndSubDirs ==
  /\ Len(Roots) \in Nat /\ DOMAIN Roots = 1..Len(Roots)
  /\ Len(SubDirs) \in Nat /\ DOMAIN SubDirs = 1..Len(SubDirs)
  /\ \A k \in DOMAIN Roots : \A i \in DOMAIN SubDirs : <<Roots[k], SubDirs[i]>> \in Dirs
<1>1. Roots \in Seq(Range(Roots)) /\ SubDirs \in Seq(Range(SubDirs))
  BY SkillIndexAssumption
<1>2. /\ Len(Roots) \in Nat /\ DOMAIN Roots = 1..Len(Roots)
      /\ Len(SubDirs) \in Nat /\ DOMAIN SubDirs = 1..Len(SubDirs)
  BY <1>1
<1>3. \A k \in DOMAIN Roots : \A i \in DOMAIN SubDirs : <<Roots[k], SubDirs[i]>> \in Dirs
  BY DEF Dirs, Range
<1> QED
  BY <1>2, <1>3

LEMMA ScanStepTypes ==
  ASSUME DiskOK, ScanTypes, ScanStep
  PROVE  ScanTypes'
<1>1. CASE ListRoot
  <2>1. /\ UNCHANGED index /\ scanned' = scanned + 1 /\ scanned + 1 \in DOMAIN Roots
        /\ queue' = [i \in DOMAIN SubDirs |-> <<Roots[scanned + 1], SubDirs[i]>>]
    BY <1>1, RootsAndSubDirs DEF ListRoot, ScanTypes
  <2>2. queue' = [i \in 1..Len(SubDirs) |-> <<Roots[scanned + 1], SubDirs[i]>>]
    BY <2>1, RootsAndSubDirs
  <2>3. \A i \in 1..Len(SubDirs) : <<Roots[scanned + 1], SubDirs[i]>> \in Dirs
    BY <2>1, RootsAndSubDirs
  <2>4. queue' \in Seq(Dirs)
    BY <2>2, <2>3, RootsAndSubDirs
  <2> QED
    BY <2>1, <2>4, RootsAndSubDirs DEF ScanTypes
<1>2. CASE ListFails
  <2>1. scanned' = scanned + 1 /\ scanned < Len(Roots) /\ UNCHANGED <<queue, index>>
    BY <1>2 DEF ListFails
  <2>2. scanned' \in 0..Len(Roots)
    BY <2>1, RootsAndSubDirs DEF ScanTypes
  <2> QED
    BY <2>1, <2>2 DEF ScanTypes
<1>3. CASE LoadNext
  <2> DEFINE dir    == Head(queue)
             loaded == LoadSkill(dir)
  <2>1. dir \in Dirs /\ queue' \in Seq(Dirs)
    BY <1>3 DEF LoadNext, ScanTypes
  <2>2. index' = Kept(loaded, dir) /\ UNCHANGED scanned
    BY <1>3 DEF LoadNext
  <2>3. loaded.kind = "skill" => loaded.name = dir[2]
    BY <2>1, LoadSkillFacts
  <2>4. dir[2] \in Range(SubDirs)
    BY <2>1 DEF Dirs
  <2> HIDE DEF dir, loaded
  <2>5. CASE loaded.kind = "skill" /\ loaded.name \notin DOMAIN index
    <3>1. /\ DOMAIN index' = DOMAIN index \cup {dir[2]} /\ index'[dir[2]] = dir
          /\ \A name \in DOMAIN index : index'[name] = index[name]
      BY <2>2, <2>3, <2>5, KeptFacts
    <3> QED
      BY <2>1, <2>2, <2>4, <3>1 DEF ScanTypes
  <2>6. CASE ~(loaded.kind = "skill" /\ loaded.name \notin DOMAIN index)
    <3>1. index' = index
      BY <2>2, <2>6, KeptFacts
    <3> QED
      BY <2>1, <2>2, <3>1 DEF ScanTypes
  <2> QED
    BY <2>5, <2>6
<1> QED
  BY <1>1, <1>2, <1>3 DEF ScanStep

-----------------------------------------------------------------------------
(***************************************************************************)
(* The induction.                                                          *)
(***************************************************************************)
LEMMA TypesAgree == TypeOK /\ QueueOK <=> TypeOK /\ ScanTypes
<1>1. TypeOK => DOMAIN index \subseteq Range(SubDirs) /\ scanned \in 0..Len(Roots)
                /\ \A name \in DOMAIN index : index[name] \in Dirs
  BY DEF TypeOK, Range
<1> QED
  BY <1>1 DEF QueueOK, ScanTypes

LEMMA NamesAreNames == NoName \notin Range(SubDirs)
BY SkillActivationAssumption

LEMMA ActivationInit == Init => TypeOK /\ ActivationInv
<1> SUFFICES ASSUME Init PROVE TypeOK /\ ActivationInv
  OBVIOUS
<1>1. disk \in Disks /\ edits = 0 /\ scanned = 0 /\ queue = <<>> /\ index = <<>> /\ active = <<>>
  BY DEF Init, ScanInit
<1>2. MaxEdits \in Nat /\ Len(Roots) \in Nat
  BY SkillIndexAssumption, RootsAndSubDirs
<1>3. Range(queue) \subseteq Dirs /\ DOMAIN index = {} /\ Range(index) \subseteq Dirs
  BY <1>1 DEF Range
<1>4. DOMAIN disk = Dirs /\ DiskOK
  <2>1. DOMAIN disk = Dirs
    BY <1>1, SkillIndexAssumption
  <2>2. ASSUME NEW d \in Dirs
        PROVE  \/ disk[d].kind \in {"missing", "unreadable"}
               \/ disk[d].kind = "skill" /\ disk[d].body = <<d, 0>>
    BY <1>1, SkillIndexAssumption
  <2>3. 0 \in 0..edits
    BY <1>1
  <2>4. \A d \in Dirs : <<d, 0>> \in {d} \X (0..edits)
    BY <2>3
  <2> QED
    BY <2>1, <2>2, <2>4 DEF DiskOK
<1>5. TypeOK
  BY <1>1, <1>2, <1>3, <1>4 DEF Init, TypeOK, Versions
<1>6. QueueOK /\ Shown = {} /\ DOMAIN active = {}
  BY <1>1, <1>3 DEF QueueOK, Shown
<1>7. IndexComplete /\ ReadsAreFresh
  BY <1>1, <1>6 DEF Init, IndexComplete, ReadsAreFresh
<1>8. ActiveOnce /\ BodyReloaded /\ LoadedUntilUndone
  BY <1>6 DEF Init, ActiveOnce, BodyReloaded, LoadedUntilUndone
<1> QED
  BY <1>4, <1>5, <1>6, <1>7, <1>8 DEF ActivationInv

(* The scan changes nothing that a run has: no run has begun.               *)
LEMMA ScanKeeps ==
  ASSUME TypeOK, ActivationInv, ScanStep, UNCHANGED stateVars
  PROVE  TypeOK' /\ ActivationInv'
<1>1. ~ScanDone /\ UNCHANGED <<disk, edits>>
  <2>1. UNCHANGED <<disk, edits>>
    BY DEF ScanStep, ListRoot, ListFails, LoadNext, diskVars
  <2>2. queue # <<>> \/ scanned < Len(Roots)
    BY DEF ScanStep, ListRoot, ListFails, LoadNext
  <2>3. scanned < Len(Roots) => scanned # Len(Roots)
    <3>1. scanned \in 0..Len(Roots) /\ Len(Roots) \in Nat
      BY RootsAndSubDirs DEF TypeOK
    <3> QED
      BY <3>1
  <2> QED
    BY <2>1, <2>2, <2>3 DEF ScanDone
<1>2. active = <<>> /\ \A r \in Runs : pc[r] = "idle"
  BY <1>1 DEF ActivationInv, IndexComplete
<1>3. ScanTypes'
  BY ScanStepTypes, TypesAgree DEF ActivationInv
<1>4. UNCHANGED <<active, pc, arg, body, began, since, claim>>
  BY DEF stateVars, historyVars
<1>5. TypeOK'
  <2>1. Range(queue') \subseteq Dirs /\ Range(index') \subseteq Dirs
        /\ DOMAIN index' \subseteq Range(SubDirs) /\ scanned' \in 0..Len(Roots)
    BY <1>3 DEF ScanTypes, Range
  <2>2. arg' \in [Runs -> DOMAIN index' \cup {NoName}]
    BY <1>2, <1>4 DEF TypeOK
  <2> QED
    BY <1>1, <1>4, <2>1, <2>2 DEF TypeOK
<1>6. DiskOK' /\ QueueOK'
  BY <1>1, <1>3 DEF ActivationInv, DiskOK, QueueOK, ScanTypes
<1>7. IndexComplete' /\ ReadsAreFresh'
  <2>1. Shown' = {}
    BY <1>2, <1>4 DEF Shown
  <2> QED
    BY <1>1, <1>2, <1>4, <2>1 DEF ActivationInv, IndexComplete, ReadsAreFresh
<1>8. ActiveOnce' /\ BodyReloaded' /\ LoadedUntilUndone'
  BY <1>2, <1>4 DEF ActivationInv, ActiveOnce, BodyReloaded, LoadedUntilUndone, Shown
<1> QED
  BY <1>5, <1>6, <1>7, <1>8 DEF ActivationInv

(* The name that a run activates is indexed, to a directory.                *)
LEMMA Looked ==
  ASSUME TypeOK, NEW r \in Runs, pc[r] # "idle"
  PROVE  arg[r] \in DOMAIN index /\ index[arg[r]] \in Dirs /\ arg[r] \in Range(SubDirs)
<1>1. arg[r] \in DOMAIN index
  BY DEF TypeOK
<1>2. index[arg[r]] \in Range(index)
  BY <1>1 DEF Range
<1> QED
  BY <1>1, <1>2 DEF TypeOK

(* An edit writes a number that no read can have seen.                      *)
LEMMA EditKeeps ==
  ASSUME TypeOK, ActivationInv, NEW dir \in Dirs, Edit(dir), UNCHANGED stateVars
  PROVE  TypeOK' /\ ActivationInv'
<1>1. UNCHANGED <<scanned, queue, index, active, pc, arg, body, began, since, claim>>
  BY DEF Edit, scanVars, stateVars, historyVars
<1>2. edits' = edits + 1 /\ edits \in Nat /\ edits' \in Versions /\ \A n \in 0..edits : n \in 0..edits'
  <2>1. edits \in 0..MaxEdits /\ MaxEdits \in Nat
    BY SkillIndexAssumption DEF TypeOK, Versions
  <2>2. edits < MaxEdits /\ edits' = edits + 1
    BY DEF Edit
  <2> QED
    BY <2>1, <2>2 DEF Versions
<1>3. /\ DOMAIN disk' = Dirs /\ \A d \in Dirs \ {dir} : disk'[d] = disk[d]
      /\ \/ disk'[dir].kind = "skill" /\ disk'[dir].body = <<dir, edits + 1>>
         \/ disk'[dir].kind \in {"missing", "unreadable"}
  BY DEF Edit, TypeOK
<1>4. TypeOK'
  BY <1>1, <1>2, <1>3 DEF TypeOK
<1>5. DiskOK'
  <2>1. SUFFICES ASSUME NEW d \in Dirs
                 PROVE  /\ disk'[d].kind \in {"missing", "unreadable", "skill"}
                        /\ disk'[d].kind = "skill" => disk'[d].body \in {d} \X (0..edits')
    BY DEF DiskOK
  <2>2. CASE d = dir
    <3>1. <<dir, edits + 1>> \in {dir} \X (0..edits')
      BY <1>2
    <3> QED
      BY <1>3, <2>2, <3>1
  <2>3. CASE d # dir
    <3>1. disk'[d] = disk[d]
      BY <1>3, <2>3
    <3>2. disk[d].kind = "skill" => disk[d].body \in {d} \X (0..edits')
      BY <1>2 DEF ActivationInv, DiskOK
    <3> QED
      BY <3>1, <3>2 DEF ActivationInv, DiskOK
  <2> QED
    BY <2>2, <2>3
<1>6. QueueOK' /\ IndexComplete'
  BY <1>1 DEF ActivationInv, QueueOK, IndexComplete, ScanDone, Shown
<1>7. ReadsAreFresh'
  <2>1. SUFFICES ASSUME NEW r \in Runs
                 PROVE  /\ began[r] <= edits'
                        /\ pc[r] = "reading" /\ Framed(FileOf(arg[r]))' =>
                             began[r] <= FileOf(arg[r])'.body[2]
                        /\ pc[r] = "loaded" => /\ body[r] \in Bodies /\ body[r][1] = index[arg[r]]
                                               /\ began[r] <= body[r][2]
    BY <1>1 DEF ReadsAreFresh, FileOf
  <2>2. began[r] \in Nat /\ began[r] <= edits
    BY DEF TypeOK, Versions, ActivationInv, ReadsAreFresh
  <2>3. pc[r] = "loaded" => /\ body[r] \in Bodies /\ body[r][1] = index[arg[r]]
                            /\ began[r] <= body[r][2]
    BY DEF ActivationInv, ReadsAreFresh
  <2>4. ASSUME pc[r] = "reading", Framed(FileOf(arg[r]))' PROVE began[r] <= FileOf(arg[r])'.body[2]
    <3> DEFINE d == index[arg[r]]
    <3>1. d \in Dirs /\ FileOf(arg[r])' = disk'[d] /\ FileOf(arg[r]) = disk[d]
      BY <1>1, <2>4, Looked DEF FileOf
    <3>2. CASE d = dir
      BY <1>2, <1>3, <2>2, <2>4, <3>1, <3>2 DEF Framed
    <3>3. CASE d # dir
      BY <1>1, <1>3, <2>4, <3>1, <3>3 DEF ActivationInv, ReadsAreFresh, Framed
    <3> QED
      BY <3>2, <3>3
  <2> QED
    BY <1>2, <2>2, <2>3, <2>4
<1>8. ActiveOnce' /\ BodyReloaded' /\ LoadedUntilUndone'
  BY <1>1 DEF ActivationInv, ActiveOnce, BodyReloaded, LoadedUntilUndone, Shown
<1> QED
  BY <1>4, <1>5, <1>6, <1>7, <1>8 DEF ActivationInv

(* What a step that leaves the disk, the index and the active list alone    *)
(* has to show: the types, and that the run's own read is fresh.            *)
LEMMA QuietStep ==
  ASSUME TypeOK, ActivationInv, NEW r \in Runs,
         UNCHANGED <<diskVars, scanVars, active, since, claim>>,
         pc' \in [Runs -> {"idle", "reading", "loaded"}],
         arg' \in [Runs -> DOMAIN index \cup {NoName}],
         body' \in [Runs -> Bodies \cup {<<>>}], began' \in [Runs -> Versions],
         arg'[r] = NoName <=> pc'[r] = "idle",
         \A q \in Runs \ {r} : /\ pc'[q] = pc[q] /\ arg'[q] = arg[q]
                               /\ body'[q] = body[q] /\ began'[q] = began[q],
         pc'[r] # "idle" => ScanDone,
         began'[r] <= edits,
         pc'[r] = "reading" /\ Framed(FileOf(arg'[r])) => began'[r] <= FileOf(arg'[r]).body[2],
         pc'[r] = "loaded" => /\ body'[r] \in Bodies /\ body'[r][1] = index[arg'[r]]
                              /\ began'[r] <= body'[r][2]
  PROVE  TypeOK' /\ ActivationInv'
<1>1. UNCHANGED <<disk, edits, scanned, queue, index, active, since, claim>>
  BY DEF diskVars, scanVars
<1>2. TypeOK'
  BY <1>1 DEF TypeOK
<1>3. DiskOK' /\ QueueOK' /\ ActiveOnce' /\ BodyReloaded' /\ LoadedUntilUndone'
  BY <1>1 DEF ActivationInv, DiskOK, QueueOK, ActiveOnce, BodyReloaded, LoadedUntilUndone, Shown
<1>4. IndexComplete'
  BY <1>1 DEF ActivationInv, IndexComplete, Shown, ScanDone
<1>5. ReadsAreFresh'
  <2>1. \A name : FileOf(name)' = FileOf(name)
    BY <1>1 DEF FileOf
  <2>2. SUFFICES ASSUME NEW q \in Runs
                 PROVE  /\ began'[q] <= edits
                        /\ pc'[q] = "reading" /\ Framed(FileOf(arg'[q])) =>
                             began'[q] <= FileOf(arg'[q]).body[2]
                        /\ pc'[q] = "loaded" => /\ body'[q] \in Bodies /\ body'[q][1] = index[arg'[q]]
                                                /\ began'[q] <= body'[q][2]
    BY <1>1, <2>1 DEF ReadsAreFresh, FileOf
  <2>3. CASE q = r
    BY <2>3
  <2>4. CASE q # r
    BY <2>4 DEF ActivationInv, ReadsAreFresh
  <2> QED
    BY <2>3, <2>4
<1> QED
  BY <1>2, <1>3, <1>4, <1>5 DEF ActivationInv

(* A framed file has a body of its own directory.                           *)
LEMMA FramedBody ==
  ASSUME TypeOK, DiskOK, NEW name \in DOMAIN index, Framed(FileOf(name))
  PROVE  /\ FileOf(name).body \in Bodies /\ FileOf(name).body[1] = index[name]
         /\ FileOf(name).body[2] \in Versions /\ FileOf(name).body[2] <= edits
<1>1. index[name] \in Dirs
  BY DEF TypeOK, Range
<1>2. FileOf(name).body \in {index[name]} \X (0..edits)
  BY <1>1 DEF Framed, FileOf, DiskOK
<1>3. edits \in 0..MaxEdits /\ MaxEdits \in Nat
  BY SkillIndexAssumption DEF TypeOK, Versions
<1>4. \A v \in 0..edits : v \in 0..MaxEdits /\ v <= edits
  BY <1>3
<1> QED
  BY <1>1, <1>2, <1>4 DEF Bodies, Versions

LEMMA VersionFacts ==
  TypeOK => /\ 0 \in Versions /\ edits \in Nat /\ 0 <= edits
            /\ \A v \in Versions : v \in Nat /\ v <= v
<1>1. MaxEdits \in Nat
  BY SkillIndexAssumption
<1>2. 0 \in Versions /\ \A v \in Versions : v \in Nat /\ v <= v
  BY <1>1 DEF Versions
<1>3. \A v \in Versions : 0 <= v
  BY <1>1 DEF Versions
<1> QED
  BY <1>2, <1>3 DEF TypeOK

LEMMA BeginKeeps ==
  ASSUME TypeOK, ActivationInv, NEW r \in Runs, NEW name \in Names, BeginActivate(r, name)
  PROVE  TypeOK' /\ ActivationInv'
<1> DEFINE edit == IF Framed(FileOf(name)) THEN FileOf(name).body[2] ELSE 0
<1>1. /\ ScanDone /\ pc[r] = "idle" /\ name \in DOMAIN index
      /\ pc' = [pc EXCEPT ![r] = "reading"] /\ arg' = [arg EXCEPT ![r] = name]
      /\ began' = [began EXCEPT ![r] = edit]
      /\ UNCHANGED <<diskVars, scanVars, active, body, since, claim>>
  BY DEF BeginActivate
<1>2. Framed(FileOf(name)) => /\ FileOf(name).body[2] \in Versions /\ FileOf(name).body[2] <= edits
  BY <1>1, FramedBody DEF ActivationInv
<1>3. /\ edit \in Versions /\ edit <= edits /\ name # NoName
      /\ Framed(FileOf(name)) => edit <= FileOf(name).body[2]
  <2>1. name # NoName
    BY <1>1, NamesAreNames DEF TypeOK
  <2>2. CASE Framed(FileOf(name))
    BY <1>2, <2>1, <2>2, VersionFacts
  <2>3. CASE ~Framed(FileOf(name))
    BY <2>1, <2>3, VersionFacts
  <2> QED
    BY <2>2, <2>3
<1> HIDE DEF edit
<1>4. /\ pc' \in [Runs -> {"idle", "reading", "loaded"}] /\ arg' \in [Runs -> DOMAIN index \cup {NoName}]
      /\ body' \in [Runs -> Bodies \cup {<<>>}] /\ began' \in [Runs -> Versions]
      /\ pc'[r] = "reading" /\ arg'[r] = name /\ began'[r] = edit
      /\ \A q \in Runs \ {r} : /\ pc'[q] = pc[q] /\ arg'[q] = arg[q]
                               /\ body'[q] = body[q] /\ began'[q] = began[q]
  BY <1>1, <1>3 DEF TypeOK
<1> QED
  BY <1>1, <1>3, <1>4, QuietStep

LEMMA ReadKeeps ==
  ASSUME TypeOK, ActivationInv, NEW r \in Runs, ReadFile(r)
  PROVE  TypeOK' /\ ActivationInv'
<1>1. /\ pc[r] = "reading" /\ Framed(FileOf(arg[r]))
      /\ body' = [body EXCEPT ![r] = FileOf(arg[r]).body] /\ pc' = [pc EXCEPT ![r] = "loaded"]
      /\ UNCHANGED <<diskVars, scanVars, active, arg, began, since, claim>>
  BY DEF ReadFile, historyVars
<1>2. arg[r] \in DOMAIN index
  BY <1>1, Looked
<1>3. /\ FileOf(arg[r]).body \in Bodies /\ FileOf(arg[r]).body[1] = index[arg[r]]
      /\ began[r] <= FileOf(arg[r]).body[2] /\ began[r] <= edits
  BY <1>1, <1>2, FramedBody DEF ActivationInv, ReadsAreFresh
<1>4. /\ pc' \in [Runs -> {"idle", "reading", "loaded"}] /\ arg' \in [Runs -> DOMAIN index \cup {NoName}]
      /\ body' \in [Runs -> Bodies \cup {<<>>}] /\ began' \in [Runs -> Versions]
      /\ pc'[r] = "loaded" /\ arg'[r] = arg[r] /\ began'[r] = began[r] /\ body'[r] = FileOf(arg[r]).body
      /\ \A q \in Runs \ {r} : /\ pc'[q] = pc[q] /\ arg'[q] = arg[q]
                               /\ body'[q] = body[q] /\ began'[q] = began[q]
  BY <1>1, <1>3 DEF TypeOK
<1>5. ScanDone /\ arg[r] # NoName
  BY <1>1 DEF ActivationInv, IndexComplete, TypeOK
<1> QED
  BY <1>1, <1>3, <1>4, <1>5, QuietStep

LEMMA FailKeeps ==
  ASSUME TypeOK, ActivationInv, NEW r \in Runs, ReadFails(r)
  PROVE  TypeOK' /\ ActivationInv'
<1>1. /\ pc' = [pc EXCEPT ![r] = "idle"] /\ arg' = [arg EXCEPT ![r] = NoName]
      /\ began' = [began EXCEPT ![r] = 0]
      /\ UNCHANGED <<diskVars, scanVars, active, body, since, claim>>
  BY DEF ReadFails
<1>2. 0 \in Versions /\ 0 <= edits
  BY VersionFacts
<1>3. /\ pc' \in [Runs -> {"idle", "reading", "loaded"}] /\ arg' \in [Runs -> DOMAIN index \cup {NoName}]
      /\ body' \in [Runs -> Bodies \cup {<<>>}] /\ began' \in [Runs -> Versions]
      /\ pc'[r] = "idle" /\ arg'[r] = NoName /\ began'[r] = 0
      /\ \A q \in Runs \ {r} : /\ pc'[q] = pc[q] /\ arg'[q] = arg[q]
                               /\ body'[q] = body[q] /\ began'[q] = began[q]
  BY <1>1, <1>2 DEF TypeOK
<1> QED
  BY <1>1, <1>2, <1>3, QuietStep

LEMMA InstallKeeps ==
  ASSUME TypeOK, ActivationInv, NEW r \in Runs, Install(r)
  PROVE  TypeOK' /\ ActivationInv'
<1> DEFINE name == arg[r]
           new  == Installed(name, body[r])
<1>1. /\ pc[r] = "loaded" /\ active' = new
      /\ since' = [since EXCEPT ![name] = began[r]]
      /\ claim' = [claim EXCEPT ![r][name] = "mine"]
      /\ pc' = [pc EXCEPT ![r] = "idle"] /\ arg' = [arg EXCEPT ![r] = NoName]
      /\ body' = [body EXCEPT ![r] = <<>>] /\ began' = [began EXCEPT ![r] = 0]
      /\ UNCHANGED <<disk, edits, scanned, queue, index>>
  BY DEF Install, diskVars, scanVars
<1>2. name \in DOMAIN index /\ name \in Range(SubDirs)
  BY <1>1, Looked
<1>3. /\ body[r] \in Bodies /\ body[r][1] = index[name] /\ began[r] <= body[r][2]
      /\ ScanDone /\ began[r] \in Versions
  BY <1>1 DEF ActivationInv, ReadsAreFresh, IndexComplete, TypeOK
<1>4. active \in Seq(Entry) /\ ActiveOnce /\ DOMAIN active = 1..Len(active)
  <2>1. active \in Seq(Entry) /\ ActiveOnce
    BY DEF TypeOK, ActivationInv
  <2> QED
    BY <2>1
<1>5. /\ active' \in Seq(Entry)
      /\ DOMAIN active' = IF IsActive(name) THEN DOMAIN active ELSE 1..(Len(active) + 1)
      /\ \A i \in DOMAIN active :
           /\ i \in DOMAIN active' /\ active'[i].name = active[i].name
           /\ active[i].name # name => active'[i] = active[i]
      /\ \A i \in DOMAIN active' : active'[i].name = name => active'[i].body = body[r]
      /\ \A i \in DOMAIN active' : i \notin DOMAIN active => active'[i].name = name
      /\ \E i \in DOMAIN active' : active'[i].name = name
  BY <1>1, <1>2, <1>3, <1>4, InstalledFacts
<1> HIDE DEF name, new
<1>6. TypeOK'
  <2>1. 0 \in Versions
    BY VersionFacts
  <2>2. /\ since' \in [Range(SubDirs) -> Versions]
        /\ claim' \in [Runs -> [Range(SubDirs) -> {"none", "mine", "undone"}]]
    BY <1>1, <1>2, <1>3 DEF TypeOK
  <2>3. /\ pc' \in [Runs -> {"idle", "reading", "loaded"}]
        /\ arg' \in [Runs -> DOMAIN index' \cup {NoName}]
        /\ body' \in [Runs -> Bodies \cup {<<>>}] /\ began' \in [Runs -> Versions]
        /\ \A q \in Runs : arg'[q] = NoName <=> pc'[q] = "idle"
    BY <1>1, <2>1 DEF TypeOK
  <2> QED
    BY <1>1, <1>5, <2>2, <2>3 DEF TypeOK
<1>7. DiskOK' /\ QueueOK' /\ ReadsAreFresh'
  <2>1. DiskOK' /\ QueueOK'
    BY <1>1 DEF ActivationInv, DiskOK, QueueOK
  <2>2. ASSUME NEW q \in Runs
        PROVE  /\ began'[q] <= edits
               /\ pc'[q] = "reading" /\ Framed(FileOf(arg'[q])) => began'[q] <= FileOf(arg'[q]).body[2]
               /\ pc'[q] = "loaded" => /\ body'[q] \in Bodies /\ body'[q][1] = index[arg'[q]]
                                       /\ began'[q] <= body'[q][2]
    <3>1. CASE q = r
      <4>1. pc'[q] = "idle" /\ began'[q] = 0 /\ 0 <= edits
        BY <1>1, <3>1, VersionFacts DEF TypeOK
      <4> QED
        BY <4>1
    <3>2. CASE q # r
      <4>1. pc'[q] = pc[q] /\ arg'[q] = arg[q] /\ body'[q] = body[q] /\ began'[q] = began[q]
        BY <1>1, <3>2 DEF TypeOK
      <4> QED
        BY <4>1 DEF ActivationInv, ReadsAreFresh
    <3> QED
      BY <3>1, <3>2
  <2> QED
    BY <1>1, <2>1, <2>2 DEF ReadsAreFresh, FileOf
<1>8. Shown \subseteq Shown' /\ name \in Shown' /\ Shown' \subseteq Shown \cup {name}
  BY <1>5 DEF Shown
<1>9. IndexComplete'
  BY <1>1, <1>2, <1>3, <1>8 DEF ActivationInv, IndexComplete, ScanDone
<1>10. ActiveOnce'
  <2>1. \A i \in DOMAIN active : active[i].name = name => IsActive(name)
    BY DEF IsActive
  <2>2. Len(active) \in Nat
    BY <1>4
  <2> SUFFICES ASSUME NEW i \in DOMAIN active', NEW j \in DOMAIN active',
                      active'[i].name = active'[j].name
               PROVE  i = j
    BY DEF ActiveOnce
  <2>3. CASE IsActive(name)
    BY <1>4, <1>5, <2>3 DEF ActiveOnce
  <2>4. CASE ~IsActive(name)
    <3>1. \A k \in DOMAIN active' : k \in DOMAIN active \/ k = Len(active) + 1
      BY <1>4, <1>5, <2>2, <2>4
    <3>2. \A k \in DOMAIN active : active'[k].name # name
      BY <1>5, <2>1, <2>4
    <3> QED
      BY <1>4, <1>5, <3>1, <3>2 DEF ActiveOnce
  <2> QED
    BY <2>3, <2>4
<1>11. BodyReloaded'
  <2> SUFFICES ASSUME NEW i \in DOMAIN active'
               PROVE  /\ active'[i].body[1] = index[active'[i].name]
                      /\ active'[i].body[2] >= since'[active'[i].name]
    BY <1>1 DEF BodyReloaded
  <2>1. CASE active'[i].name = name
    <3>1. active'[i].body = body[r] /\ since'[name] = began[r]
      BY <1>1, <1>2, <1>5, <2>1 DEF TypeOK
    <3>2. body[r][2] \in Nat /\ began[r] \in Nat
      BY <1>3, VersionFacts DEF Bodies
    <3> QED
      BY <1>3, <2>1, <3>1, <3>2
  <2>2. CASE active'[i].name # name
    <3>1. i \in DOMAIN active /\ active'[i] = active[i]
      BY <1>5, <2>2
    <3>2. active[i].name \in Range(SubDirs)
      <4>1. active[i] \in Entry
        BY <1>4, <3>1
      <4> QED
        BY <4>1 DEF Entry
    <3>3. since'[active[i].name] = since[active[i].name]
      BY <1>1, <2>2, <3>1, <3>2 DEF TypeOK
    <3> QED
      BY <3>1, <3>3 DEF ActivationInv, BodyReloaded
  <2> QED
    BY <2>1, <2>2
<1>12. LoadedUntilUndone'
  <2> SUFFICES ASSUME NEW q \in Runs, NEW s \in Range(SubDirs), claim'[q][s] = "mine"
               PROVE  s \in Shown'
    BY DEF LoadedUntilUndone
  <2>1. s = name \/ claim[q][s] = "mine"
    BY <1>1, <1>2 DEF TypeOK
  <2> QED
    BY <1>8, <2>1 DEF ActivationInv, LoadedUntilUndone
<1> QED
  BY <1>6, <1>7, <1>9, <1>10, <1>11, <1>12 DEF ActivationInv

LEMMA DeactivateKeeps ==
  ASSUME TypeOK, ActivationInv, NEW r \in Runs, NEW name \in Names, Deactivate(r, name)
  PROVE  TypeOK' /\ ActivationInv'
<1>1. /\ ScanDone /\ active' = Without(name)
      /\ UNCHANGED <<disk, edits, scanned, queue, index, pc, arg, body, began, since>>
  BY DEF Deactivate, diskVars, scanVars
<1>2. claim' = [q \in Runs |-> [s \in Range(SubDirs) |->
                 CASE s # name             -> claim[q][s]
                   [] s = name /\ q = r    -> "none"
                   [] OTHER -> IF claim[q][s] = "none" THEN "none" ELSE "undone"]]
  BY DEF Deactivate
<1>3. active \in Seq(Entry) /\ ActiveOnce
  BY DEF TypeOK, ActivationInv
<1>4. /\ active' \in Seq(Entry)
      /\ \A i \in DOMAIN active' : /\ active'[i].name # name
                                   /\ \E j \in DOMAIN active : active'[i] = active[j]
      /\ \A j \in DOMAIN active : active[j].name # name =>
           \E i \in DOMAIN active' : active'[i] = active[j]
      /\ \A i, j \in DOMAIN active' : active'[i].name = active'[j].name => i = j
  BY <1>1, <1>3, WithoutFacts
<1>5. \A q \in Runs : \A s \in Range(SubDirs) :
        /\ claim'[q][s] \in {"none", "mine", "undone"}
        /\ claim'[q][s] = "mine" => s # name /\ claim[q][s] = "mine"
  <2> SUFFICES ASSUME NEW q \in Runs, NEW s \in Range(SubDirs)
               PROVE  /\ claim'[q][s] \in {"none", "mine", "undone"}
                      /\ claim'[q][s] = "mine" => s # name /\ claim[q][s] = "mine"
    OBVIOUS
  <2>1. claim[q][s] \in {"none", "mine", "undone"}
    BY DEF TypeOK
  <2>2. CASE s # name
    BY <1>2, <2>1, <2>2
  <2>3. CASE s = name
    BY <1>2, <2>1, <2>3
  <2> QED
    BY <2>2, <2>3
<1>6. TypeOK'
  <2>1. claim' \in [Runs -> [Range(SubDirs) -> {"none", "mine", "undone"}]]
    BY <1>2, <1>5
  <2> QED
    BY <1>1, <1>4, <2>1 DEF TypeOK
<1>7. DiskOK' /\ QueueOK' /\ ReadsAreFresh'
  BY <1>1 DEF ActivationInv, DiskOK, QueueOK, ReadsAreFresh, FileOf
<1>8. Shown' \subseteq Shown /\ Shown \ {name} \subseteq Shown'
  BY <1>4 DEF Shown
<1>9. IndexComplete'
  BY <1>1, <1>8 DEF ActivationInv, IndexComplete, ScanDone
<1>10. ActiveOnce' /\ BodyReloaded'
  BY <1>1, <1>4 DEF ActivationInv, ActiveOnce, BodyReloaded
<1>11. LoadedUntilUndone'
  BY <1>5, <1>8 DEF ActivationInv, LoadedUntilUndone
<1> QED
  BY <1>6, <1>7, <1>9, <1>10, <1>11 DEF ActivationInv

LEMMA ActivationStep == TypeOK /\ ActivationInv /\ [Next]_vars => (TypeOK /\ ActivationInv)'
<1> SUFFICES ASSUME TypeOK, ActivationInv, [Next]_vars PROVE (TypeOK /\ ActivationInv)'
  OBVIOUS
<1>1. CASE UNCHANGED vars
  BY <1>1 DEF vars, diskVars, scanVars, stateVars, historyVars, TypeOK, ActivationInv, DiskOK,
              QueueOK, IndexComplete, ReadsAreFresh, ActiveOnce, BodyReloaded, LoadedUntilUndone,
              Shown, ScanDone, FileOf
<1>2. CASE Next
  BY <1>2, ScanKeeps, EditKeeps, ReadKeeps, FailKeeps, InstallKeeps, BeginKeeps, DeactivateKeeps
     DEF Next
<1> QED
  BY <1>1, <1>2

LEMMA ActivationHolds == Spec => [](TypeOK /\ ActivationInv)
BY ActivationInit, ActivationStep, PTL DEF Spec

-----------------------------------------------------------------------------
(***************************************************************************)
(* The order of the active skills.                                         *)
(***************************************************************************)
(* The position of a name that a list has once.                             *)
LEMMA PositionIs ==
  ASSUME NEW list, NEW name, NEW k \in DOMAIN list, list[k].name = name,
         \A i \in DOMAIN list : list[i].name = name => i = k
  PROVE  (CHOOSE i \in DOMAIN list : list[i].name = name) = k
OBVIOUS

(* Where a skill stands after a step: as before, or one place further up    *)
(* when a skill before it is removed.                                       *)
LEMMA OrderPreserved ==
  ASSUME TypeOK, ActivationInv, [Next]_vars
  PROVE  OrderStep
<1>a. ActiveOnce /\ ActiveOnce' /\ active \in Seq(Entry)
  BY ActivationStep DEF ActivationInv, TypeOK
<1>b. DOMAIN active = 1..Len(active)
  BY <1>a
<1>1. CASE UNCHANGED active
  BY <1>1 DEF OrderStep, IsActive, Position
<1>c. ASSUME NEW s, NEW k \in DOMAIN active', active'[k].name = s
      PROVE  Position(s)' = k
  BY <1>a, <1>c, PositionIs DEF Position, ActiveOnce
<1>2. ASSUME NEW r \in Runs, Install(r) PROVE OrderStep
  <2>1. arg[r] \in Range(SubDirs) /\ body[r] \in Bodies /\ active' = Installed(arg[r], body[r])
    BY <1>2, Looked DEF Install, ActivationInv, ReadsAreFresh
  <2>2. \A i \in DOMAIN active : i \in DOMAIN active' /\ active'[i].name = active[i].name
    BY <1>a, <2>1, InstalledFacts
  <2>3. ASSUME NEW s, IsActive(s) PROVE Position(s)' = Position(s)
    <3>1. Position(s) \in DOMAIN active /\ active[Position(s)].name = s
      BY <2>3, PositionFacts
    <3> QED
      BY <1>c, <2>2, <3>1
  <2> QED
    BY <2>3 DEF OrderStep
<1>3. ASSUME NEW r \in Runs, NEW name \in Names, Deactivate(r, name) PROVE OrderStep
  <2> DEFINE p      == Position(name)
             Now(i) == IF IsActive(name) THEN Shifted(i, p) ELSE i
  <2>1. active' = Without(name)
    BY <1>3 DEF Deactivate
  <2>2. /\ \A i \in DOMAIN active' : active'[i].name # name
        /\ \A j \in DOMAIN active : active[j].name # name =>
             Now(j) \in DOMAIN active' /\ active'[Now(j)] = active[j]
    BY <1>a, <2>1, WithoutFacts
  <2>3. ASSUME NEW s, IsActive(s), IsActive(s)'
        PROVE  /\ Position(s) \in DOMAIN active /\ Position(s)' = Now(Position(s))
               /\ IsActive(name) => p \in DOMAIN active /\ Position(s) # p
    <3>1. Position(s) \in DOMAIN active /\ active[Position(s)].name = s
      BY <2>3, PositionFacts
    <3>2. s # name
      BY <2>2, <2>3 DEF IsActive
    <3>3. Position(s)' = Now(Position(s))
      BY <1>c, <2>2, <3>1, <3>2
    <3>4. IsActive(name) => p \in DOMAIN active /\ active[p].name = name
      BY PositionFacts
    <3> QED
      BY <3>1, <3>2, <3>3, <3>4
  <2>4. ASSUME NEW i \in DOMAIN active, NEW j \in DOMAIN active,
               IsActive(name) => p \in DOMAIN active /\ i # p /\ j # p
        PROVE  i < j <=> Now(i) < Now(j)
    BY <1>a, <1>b, <2>4 DEF Shifted
  <2> HIDE DEF Now
  <2> SUFFICES ASSUME NEW s \in Range(SubDirs), NEW t \in Range(SubDirs),
                      IsActive(s), IsActive(t), IsActive(s)', IsActive(t)'
               PROVE  Position(s) < Position(t) <=> Position(s)' < Position(t)'
    BY DEF OrderStep
  <2> QED
    BY <2>3, <2>4
<1>4. UNCHANGED active
      \/ (\E r \in Runs : Install(r) \/ \E name \in Names : Deactivate(r, name))
  BY DEF Next, vars, stateVars, ReadFile, ReadFails, BeginActivate
<1> QED
  BY <1>1, <1>2, <1>3, <1>4

-----------------------------------------------------------------------------
(***************************************************************************)
(* The theorems.                                                           *)
(***************************************************************************)
(* The values of the skill state keep their types, and a run that reads a   *)
(* file or holds a body does so for a name of the index.                    *)
THEOREM SkillTypeCorrect == Spec => []TypeOK
BY ActivationHolds, PTL

(* However the runs' activations and deactivations overlap, a skill is in   *)
(* the shared list at most once.                                            *)
THEOREM ActiveOnceCorrect == Spec => []ActiveOnce
<1>1. ActivationInv => ActiveOnce
  BY DEF ActivationInv
<1> QED
  BY ActivationHolds, <1>1, PTL

(* An active skill has the body that its latest activation read, from the   *)
(* root that won the scan, and not older than that activation.              *)
THEOREM BodyReloadedCorrect == Spec => []BodyReloaded
<1>1. ActivationInv => BodyReloaded
  BY DEF ActivationInv
<1> QED
  BY ActivationHolds, <1>1, PTL

(* A run keeps the skills it activated until someone deactivates them.      *)
THEOREM LoadedUntilUndoneCorrect == Spec => []LoadedUntilUndone
<1>1. ActivationInv => LoadedUntilUndone
  BY DEF ActivationInv
<1> QED
  BY ActivationHolds, <1>1, PTL

(* No activation, re-activation or deactivation swaps two active skills.    *)
THEOREM OrderKeptCorrect == Spec => OrderKept
<1>1. TypeOK /\ ActivationInv /\ [Next]_vars => [OrderStep]_vars
  BY OrderPreserved
<1> QED
  BY ActivationHolds, <1>1, PTL DEF Spec, OrderKept

-----------------------------------------------------------------------------
(***************************************************************************)
(* What the scan accounts for, when no root is scanned twice.              *)
(***************************************************************************)
DistinctRoots == IsInjective(Roots)

(* What is still to be loaded has not been: the rest of the root that was   *)
(* listed last, each subdirectory once, and all the roots after it.         *)
QueueAhead ==
  /\ queue # <<>> => scanned \in DOMAIN Roots
  /\ \A i \in DOMAIN queue : queue[i][1] = Roots[scanned] /\ seen[queue[i]] = NoSkill
  /\ \A i, j \in DOMAIN queue : queue[i] = queue[j] => i = j
  /\ \A d \in Dirs : Rank(d) > scanned => seen[d] = NoSkill

SeenOK ==
  /\ DOMAIN seen = Dirs /\ seen = [d \in Dirs |-> seen[d]]
  /\ \A d \in Dirs :
       /\ seen[d].kind \in {"none", "Invalid", "skill"}
       /\ seen[d].kind = "skill" => seen[d].name = d[2] /\ d[2] \in DOMAIN index

(* The index has the first valid skill of each name.                        *)
FirstKept ==
  \A name \in DOMAIN index :
    /\ index[name] \in ValidFor(name)
    /\ \A d \in ValidFor(name) : d = index[name] \/ Rank(index[name]) < Rank(d)

(* Every directory but those of skills in the index has one diagnostic.     *)
OneEach ==
  /\ diagnostics \in Seq(Range(diagnostics))
  /\ \A d \in Dirs :
       /\ seen[d].kind = "none" => Diagnosed(d) = {}
       /\ seen[d].kind = "Invalid" =>
            \E i \in Diagnosed(d) : Diagnosed(d) = {i} /\ diagnostics[i] = seen[d]
       /\ seen[d].kind = "skill" =>
            IF d = index[d[2]] THEN Diagnosed(d) = {}
            ELSE \E i \in Diagnosed(d) : /\ Diagnosed(d) = {i}
                                         /\ diagnostics[i].kind = "Duplicate"
                                         /\ diagnostics[i].kept = index[d[2]]

ScanInv == QueueAhead /\ SeenOK /\ FirstKept /\ OneEach

LEMMA RankFacts ==
  ASSUME DistinctRoots, NEW d \in Dirs
  PROVE  /\ Rank(d) \in DOMAIN Roots /\ Roots[Rank(d)] = d[1] /\ Rank(d) \in Nat
         /\ \A k \in DOMAIN Roots : Roots[k] = d[1] => k = Rank(d)
         /\ \A e \in Dirs : Rank(e) = Rank(d) /\ e[2] = d[2] => e = d
<1>1. \A e \in Dirs : \E k \in DOMAIN Roots : Roots[k] = e[1]
  BY DEF Dirs, Range
<1>2. \A e \in Dirs : Rank(e) \in DOMAIN Roots /\ Roots[Rank(e)] = e[1]
  BY <1>1 DEF Rank
<1>3. \A e \in Dirs : e = <<e[1], e[2]>>
  BY DEF Dirs
<1>4. \A e \in Dirs : Rank(e) = Rank(d) /\ e[2] = d[2] => e = d
  BY <1>2, <1>3
<1>5. Rank(d) \in Nat
  BY <1>2, RootsAndSubDirs
<1> QED
  BY <1>2, <1>4, <1>5 DEF DistinctRoots, IsInjective

(* Of the valid skills of a name there is one in the earliest root.         *)
LEMMA EarliestIs ==
  ASSUME DistinctRoots, NEW name, NEW d \in ValidFor(name),
         \A e \in ValidFor(name) : e = d \/ Rank(d) < Rank(e)
  PROVE  Earliest(name) = d
<1>1. \A e \in ValidFor(name) : e \in Dirs /\ Rank(e) \in Nat
  BY RankFacts DEF ValidFor
<1>2. \A e \in ValidFor(name) : Rank(d) <= Rank(e)
  BY <1>1
<1>3. ASSUME NEW x \in ValidFor(name), \A e \in ValidFor(name) : Rank(x) <= Rank(e)
      PROVE  x = d
  BY <1>1, <1>3
<1> QED
  BY <1>2, <1>3 DEF Earliest

(* The scan's invariant says that it accounts for every directory.          *)
LEMMA ScanInvAccounts ==
  ASSUME DistinctRoots, ScanInv
  PROVE  ScanAccounts
<1>1. \A name \in DOMAIN index : ValidFor(name) # {} /\ index[name] = Earliest(name)
  BY EarliestIs DEF ScanInv, FirstKept
<1>2. ASSUME NEW d \in Dirs, seen[d].kind = "skill"
      PROVE  seen[d].name = d[2] /\ index[d[2]] = Earliest(seen[d].name)
  BY <1>1, <1>2 DEF ScanInv, SeenOK
<1>3. ASSUME NEW d \in Dirs
      PROVE  CASE seen[d].kind = "none"    -> Diagnosed(d) = {}
               [] seen[d].kind = "Invalid" ->
                    \E i \in Diagnosed(d) : Diagnosed(d) = {i} /\ diagnostics[i] = seen[d]
               [] seen[d].kind = "skill"   ->
                    IF d = Earliest(seen[d].name)
                    THEN Diagnosed(d) = {} /\ index[seen[d].name] = d
                    ELSE \E i \in Diagnosed(d) : /\ Diagnosed(d) = {i}
                                                 /\ diagnostics[i].kind = "Duplicate"
                                                 /\ diagnostics[i].kept = Earliest(seen[d].name)
  <2>1. seen[d].kind \in {"none", "Invalid", "skill"}
    BY DEF ScanInv, SeenOK
  <2>2. CASE seen[d].kind = "none"
    BY <2>2 DEF ScanInv, OneEach
  <2>3. CASE seen[d].kind = "Invalid"
    BY <2>3 DEF ScanInv, OneEach
  <2>4. CASE seen[d].kind = "skill"
    BY <1>2, <2>4 DEF ScanInv, OneEach
  <2> QED
    BY <2>1, <2>2, <2>3, <2>4
<1> QED
  BY <1>1, <1>3 DEF ScanAccounts

(* One more diagnostic. *)
LEMMA OneMore ==
  ASSUME diagnostics \in Seq(Range(diagnostics)), NEW x, diagnostics' = Append(diagnostics, x)
  PROVE  /\ diagnostics' \in Seq(Range(diagnostics'))
         /\ \A i \in DOMAIN diagnostics : diagnostics'[i] = diagnostics[i]
         /\ \A d : x.path # d => Diagnosed(d)' = Diagnosed(d)
         /\ \A d : x.path = d /\ Diagnosed(d) = {} =>
              \E i \in Diagnosed(d)' : Diagnosed(d)' = {i} /\ diagnostics'[i] = x
<1> DEFINE S == Range(diagnostics)
           n == Len(diagnostics)
<1>1. n \in Nat /\ DOMAIN diagnostics = 1..n
  OBVIOUS
<1>2. diagnostics \in Seq(S \cup {x})
  OBVIOUS
<1> HIDE DEF S
<1>3. /\ DOMAIN diagnostics' = 1..(n + 1) /\ diagnostics'[n + 1] = x
      /\ \A i \in 1..n : diagnostics'[i] = diagnostics[i]
      /\ diagnostics' \in Seq(S \cup {x})
  BY <1>1, <1>2
<1>4. Range(diagnostics') = S \cup {x}
  <2>1. \A i \in 1..(n + 1) : i \in 1..n \/ i = n + 1
    BY <1>1
  <2>2. \A i \in 1..n : i \in 1..(n + 1)
    BY <1>1
  <2>3. n + 1 \in 1..(n + 1)
    BY <1>1
  <2> QED
    BY <1>1, <1>3, <2>1, <2>2, <2>3 DEF Range, S
<1>5. \A i \in 1..(n + 1) : i \in 1..n \/ i = n + 1
  BY <1>1
<1>6. n + 1 \in 1..(n + 1) /\ \A i \in 1..n : i \in 1..(n + 1)
  BY <1>1
<1>7. ASSUME NEW d, x.path # d PROVE Diagnosed(d)' = Diagnosed(d)
  BY <1>1, <1>3, <1>5, <1>6, <1>7 DEF Diagnosed
<1>8. ASSUME NEW d, x.path = d, Diagnosed(d) = {} PROVE Diagnosed(d)' = {n + 1}
  BY <1>1, <1>3, <1>5, <1>6, <1>8 DEF Diagnosed
<1> HIDE DEF n
<1> QED
  BY <1>1, <1>3, <1>4, <1>7, <1>8

LEMMA ScanInvInit == DistinctRoots /\ Init => ScanInv
<1> SUFFICES ASSUME DistinctRoots, Init PROVE ScanInv
  OBVIOUS
<1>1. /\ scanned = 0 /\ queue = <<>> /\ index = <<>> /\ diagnostics = <<>>
      /\ seen = [d \in Dirs |-> NoSkill]
  BY DEF Init, ScanInit
<1>2. DOMAIN index = {} /\ DOMAIN diagnostics = {} /\ DOMAIN queue = {}
  BY <1>1
<1>3. QueueAhead
  BY <1>1, <1>2 DEF QueueAhead
<1>4. SeenOK /\ FirstKept
  BY <1>1, <1>2 DEF SeenOK, FirstKept, NoSkill
<1>5. OneEach
  BY <1>1, <1>2 DEF OneEach, NoSkill, Diagnosed
<1> QED
  BY <1>3, <1>4, <1>5 DEF ScanInv

LEMMA ListRootAccounts ==
  ASSUME DistinctRoots, ScanTypes, ScanInv, ListRoot
  PROVE  ScanInv'
<1>1. /\ scanned' = scanned + 1 /\ scanned + 1 \in DOMAIN Roots /\ scanned \in Nat
      /\ queue' = [i \in DOMAIN SubDirs |-> <<Roots[scanned + 1], SubDirs[i]>>]
      /\ UNCHANGED <<index, diagnostics, seen>>
  BY RootsAndSubDirs DEF ListRoot, ScanTypes
<1>2. ASSUME NEW i \in DOMAIN queue'
      PROVE  /\ queue'[i] \in Dirs /\ queue'[i][1] = Roots[scanned'] /\ queue'[i][2] = SubDirs[i]
             /\ i \in DOMAIN SubDirs /\ seen'[queue'[i]] = NoSkill
  <2>1. i \in DOMAIN SubDirs /\ queue'[i] = <<Roots[scanned + 1], SubDirs[i]>>
    BY <1>1, <1>2
  <2>2. queue'[i] \in Dirs
    BY <1>1, <2>1, RootsAndSubDirs
  <2>3. Rank(queue'[i]) = scanned + 1
    BY <1>1, <2>1, <2>2, RankFacts
  <2>4. scanned + 1 > scanned
    BY <1>1
  <2> QED
    BY <1>1, <2>1, <2>2, <2>3, <2>4 DEF ScanInv, QueueAhead
<1>3. \A i, j \in DOMAIN queue' : queue'[i] = queue'[j] => i = j
  <2>1. \A i, j \in DOMAIN SubDirs : SubDirs[i] = SubDirs[j] => i = j
    BY SkillIndexAssumption DEF IsInjective
  <2> QED
    BY <1>2, <2>1
<1>4. \A d \in Dirs : Rank(d) > scanned' => seen'[d] = NoSkill
  <2>1. \A d \in Dirs : Rank(d) > scanned + 1 => Rank(d) > scanned
    BY <1>1, RankFacts
  <2> QED
    BY <1>1, <2>1 DEF ScanInv, QueueAhead
<1>5. QueueAhead'
  BY <1>1, <1>2, <1>3, <1>4 DEF QueueAhead, Rank
<1>6. SeenOK'
  BY <1>1 DEF ScanInv, SeenOK
<1>7. FirstKept'
  <2>1. \A name : ValidFor(name)' = ValidFor(name)
    BY <1>1 DEF ValidFor
  <2> QED
    BY <1>1, <2>1 DEF ScanInv, FirstKept, Rank
<1>8. OneEach'
  BY <1>1 DEF ScanInv, OneEach, Diagnosed
<1> QED
  BY <1>5, <1>6, <1>7, <1>8 DEF ScanInv

LEMMA ListFailsAccounts ==
  ASSUME DistinctRoots, ScanTypes, ScanInv, ListFails
  PROVE  ScanInv'
<1> DEFINE path   == <<Roots[scanned + 1], "">>
           failed == Invalid(path, <<"Io">>)
<1>1. /\ scanned' = scanned + 1 /\ scanned \in Nat /\ queue' = <<>>
      /\ diagnostics' = Append(diagnostics, failed)
      /\ UNCHANGED <<index, seen>>
  <2>1. scanned \in 0..Len(Roots) /\ Len(Roots) \in Nat
    BY RootsAndSubDirs DEF ScanTypes
  <2>2. scanned \in Nat
    BY <2>1
  <2> QED
    BY <2>2 DEF ListFails
<1>2. \A d \in Dirs : failed.path # d
  <2>1. failed.path = path /\ path[2] = ""
    BY DEF Invalid
  <2>2. \A d \in Dirs : d[2] \in Range(SubDirs)
    BY DEF Dirs
  <2>3. "" \notin Range(SubDirs)
    BY SkillIndexAssumption
  <2> HIDE DEF failed, path
  <2> QED
    BY <2>1, <2>2, <2>3
<1>3. /\ diagnostics' \in Seq(Range(diagnostics'))
      /\ \A i \in DOMAIN diagnostics : diagnostics'[i] = diagnostics[i]
      /\ \A d \in Dirs : Diagnosed(d)' = Diagnosed(d)
  <2> HIDE DEF failed
  <2>1. diagnostics \in Seq(Range(diagnostics))
    BY DEF ScanInv, OneEach
  <2> QED
    BY <1>1, <1>2, <2>1, OneMore
<1> HIDE DEF failed, path
<1>4. OneEach'
  <2>1. ASSUME NEW d \in Dirs
        PROVE  /\ seen[d].kind = "none" => Diagnosed(d)' = {}
               /\ seen[d].kind = "Invalid" =>
                    \E i \in Diagnosed(d)' : Diagnosed(d)' = {i} /\ diagnostics'[i] = seen[d]
               /\ seen[d].kind = "skill" =>
                    IF d = index[d[2]] THEN Diagnosed(d)' = {}
                    ELSE \E i \in Diagnosed(d)' : /\ Diagnosed(d)' = {i}
                                                  /\ diagnostics'[i].kind = "Duplicate"
                                                  /\ diagnostics'[i].kept = index[d[2]]
    <3>1. Diagnosed(d)' = Diagnosed(d) /\ \A i \in Diagnosed(d) : diagnostics'[i] = diagnostics[i]
      BY <1>3 DEF Diagnosed
    <3> QED
      BY <3>1 DEF ScanInv, OneEach
  <2> QED
    BY <1>1, <1>3, <2>1 DEF OneEach
<1>5. QueueAhead'
  <2>1. \A d \in Dirs : Rank(d) > scanned + 1 => Rank(d) > scanned
    <3>1. \A d \in Dirs : Rank(d) \in Nat
      BY RankFacts
    <3> QED
      BY <1>1, <3>1
  <2>2. \A d \in Dirs : Rank(d) > scanned' => seen'[d] = NoSkill
    BY <1>1, <2>1 DEF ScanInv, QueueAhead
  <2>3. queue' = <<>> /\ DOMAIN queue' = {}
    BY <1>1
  <2> QED
    BY <2>2, <2>3 DEF QueueAhead, Rank
<1>6. SeenOK'
  BY <1>1 DEF ScanInv, SeenOK
<1>7. FirstKept'
  <2>1. \A name : ValidFor(name)' = ValidFor(name)
    BY <1>1 DEF ValidFor
  <2> QED
    BY <1>1, <2>1 DEF ScanInv, FirstKept, Rank
<1> QED
  BY <1>4, <1>5, <1>6, <1>7 DEF ScanInv

(* The directory loaded next leaves the queue, and its outcome is noted.    *)
LEMMA NextLoaded ==
  ASSUME DistinctRoots, DiskOK, ScanTypes, ScanInv, LoadNext
  PROVE  LET dir    == Head(queue)
             loaded == LoadSkill(dir)
         IN  /\ dir \in Dirs /\ Rank(dir) = scanned /\ seen[dir] = NoSkill /\ Diagnosed(dir) = {}
             /\ loaded.kind \in {"none", "Invalid", "skill"}
             /\ loaded.kind = "skill" => loaded.name = dir[2]
             /\ loaded.kind = "Invalid" => loaded.path = dir
             /\ loaded.kind = "none" => loaded = NoSkill
             /\ seen' = [seen EXCEPT ![dir] = loaded]
             /\ index' = Kept(loaded, dir) /\ diagnostics' = Reported(loaded, dir)
             /\ QueueAhead'
<1> DEFINE dir    == Head(queue)
           loaded == LoadSkill(dir)
<1>1. /\ queue # <<>> /\ queue' = Tail(queue) /\ UNCHANGED <<scanned, disk, edits>>
      /\ seen' = [seen EXCEPT ![dir] = loaded]
      /\ index' = Kept(loaded, dir) /\ diagnostics' = Reported(loaded, dir)
  BY DEF LoadNext, diskVars
<1>2. queue \in Seq(Dirs) /\ Len(queue) \in Nat \ {0} /\ DOMAIN queue = 1..Len(queue) /\ dir = queue[1]
  <2>1. queue \in Seq(Dirs)
    BY DEF ScanTypes
  <2> QED
    BY <1>1, <2>1
<1>3. /\ dir \in Dirs /\ 1 \in DOMAIN queue
      /\ DOMAIN queue' = 1..(Len(queue) - 1)
      /\ \A i \in 1..(Len(queue) - 1) : queue'[i] = queue[i + 1] /\ i + 1 \in DOMAIN queue /\ i + 1 # 1
  BY <1>1, <1>2
<1>4. /\ scanned \in DOMAIN Roots /\ dir[1] = Roots[scanned] /\ seen[dir] = NoSkill
      /\ \A i \in DOMAIN queue : queue[i][1] = Roots[scanned] /\ seen[queue[i]] = NoSkill
      /\ \A i, j \in DOMAIN queue : queue[i] = queue[j] => i = j
  BY <1>1, <1>2, <1>3 DEF ScanInv, QueueAhead
<1>5. Rank(dir) = scanned /\ scanned \in Nat
  BY <1>3, <1>4, RankFacts
<1>6. Diagnosed(dir) = {}
  BY <1>3, <1>4 DEF ScanInv, OneEach, NoSkill
<1>7. /\ loaded.kind \in {"none", "Invalid", "skill"}
      /\ loaded.kind = "skill" => loaded.name = dir[2]
      /\ loaded.kind = "Invalid" => loaded.path = dir
  BY <1>3, LoadSkillFacts
<1>8. loaded.kind = "none" => loaded = NoSkill
  BY <1>3 DEF LoadSkill, Invalid, DiskOK
<1> HIDE DEF dir, loaded
<1>9. QueueAhead'
  <2>1. DOMAIN seen = Dirs
    BY DEF ScanInv, SeenOK
  <2>2. \A d \in Dirs : d # dir => seen'[d] = seen[d]
    BY <1>1, <2>1
  <2>3. ASSUME NEW i \in DOMAIN queue'
        PROVE  queue'[i][1] = Roots[scanned] /\ seen'[queue'[i]] = NoSkill
    <3>1. queue'[i] = queue[i + 1] /\ i + 1 \in DOMAIN queue /\ queue[i + 1] # dir
      BY <1>2, <1>3, <1>4
    <3>2. queue[i + 1] \in Dirs
      BY <1>2, <3>1
    <3> QED
      BY <1>4, <2>2, <3>1, <3>2
  <2>4. ASSUME NEW i \in DOMAIN queue', NEW j \in DOMAIN queue', queue'[i] = queue'[j]
        PROVE  i = j
    <3>1. i + 1 = j + 1
      BY <1>3, <1>4, <2>4
    <3> QED
      BY <1>2, <1>3, <3>1
  <2>5. ASSUME NEW d \in Dirs, Rank(d) > scanned PROVE seen'[d] = NoSkill
    <3>1. d # dir
      BY <1>5, <2>5
    <3> QED
      BY <2>2, <2>5, <3>1 DEF ScanInv, QueueAhead
  <2> QED
    BY <1>1, <1>4, <2>3, <2>4, <2>5 DEF QueueAhead, Rank
<1> QED
  BY <1>1, <1>3, <1>4, <1>5, <1>6, <1>7, <1>8, <1>9 DEF dir, loaded

(* Nothing but a diagnostic of the directory that was loaded is added.      *)
LEMMA OthersKeptApart ==
  ASSUME OneEach, SeenOK, NEW dir \in Dirs, NEW loaded, seen' = [seen EXCEPT ![dir] = loaded],
         \A name \in DOMAIN index : index'[name] = index[name],
         diagnostics' \in Seq(Range(diagnostics')),
         \A d \in Dirs \ {dir} :
           Diagnosed(d)' = Diagnosed(d) /\ \A i \in Diagnosed(d) : diagnostics'[i] = diagnostics[i],
         loaded.kind = "none" => Diagnosed(dir)' = {},
         loaded.kind = "Invalid" =>
           \E i \in Diagnosed(dir)' : Diagnosed(dir)' = {i} /\ diagnostics'[i] = loaded,
         loaded.kind = "skill" =>
           IF dir = index'[dir[2]] THEN Diagnosed(dir)' = {}
           ELSE \E i \in Diagnosed(dir)' : /\ Diagnosed(dir)' = {i}
                                           /\ diagnostics'[i].kind = "Duplicate"
                                           /\ diagnostics'[i].kept = index'[dir[2]]
  PROVE  OneEach'
<1>1. seen'[dir] = loaded /\ \A d \in Dirs \ {dir} : seen'[d] = seen[d]
  BY DEF SeenOK
<1>2. ASSUME NEW d \in Dirs
      PROVE  /\ seen'[d].kind = "none" => Diagnosed(d)' = {}
             /\ seen'[d].kind = "Invalid" =>
                  \E i \in Diagnosed(d)' : Diagnosed(d)' = {i} /\ diagnostics'[i] = seen'[d]
             /\ seen'[d].kind = "skill" =>
                  IF d = index'[d[2]] THEN Diagnosed(d)' = {}
                  ELSE \E i \in Diagnosed(d)' : /\ Diagnosed(d)' = {i}
                                                /\ diagnostics'[i].kind = "Duplicate"
                                                /\ diagnostics'[i].kept = index'[d[2]]
  <2>1. CASE d = dir
    BY <1>1, <2>1
  <2>2. CASE d # dir
    <3>1. /\ seen'[d] = seen[d] /\ Diagnosed(d)' = Diagnosed(d)
          /\ \A i \in Diagnosed(d) : diagnostics'[i] = diagnostics[i]
          /\ seen[d].kind = "skill" => index'[d[2]] = index[d[2]]
      BY <1>1, <2>2 DEF SeenOK
    <3> QED
      BY <3>1 DEF OneEach
  <2> QED
    BY <2>1, <2>2
<1> QED
  BY <1>2 DEF OneEach

LEMMA LoadNextAccounts ==
  ASSUME DistinctRoots, DiskOK, ScanTypes, ScanInv, LoadNext
  PROVE  ScanInv'
<1>1. PICK dir, loaded :
      /\ dir \in Dirs /\ Rank(dir) = scanned /\ seen[dir] = NoSkill /\ Diagnosed(dir) = {}
      /\ loaded.kind \in {"none", "Invalid", "skill"}
      /\ loaded.kind = "skill" => loaded.name = dir[2]
      /\ loaded.kind = "Invalid" => loaded.path = dir
      /\ loaded.kind = "none" => loaded = NoSkill
      /\ seen' = [seen EXCEPT ![dir] = loaded]
      /\ index' = Kept(loaded, dir) /\ diagnostics' = Reported(loaded, dir)
      /\ QueueAhead'
  BY NextLoaded
<1> DEFINE name == dir[2]
<1>2. /\ DOMAIN seen' = Dirs /\ seen'[dir] = loaded
      /\ \A d \in Dirs : d # dir => seen'[d] = seen[d]
      /\ seen' = [d \in Dirs |-> seen'[d]]
  BY <1>1 DEF ScanInv, SeenOK
<1>3. SeenOK /\ OneEach /\ FirstKept /\ diagnostics \in Seq(Range(diagnostics))
  BY DEF ScanInv, OneEach
<1>4. \A d \in Dirs : Diagnosed(d) \subseteq DOMAIN diagnostics
  BY DEF Diagnosed
(* A valid skill is one of before, or the one that was loaded. *)
<1>5. \A n : ValidFor(n)' = IF loaded.kind = "skill" /\ n = name THEN ValidFor(n) \cup {dir}
                            ELSE ValidFor(n)
  <2>1. \A n : dir \notin ValidFor(n)
    BY <1>1 DEF ValidFor, NoSkill
  <2>2. ASSUME NEW n, NEW d \in Dirs
        PROVE  d \in ValidFor(n)' <=> \/ d # dir /\ d \in ValidFor(n)
                                      \/ d = dir /\ loaded.kind = "skill" /\ n = name
    BY <1>1, <1>2 DEF ValidFor
  <2>3. \A n : ValidFor(n) \subseteq Dirs /\ ValidFor(n)' \subseteq Dirs
    BY DEF ValidFor
  <2> QED
    BY <1>1, <2>1, <2>2, <2>3
<1>6. CASE loaded.kind = "none"
  <2>1. UNCHANGED <<index, diagnostics, seen>>
    <3>1. index' = index /\ diagnostics' = diagnostics
      BY <1>1, <1>6, KeptFacts DEF Reported
    <3>2. seen' = [d \in Dirs |-> seen'[d]] /\ \A d \in Dirs : seen'[d] = seen[d]
      BY <1>1, <1>2, <1>3, <1>6 DEF SeenOK
    <3> QED
      BY <1>3, <3>1, <3>2 DEF SeenOK
  <2>2. SeenOK' /\ OneEach'
    BY <1>3, <2>1 DEF SeenOK, OneEach, Diagnosed
  <2>3. FirstKept'
    BY <1>3, <1>5, <1>6, <2>1 DEF FirstKept, Rank
  <2> QED
    BY <1>1, <2>2, <2>3 DEF ScanInv
<1>7. CASE loaded.kind = "Invalid"
  <2>1. index' = index /\ diagnostics' = Append(diagnostics, loaded)
    BY <1>1, <1>7, KeptFacts DEF Reported
  <2>2. SeenOK'
    BY <1>2, <1>3, <1>7, <2>1 DEF SeenOK
  <2>3. FirstKept'
    BY <1>3, <1>5, <1>7, <2>1 DEF FirstKept, Rank
  <2>4. /\ diagnostics' \in Seq(Range(diagnostics'))
        /\ \A i \in DOMAIN diagnostics : diagnostics'[i] = diagnostics[i]
        /\ \A d \in Dirs \ {dir} : Diagnosed(d)' = Diagnosed(d)
        /\ \E i \in Diagnosed(dir)' : Diagnosed(dir)' = {i} /\ diagnostics'[i] = loaded
    <3>1. loaded.path = dir /\ \A d \in Dirs \ {dir} : loaded.path # d
      BY <1>1, <1>7
    <3>2. /\ diagnostics' \in Seq(Range(diagnostics'))
          /\ \A i \in DOMAIN diagnostics : diagnostics'[i] = diagnostics[i]
          /\ \A d : loaded.path # d => Diagnosed(d)' = Diagnosed(d)
          /\ \A d : loaded.path = d /\ Diagnosed(d) = {} =>
               \E i \in Diagnosed(d)' : Diagnosed(d)' = {i} /\ diagnostics'[i] = loaded
      BY <1>3, <2>1, OneMore
    <3> QED
      BY <1>1, <3>1, <3>2
  <2>5. OneEach'
    BY <1>1, <1>3, <1>4, <1>7, <2>1, <2>4, OthersKeptApart
  <2> QED
    BY <1>1, <2>2, <2>3, <2>5 DEF ScanInv
<1>8. CASE loaded.kind = "skill" /\ name \notin DOMAIN index
  <2>1. /\ DOMAIN index' = DOMAIN index \cup {name} /\ index'[name] = dir
        /\ \A n \in DOMAIN index : index'[n] = index[n] /\ n # name
        /\ diagnostics' = diagnostics
    BY <1>1, <1>8, KeptFacts DEF Reported
  <2>2. SeenOK'
    BY <1>1, <1>2, <1>3, <1>8, <2>1 DEF SeenOK
  <2>3. ValidFor(name) = {}
    BY <1>3, <1>8 DEF SeenOK, ValidFor
  <2>4. FirstKept'
    <3>1. ASSUME NEW n \in DOMAIN index'
          PROVE  /\ index'[n] \in ValidFor(n)'
                 /\ \A d \in ValidFor(n)' : d = index'[n] \/ Rank(index'[n]) < Rank(d)
      <4>1. CASE n = name
        BY <1>5, <1>8, <2>1, <2>3, <4>1
      <4>2. CASE n # name
        BY <1>3, <1>5, <2>1, <3>1, <4>2 DEF FirstKept
      <4> QED
        BY <4>1, <4>2
    <3> QED
      BY <3>1 DEF FirstKept, Rank
  <2>5. OneEach'
    <3>1. diagnostics' \in Seq(Range(diagnostics'))
      BY <1>3, <2>1
    <3>2. \A d : Diagnosed(d)' = Diagnosed(d)
      BY <2>1 DEF Diagnosed
    <3> QED
      BY <1>1, <1>3, <1>8, <2>1, <3>1, <3>2, OthersKeptApart
  <2> QED
    BY <1>1, <2>2, <2>4, <2>5 DEF ScanInv
<1>9. CASE loaded.kind = "skill" /\ name \in DOMAIN index
  <2> DEFINE duplicate == [kind |-> "Duplicate", path |-> dir, kept |-> index[name]]
  <2>1. index' = index /\ diagnostics' = Append(diagnostics, duplicate)
    BY <1>1, <1>9, KeptFacts DEF Reported
  <2>2. SeenOK'
    BY <1>1, <1>2, <1>3, <1>9, <2>1 DEF SeenOK
  <2>3. /\ index[name] \in ValidFor(name) /\ index[name] \in Dirs /\ index[name] # dir
        /\ index[name][2] = name /\ Rank(index[name]) < Rank(dir)
    <3>1. index[name] \in ValidFor(name) /\ index[name] \in Dirs /\ index[name][2] = name
      BY <1>3, <1>9 DEF FirstKept, ValidFor, ScanTypes
    <3>2. index[name] # dir /\ seen[index[name]] # NoSkill
      BY <1>1, <3>1 DEF ValidFor, NoSkill
    <3>3. Rank(index[name]) # Rank(dir)
      BY <1>1, <3>1, <3>2, RankFacts
    <3>4. ~(Rank(index[name]) > scanned)
      BY <3>1, <3>2 DEF ScanInv, QueueAhead
    <3>5. Rank(index[name]) \in Nat /\ Rank(dir) \in Nat
      BY <1>1, <3>1, RankFacts
    <3> QED
      BY <1>1, <3>1, <3>2, <3>3, <3>4, <3>5
  <2>4. FirstKept'
    <3>1. ASSUME NEW n \in DOMAIN index
          PROVE  /\ index[n] \in ValidFor(n)'
                 /\ \A d \in ValidFor(n)' : d = index[n] \/ Rank(index[n]) < Rank(d)
      <4>1. CASE n = name
        BY <1>3, <1>5, <1>9, <2>3, <4>1 DEF FirstKept
      <4>2. CASE n # name
        BY <1>3, <1>5, <4>2 DEF FirstKept
      <4> QED
        BY <4>1, <4>2
    <3> QED
      BY <2>1, <3>1 DEF FirstKept, Rank
  <2>5. duplicate.path = dir /\ duplicate.kind = "Duplicate" /\ duplicate.kept = index[name]
    OBVIOUS
  <2> HIDE DEF duplicate
  <2>6. /\ diagnostics' \in Seq(Range(diagnostics'))
        /\ \A i \in DOMAIN diagnostics : diagnostics'[i] = diagnostics[i]
        /\ \A d \in Dirs \ {dir} : Diagnosed(d)' = Diagnosed(d)
        /\ \E i \in Diagnosed(dir)' : Diagnosed(dir)' = {i} /\ diagnostics'[i] = duplicate
    <3>1. duplicate.path = dir /\ \A d \in Dirs \ {dir} : duplicate.path # d
      BY <2>5
    <3>2. /\ diagnostics' \in Seq(Range(diagnostics'))
          /\ \A i \in DOMAIN diagnostics : diagnostics'[i] = diagnostics[i]
          /\ \A d : duplicate.path # d => Diagnosed(d)' = Diagnosed(d)
          /\ \A d : duplicate.path = d /\ Diagnosed(d) = {} =>
               \E i \in Diagnosed(d)' : Diagnosed(d)' = {i} /\ diagnostics'[i] = duplicate
      BY <1>3, <2>1, OneMore
    <3> QED
      BY <1>1, <3>1, <3>2
  <2>7. \E i \in Diagnosed(dir)' : /\ Diagnosed(dir)' = {i}
                                   /\ diagnostics'[i].kind = "Duplicate"
                                   /\ diagnostics'[i].kept = index[name]
    BY <2>5, <2>6
  <2>8. OneEach'
    <3>1. /\ dir # index'[dir[2]]
          /\ \E i \in Diagnosed(dir)' : /\ Diagnosed(dir)' = {i}
                                         /\ diagnostics'[i].kind = "Duplicate"
                                         /\ diagnostics'[i].kept = index'[dir[2]]
      BY <2>1, <2>3, <2>7
    <3>2. \A d \in Dirs \ {dir} :
            Diagnosed(d)' = Diagnosed(d) /\ \A i \in Diagnosed(d) : diagnostics'[i] = diagnostics[i]
      BY <1>4, <2>6
    <3>3. \A n \in DOMAIN index : index'[n] = index[n]
      BY <2>1
    <3> QED
      BY <1>1, <1>3, <1>9, <2>6, <3>1, <3>2, <3>3, OthersKeptApart
  <2> QED
    BY <1>1, <2>2, <2>4, <2>8 DEF ScanInv
<1> QED
  BY <1>1, <1>6, <1>7, <1>8, <1>9

LEMMA ScanInvStep ==
  DistinctRoots /\ TypeOK /\ ActivationInv /\ ScanInv /\ [Next]_vars => ScanInv'
<1> SUFFICES ASSUME DistinctRoots, TypeOK, ActivationInv, ScanInv, [Next]_vars PROVE ScanInv'
  OBVIOUS
<1>1. DiskOK /\ ScanTypes
  BY TypesAgree DEF ActivationInv
<1>2. CASE ScanStep
  BY <1>1, <1>2, ListRootAccounts, ListFailsAccounts, LoadNextAccounts DEF ScanStep
<1>3. CASE UNCHANGED scanVars
  <2>1. UNCHANGED <<scanned, queue, index, diagnostics, seen>>
    BY <1>3 DEF scanVars
  <2>2. QueueAhead'
    BY <2>1 DEF ScanInv, QueueAhead, Rank
  <2>3. SeenOK'
    BY <2>1 DEF ScanInv, SeenOK
  <2>4. FirstKept'
    <3>1. \A name : ValidFor(name)' = ValidFor(name)
      BY <2>1 DEF ValidFor
    <3> QED
      BY <2>1, <3>1 DEF ScanInv, FirstKept, Rank
  <2>5. OneEach'
    BY <2>1 DEF ScanInv, OneEach, Diagnosed
  <2> QED
    BY <2>2, <2>3, <2>4, <2>5 DEF ScanInv
<1>4. ScanStep \/ UNCHANGED scanVars
  BY DEF Next, Edit, vars, ReadFile, ReadFails, Install, BeginActivate, Deactivate
<1> QED
  BY <1>2, <1>3, <1>4

(* When no root is given twice, every subdirectory that was loaded is in    *)
(* the index or reported, once, whatever is edited while the scan runs.     *)
THEOREM ScanAccountsCorrect == DistinctRoots => (Spec => []ScanAccounts)
<1> SUFFICES ASSUME DistinctRoots PROVE Spec => []ScanAccounts
  OBVIOUS
<1>1. Init => ScanInv
  BY ScanInvInit
<1>2. TypeOK /\ ActivationInv /\ ScanInv /\ [Next]_vars => ScanInv'
  BY ScanInvStep
<1>3. ScanInv => ScanAccounts
  BY ScanInvAccounts
<1> QED
  BY ActivationHolds, <1>1, <1>2, <1>3, PTL DEF Spec
=============================================================================
