--------------------------- MODULE SkillActivation ---------------------------
(***************************************************************************)
(* Skill activation (grizzly-agent-skills, activation.rs): one SkillState  *)
(* shared by the activate and deactivate tools and by the prompt section   *)
(* of an agent, which may serve several runs at once.                      *)
(*                                                                         *)
(* Actors: the runs, each of which renders its prompt and dispatches one   *)
(* tool at a time; and whoever edits the skills' files.  Activation reads  *)
(* the file without the lock and takes it only to install the body.        *)
(***************************************************************************)
EXTENDS SkillIndex

CONSTANTS
  Runs,        (* runs that share the state                                *)
  Names,       (* names a model may pass to the tools                      *)
  NoName       (* stands for "no name"                                     *)

ASSUME SkillActivationAssumption ==
  /\ Range(SubDirs) \subseteq Names
  /\ NoName \notin Names

VARIABLES
  active,   (* SkillState::active: name and body, in activation order      *)
  pc,       (* per run: between two tools, reading a file, holding a body  *)
  arg,      (* per run: the name its activation is for                     *)
  body,     (* per run: the body it has read                               *)
  began,    (* history, per run: the edit on disk as its activation began  *)
  since,    (* history, per skill: began of the call that installed it     *)
  claim     (* history, per run and skill: "mine" once the run activated   *)
            (* it, "undone" if another run has deactivated it since,       *)
            (* "none" if the run deactivated it itself, or never had it    *)

historyVars == <<began, since, claim>>
stateVars   == <<active, pc, arg, body, historyVars>>

vars == <<diskVars, scanVars, stateVars>>

Bodies == Dirs \X Versions
Entry  == [name : Range(SubDirs), body : Bodies]

(* The file that activate reads, framed if it can be split. *)
FileOf(name) == disk[index[name]]
Framed(file) == file.kind = "skill" /\ file.header.frontmatter # "unframed"

(* SkillState::is_active; the position of an active skill in the list. *)
IsActive(name) == \E i \in DOMAIN active : active[i].name = name
Position(name) == CHOOSE i \in DOMAIN active : active[i].name = name

-----------------------------------------------------------------------------
Init ==
  /\ ScanInit
  /\ active = <<>>
  /\ pc = [r \in Runs |-> "idle"]
  /\ arg = [r \in Runs |-> NoName]
  /\ body = [r \in Runs |-> <<>>]
  /\ began = [r \in Runs |-> 0]
  /\ since = [s \in Range(SubDirs) |-> 0]
  /\ claim = [r \in Runs |-> [s \in Range(SubDirs) |-> "none"]]

(* SkillState::render: what the prompt of a request built now shows. *)
Shown == {active[i].name : i \in DOMAIN active}

(***************************************************************************)
(* SkillState::activate.  For a name that is not in the index it fails at  *)
(* once and changes nothing.                                               *)
(***************************************************************************)

(* Bug: the name is not looked up in the index. *)
BeginActivateMutant(r, name) ==
  /\ ScanDone /\ pc[r] = "idle"
  /\ pc' = [pc EXCEPT ![r] = "reading"]
  /\ arg' = [arg EXCEPT ![r] = name]
  /\ UNCHANGED <<diskVars, scanVars, active, body, historyVars>>

BeginActivate(r, name) ==
  /\ ScanDone /\ pc[r] = "idle"
  /\ name \in DOMAIN index
  /\ pc' = [pc EXCEPT ![r] = "reading"]
  /\ arg' = [arg EXCEPT ![r] = name]
  /\ began' = [began EXCEPT ![r] = IF Framed(FileOf(name)) THEN FileOf(name).body[2] ELSE 0]
  /\ UNCHANGED <<diskVars, scanVars, active, body, since, claim>>

ReadFile(r) ==
  /\ pc[r] = "reading"
  /\ Framed(FileOf(arg[r]))
  /\ body' = [body EXCEPT ![r] = FileOf(arg[r]).body]
  /\ pc' = [pc EXCEPT ![r] = "loaded"]
  /\ UNCHANGED <<diskVars, scanVars, active, arg, historyVars>>

(* The file cannot be read, or has no frontmatter delimiters: the tool      *)
(* fails, and a skill that is active stays so, with the body it has.        *)
ReadFails(r) ==
  /\ pc[r] = "reading"
  /\ ~Framed(FileOf(arg[r]))
  /\ pc' = [pc EXCEPT ![r] = "idle"]
  /\ arg' = [arg EXCEPT ![r] = NoName]
  /\ began' = [began EXCEPT ![r] = 0]
  /\ UNCHANGED <<diskVars, scanVars, active, body, since, claim>>

(* Bug: a body is appended, whether the skill is active or not. *)
InstalledBlindMutant(name, text) == Append(active, [name |-> name, body |-> text])

(* Bug: a skill that is active already keeps the body it has. *)
InstalledOnceMutant(name, text) ==
  IF IsActive(name) THEN active ELSE Append(active, [name |-> name, body |-> text])

(* Bug: a re-activated skill moves to the end. *)
InstalledLastMutant(name, text) ==
  Append(SelectSeq(active, LAMBDA e : e.name # name), [name |-> name, body |-> text])

(* Under the lock: replace the body where it stands, or append. *)
Installed(name, text) ==
  IF IsActive(name) THEN [active EXCEPT ![Position(name)].body = text]
  ELSE Append(active, [name |-> name, body |-> text])

Install(r) ==
  /\ pc[r] = "loaded"
  /\ active' = Installed(arg[r], body[r])
  /\ since' = [since EXCEPT ![arg[r]] = began[r]]
  /\ claim' = [claim EXCEPT ![r][arg[r]] = "mine"]
  /\ pc' = [pc EXCEPT ![r] = "idle"]
  /\ arg' = [arg EXCEPT ![r] = NoName]
  /\ body' = [body EXCEPT ![r] = <<>>]
  /\ began' = [began EXCEPT ![r] = 0]
  /\ UNCHANGED <<diskVars, scanVars>>

(* Bug: the latest activation is undone, whatever the name. *)
WithoutMutant(name) == IF IsActive(name) THEN Front(active) ELSE active

Without(name) == IF IsActive(name) THEN RemoveAt(active, Position(name)) ELSE active

(* SkillState::deactivate: a name that is not active is no failure. *)
Deactivate(r, name) ==
  /\ ScanDone /\ pc[r] = "idle"
  /\ active' = Without(name)
  /\ claim' = [q \in Runs |-> [s \in Range(SubDirs) |->
                 CASE s # name             -> claim[q][s]
                   [] s = name /\ q = r    -> "none"
                   [] OTHER -> IF claim[q][s] = "none" THEN "none" ELSE "undone"]]
  /\ UNCHANGED <<diskVars, scanVars, pc, arg, body, began, since>>

Next ==
  \/ ScanStep /\ UNCHANGED stateVars
  \/ \E dir \in Dirs : Edit(dir) /\ UNCHANGED stateVars
  \/ \E r \in Runs :
       \/ ReadFile(r) \/ ReadFails(r) \/ Install(r)
       \/ \E name \in Names :
            BeginActivate(r, name) \/ Deactivate(r, name)

Spec == Init /\ [][Next]_vars

-----------------------------------------------------------------------------
(***************************************************************************)
(* Properties.                                                             *)
(***************************************************************************)
(* Types; and a run that is between looking a skill up and installing it    *)
(* does so for a name of the index.                                         *)
TypeOK ==
  /\ DOMAIN disk = Dirs /\ edits \in Versions
  /\ scanned \in 0..Len(Roots) /\ Range(queue) \subseteq Dirs
  /\ DOMAIN index \subseteq Range(SubDirs) /\ Range(index) \subseteq Dirs
  /\ active \in Seq(Entry)
  /\ pc \in [Runs -> {"idle", "reading", "loaded"}]
  /\ arg \in [Runs -> DOMAIN index \cup {NoName}]
  /\ \A r \in Runs : arg[r] = NoName <=> pc[r] = "idle"
  /\ body \in [Runs -> Bodies \cup {<<>>}] /\ began \in [Runs -> Versions]
  /\ since \in [Range(SubDirs) -> Versions]
  /\ claim \in [Runs -> [Range(SubDirs) -> {"none", "mine", "undone"}]]

(* A skill is active at most once, however activations and deactivations    *)
(* of it overlap: the file is read without the lock.                        *)
ActiveOnce == \A i, j \in DOMAIN active : active[i].name = active[j].name => i = j

(* The body of an active skill is the one the latest activation read: from  *)
(* the root that took precedence in the scan, and not older than what was   *)
(* on disk there when that activation began.                                *)
BodyReloaded ==
  \A i \in DOMAIN active :
    /\ active[i].body[1] = index[active[i].name]
    /\ active[i].body[2] >= since[active[i].name]

(* Skills stay in activation order: no step swaps two that are active       *)
(* before and after it.                                                     *)
OrderStep ==
  \A s, t \in Range(SubDirs) :
    /\ IsActive(s) /\ IsActive(t)
    /\ IsActive(s)' /\ IsActive(t)'
    => (Position(s) < Position(t) <=> Position(s)' < Position(t)')

OrderKept == [][OrderStep]_vars

(* A skill that a run activated is in its prompt until someone deactivates  *)
(* it, whatever becomes of its file and whatever else is activated.         *)
LoadedUntilUndone ==
  \A r \in Runs : \A s \in Range(SubDirs) : claim[r][s] = "mine" => s \in Shown

(* What the activate tool tells the model: the skill's instructions are in  *)
(* the system prompt for the rest of this run (until it deactivates it).    *)
LoadedForRestOfRun ==
  \A r \in Runs : \A s \in Range(SubDirs) : claim[r][s] # "none" => s \in Shown
=============================================================================
