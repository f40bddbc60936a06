----------------------------- MODULE SkillIndex -----------------------------
(***************************************************************************)
(* The scan for skills (grizzly-agent-skills, index.rs) and the validation *)
(* of a SKILL.md (format.rs).                                              *)
(*                                                                         *)
(* Actors: the scan, which awaits each directory listing and each file;    *)
(* and whoever edits the files meanwhile and afterwards.  A file is kept   *)
(* by what the rules of parse_skill tell apart; its body by the directory  *)
(* and the number of the edit that wrote it.                               *)
(***************************************************************************)
EXTENDS Naturals, SequencesExt

CONSTANTS
  Roots,       (* the directories to scan, in order of precedence          *)
  SubDirs,     (* names of their subdirectories, in path order             *)
  Disks,       (* what the files may hold before the scan                  *)
  Headers,     (* frontmatter an edit may write                            *)
  MaxEdits     (* bound: edits of the skills' files                        *)

Dirs     == Range(Roots) \X Range(SubDirs)
Versions == 0..MaxEdits

(* A directory has no two entries of one name, and none without a name.     *)
ASSUME SkillIndexAssumption ==
  /\ MaxEdits \in Nat
  /\ Roots \in Seq(Range(Roots)) /\ SubDirs \in Seq(Range(SubDirs))
  /\ IsInjective(SubDirs) /\ "" \notin Range(SubDirs)
  /\ \A d \in Disks :
       /\ DOMAIN d = Dirs
       /\ \A dir \in Dirs : \/ d[dir].kind \in {"missing", "unreadable"}
                            \/ d[dir].kind = "skill" /\ d[dir].body = <<dir, 0>>

VARIABLES
  disk,         (* per directory: its SKILL.md                             *)
  edits,        (* edits made so far; an edit writes its own number        *)
  scanned,      (* how many roots have been listed, or failed to be        *)
  queue,        (* subdirectories of the last one still to be loaded       *)
  index,        (* SkillIndex::skills: name to directory                   *)
  diagnostics,  (* what the scan reported                                  *)
  seen          (* history, per directory: what loading it came to         *)

diskVars == <<disk, edits>>
scanVars == <<scanned, queue, index, diagnostics, seen>>

ScanDone == scanned = Len(Roots) /\ queue = <<>>

-----------------------------------------------------------------------------
(***************************************************************************)
(* parse_skill, the first rule that a file breaks.  A header gives for     *)
(* each field "ok" or the way its value is wrong; the name is given itself *)
(* if it is well formed.                                                   *)
(***************************************************************************)
NameFaults == {"other type", "too short", "too long", "characters", "edge hyphen", "double hyphen"}

Rules(header, directory) ==
  <<[field |-> "frontmatter",   error |-> "Frontmatter",  broken |-> header.frontmatter \in {"unframed", "not yaml"}],
    [field |-> "frontmatter",   error |-> "InvalidField", broken |-> header.frontmatter = "not a mapping"],
    [field |-> "name",          error |-> "MissingField", broken |-> header.name = "absent"],
    [field |-> "name",          error |-> "InvalidField", broken |-> header.name \in NameFaults],
    [field |-> "name",          error |-> "InvalidField", broken |-> header.name # directory],
    [field |-> "description",   error |-> "MissingField", broken |-> header.description = "absent"],
    [field |-> "description",   error |-> "InvalidField",
       broken |-> header.description \in {"other type", "too short", "too long"}],
    [field |-> "license",       error |-> "InvalidField", broken |-> header.license = "other type"],
    [field |-> "compatibility", error |-> "InvalidField",
       broken |-> header.compatibility \in {"other type", "too short", "too long"}],
    [field |-> "metadata",      error |-> "InvalidField", broken |-> header.metadata \in {"other type", "other values"}],
    [field |-> "allowed-tools", error |-> "InvalidField", broken |-> header.tools \in {"other type", "other items"}]>>

Broken(header, directory) ==
  {i \in DOMAIN Rules(header, directory) : Rules(header, directory)[i].broken}

FirstBroken(header, directory) == Rules(header, directory)[Min(Broken(header, directory))]

(* load_skill: not a skill, the diagnostic of one, or its name. *)
Invalid(path, reason) == [kind |-> "Invalid", path |-> path, reason |-> reason]
NoSkill == [kind |-> "none"]

LoadSkill(dir) ==
  LET file == disk[dir]
  IN  CASE file.kind = "missing"    -> NoSkill
        [] file.kind = "unreadable" -> Invalid(dir, <<"Io">>)
        [] file.kind = "skill"      ->
             IF Broken(file.header, dir[2]) = {} THEN [kind |-> "skill", name |-> file.header.name]
             ELSE LET first == FirstBroken(file.header, dir[2])
                  IN  Invalid(dir, <<first.error, first.field>>)

-----------------------------------------------------------------------------
ScanInit ==
  /\ disk \in Disks
  /\ edits = 0 /\ scanned = 0 /\ queue = <<>>
  /\ index = <<>> /\ diagnostics = <<>>
  /\ seen = [d \in Dirs |-> NoSkill]

ListRoot ==
  /\ queue = <<>> /\ scanned < Len(Roots)
  /\ scanned' = scanned + 1
  /\ queue' = [i \in DOMAIN SubDirs |-> <<Roots[scanned + 1], SubDirs[i]>>]
  /\ UNCHANGED <<diskVars, index, diagnostics, seen>>

(* The root cannot be opened, or its listing fails half way. *)
ListFails ==
  /\ queue = <<>> /\ scanned < Len(Roots)
  /\ scanned' = scanned + 1
  /\ diagnostics' = Append(diagnostics, Invalid(<<Roots[scanned + 1], "">>, <<"Io">>))
  /\ UNCHANGED <<diskVars, queue, index, seen>>

(* Bug: a later root overrides an earlier one. *)
KeptMutant(loaded, dir) ==
  IF loaded.kind = "skill" THEN (loaded.name :> dir) @@ index ELSE index

(* insert_or_report_duplicate *)
Kept(loaded, dir) ==
  IF loaded.kind = "skill" /\ loaded.name \notin DOMAIN index
  THEN [name \in DOMAIN index \cup {loaded.name} |-> IF name = loaded.name THEN dir ELSE index[name]]
  ELSE index

Reported(loaded, dir) ==
  CASE loaded.kind = "none"    -> diagnostics
    [] loaded.kind = "Invalid" -> Append(diagnostics, loaded)
    [] loaded.kind = "skill"   ->
         IF loaded.name \notin DOMAIN index THEN diagnostics
         ELSE Append(diagnostics, [kind |-> "Duplicate", path |-> dir, kept |-> index[loaded.name]])

LoadNext ==
  /\ queue # <<>>
  /\ queue' = Tail(queue)
  /\ LET dir    == Head(queue)
         loaded == LoadSkill(dir)
     IN  /\ index' = Kept(loaded, dir)
         /\ diagnostics' = Reported(loaded, dir)
         /\ seen' = [seen EXCEPT ![dir] = loaded]
  /\ UNCHANGED <<diskVars, scanned>>

ScanStep == ListRoot \/ ListFails \/ LoadNext

(* Someone writes, locks or removes a SKILL.md. *)
Edit(dir) ==
  /\ edits < MaxEdits
  /\ edits' = edits + 1
  /\ \/ \E h \in Headers : disk' = [disk EXCEPT ![dir] = [kind |-> "skill", header |-> h, body |-> <<dir, edits + 1>>]]
     \/ \E kind \in {"missing", "unreadable"} : disk' = [disk EXCEPT ![dir] = [kind |-> kind]]
  /\ UNCHANGED scanVars

-----------------------------------------------------------------------------
(***************************************************************************)
(* The scan accounts for every subdirectory it loaded, whatever is edited  *)
(* meanwhile: a valid skill is in the index, or reported as a duplicate of *)
(* the valid skill of that name in the earliest root that had one; an      *)
(* invalid one is reported and never indexed; the index has nothing else.  *)
(***************************************************************************)
Rank(dir) == CHOOSE i \in DOMAIN Roots : Roots[i] = dir[1]

ValidFor(name) == {d \in Dirs : seen[d].kind = "skill" /\ seen[d].name = name}

Earliest(name) == CHOOSE d \in ValidFor(name) : \A e \in ValidFor(name) : Rank(d) <= Rank(e)

Diagnosed(dir) == {i \in DOMAIN diagnostics : diagnostics[i].path = dir}

ScanAccounts ==
  /\ \A name \in DOMAIN index : ValidFor(name) # {} /\ index[name] = Earliest(name)
  /\ \A d \in Dirs :
       CASE seen[d].kind = "none"    -> Diagnosed(d) = {}
         [] seen[d].kind = "Invalid" ->
              \E i \in Diagnosed(d) : Diagnosed(d) = {i} /\ diagnostics[i] = seen[d]
         [] seen[d].kind = "skill"   ->
              IF d = Earliest(seen[d].name)
              THEN Diagnosed(d) = {} /\ index[seen[d].name] = d
              ELSE \E i \in Diagnosed(d) : /\ Diagnosed(d) = {i}
                                           /\ diagnostics[i].kind = "Duplicate"
                                           /\ diagnostics[i].kept = Earliest(seen[d].name)
=============================================================================
