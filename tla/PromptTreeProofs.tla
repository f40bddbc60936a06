-------------------------- MODULE PromptTreeProofs --------------------------
(***************************************************************************)
(* Proofs about PromptTree, for every tree of prompt files and every       *)
(* source tree: what the verification reports, and that the names and      *)
(* types of the generated module resolve.                                  *)
(***************************************************************************)
EXTENDS PromptTree, SelectionProofs

-----------------------------------------------------------------------------
(***************************************************************************)
(* Lists, and faults that were not found.                                  *)
(***************************************************************************)
LEMMA CountsAreNat ==
  ASSUME NEW n \in Nat
  PROVE  1..n \subseteq Nat /\ 0..n \subseteq Nat
OBVIOUS

LEMMA ListFacts ==
  ASSUME NEW x, IsList(x)
  PROVE  Len(x) \in Nat /\ DOMAIN x = 1..Len(x) /\ \A i \in 1..Len(x) : x[i] \in Range(x)
BY DEF IsList, Range

LEMMA ListOf ==
  ASSUME NEW S, NEW x \in Seq(S)
  PROVE  IsList(x)
<1>1. \A i \in 1..Len(x) : x[i] \in Range(x)
  BY DEF Range
<1>2. Len(x) \in Nat /\ DOMAIN x = 1..Len(x) /\ x = [i \in 1..Len(x) |-> x[i]]
  OBVIOUS
<1> QED
  BY <1>1, <1>2 DEF IsList

LEMMA ListConcat ==
  ASSUME NEW x, NEW y, IsList(x), IsList(y)
  PROVE  IsList(x \o y) /\ Range(x \o y) = Range(x) \cup Range(y)
<1> DEFINE S == Range(x) \cup Range(y)
<1>1. x \in Seq(S) /\ y \in Seq(S)
  <2>1. \A i \in 1..Len(x) : x[i] \in S
    BY ListFacts
  <2>2. \A i \in 1..Len(y) : y[i] \in S
    BY ListFacts
  <2>3. x = [i \in 1..Len(x) |-> x[i]] /\ y = [i \in 1..Len(y) |-> y[i]] /\ Len(x) \in Nat /\ Len(y) \in Nat
    BY DEF IsList
  <2> QED
    BY <2>1, <2>2, <2>3
<1>2. x \o y \in Seq(S) /\ Len(x) \in Nat /\ Len(y) \in Nat /\ Len(x \o y) = Len(x) + Len(y)
  BY <1>1
<1>3. IsList(x \o y)
  BY <1>2, ListOf
<1>4. Range(x \o y) \subseteq S
  BY <1>2 DEF Range
<1>5. \A i \in 1..Len(x) : i \in 1..Len(x \o y) /\ (x \o y)[i] = x[i]
  BY <1>1, <1>2
<1>99. \A i \in 1..Len(y) : Len(x) + i \in 1..Len(x \o y) /\ (x \o y)[Len(x) + i] = y[i]
  BY <1>1, <1>2
<1>7. DOMAIN x = 1..Len(x) /\ DOMAIN y = 1..Len(y) /\ DOMAIN (x \o y) = 1..Len(x \o y)
  BY <1>1, <1>2
<1>8. S \subseteq Range(x \o y)
  BY <1>5, <1>99, <1>7 DEF Range
<1> QED
  BY <1>3, <1>4, <1>8

(* A list of checks without a fault is one in which no check found any. *)
LEMMA NoFirstFault ==
  ASSUME NEW faults, NEW n \in Nat, DOMAIN faults = 1..n, FirstFault(faults) = ""
  PROVE  \A i \in 1..n : faults[i] = ""
<1> DEFINE broken == {i \in DOMAIN faults : faults[i] # ""}
<1> SUFFICES ASSUME broken # {} PROVE FALSE
  OBVIOUS
<1>1. \E i \in broken : \A j \in broken : i <= j
  <2>1. 1..n \subseteq Nat
    BY CountsAreNat
  <2>2. broken \subseteq Nat
    BY <2>1
  <2> HIDE DEF broken
  <2> QED
    BY <2>2, LeastNat
<1>2. (CHOOSE i \in broken : \A j \in broken : i <= j) \in broken
  BY <1>1
<1> QED
  BY <1>2 DEF FirstFault

-----------------------------------------------------------------------------
(***************************************************************************)
(* The invariants.                                                         *)
(***************************************************************************)
(* What has been loaded broke no rule, and once all has been, no two files *)
(* are in conflict.                                                        *)
LoadInv ==
  /\ tree \in Trees
  /\ read \in 0..Len(tree.files)
  /\ \A i \in 1..read : ParseFile(tree.files[i]) = "" /\ ValidateFile(tree.files[i]) = ""
  /\ stage \notin {"loading", "rejected"} =>
       CheckParamsRefs = "" /\ CheckDerivedNames = ""
  /\ stage = "generated" => module = FlattenSeq([i \in DOMAIN Files |-> EmitFile(Files[i])])

LEMMA FilesLoaded ==
  ASSUME LoadInv
  PROVE  /\ IsList(tree.files) /\ Len(Files) = read /\ DOMAIN Files = 1..read
         /\ \A i \in 1..read : Files[i] = tree.files[i] /\ i \in DOMAIN tree.files
<1>1. IsList(tree.files) /\ Len(tree.files) \in Nat /\ DOMAIN tree.files = 1..Len(tree.files)
  BY PromptAssumption, ListFacts DEF LoadInv
<1>2. read \in 0..Len(tree.files)
  BY DEF LoadInv
<1>3. tree.files \in Seq(Range(tree.files))
  BY <1>1 DEF IsList
<1> DEFINE s == tree.files
<1>4. Len(SubSeq(s, 1, read)) = read /\ DOMAIN SubSeq(s, 1, read) = 1..read
      /\ \A i \in 1..read : SubSeq(s, 1, read)[i] = s[i]
  <2> HIDE DEF s
  <2>1. s \in Seq(Range(s)) /\ read \in 0..Len(s) /\ Len(s) \in Nat
    BY <1>1, <1>2, <1>3 DEF s
  <2> QED
    BY <2>1
<1> QED
  BY <1>1, <1>2, <1>4 DEF Files

LEMMA LoadInit == Init => LoadInv
<1> SUFFICES ASSUME Init PROVE LoadInv
  OBVIOUS
<1>1. tree \in Trees /\ Len(tree.files) \in Nat
  BY PromptAssumption, ListFacts DEF Init
<1>2. read = 0 /\ stage = "loading"
  BY DEF Init
<1>3. 1..read = {} /\ read \in 0..Len(tree.files)
  BY <1>1, <1>2
<1> QED
  BY <1>1, <1>2, <1>3 DEF LoadInv

LEMMA LoadStep == LoadInv /\ [Next]_vars => LoadInv'
<1> SUFFICES ASSUME LoadInv, [Next]_vars PROVE LoadInv'
  OBVIOUS
<1>1. Len(tree.files) \in Nat /\ read \in 0..Len(tree.files)
  BY PromptAssumption, ListFacts DEF LoadInv
<1>2. ASSUME NEW error, Rejects(error) PROVE LoadInv'
  BY <1>2 DEF LoadInv, Rejects
<1>99. ASSUME UNCHANGED <<tree, read>>
      PROVE  Files' = Files /\ CheckParamsRefs' = CheckParamsRefs /\ CheckDerivedNames' = CheckDerivedNames
  BY <1>99 DEF CheckParamsRefs, CheckDerivedNames, Shared, Tools, OfType, ParamsIds, Files
<1>3. CASE LoadFails
  BY <1>2, <1>3 DEF LoadFails
<1>4. CASE LoadFile
  <2> DEFINE file  == tree.files[read + 1]
             found == ParseFile(file) ?? ValidateFile(file)
                        ?? Rule("DuplicateId", \E i \in DOMAIN Files : Files[i].id = file.id)
  <2>1. CASE found # "" /\ Rejects(found)
    BY <2>1, <1>2
  <2>2. CASE found = "" /\ read' = read + 1 /\ UNCHANGED <<tree, stage, module>>
    <3>1. ParseFile(file) = "" /\ ValidateFile(file) = ""
      BY <2>2 DEF ??
    <3>2. read < Len(tree.files) /\ stage = "loading"
      BY <1>4 DEF LoadFile
    <3> HIDE DEF found
    <3>6. read \in Nat /\ read' = read + 1
      BY <1>1, <2>2, CountsAreNat
    <3>3. read' = read + 1 /\ read \in Nat /\ read' \in 0..Len(tree.files)
      BY <1>1, <3>2, <3>6
    <3>5. \A i \in 1..read' : i \in 1..read \/ i = read + 1
      BY <3>3
    <3>4. \A i \in 1..read' : ParseFile(tree.files[i]) = "" /\ ValidateFile(tree.files[i]) = ""
      BY <3>1, <3>5, <2>2 DEF LoadInv
    <3> QED
      BY <3>2, <3>3, <3>4, <2>2 DEF LoadInv
  <2> QED
    BY <1>4, <2>1, <2>2 DEF LoadFile
<1>5. CASE CheckFiles
  <2> DEFINE found == CheckParamsRefs ?? CheckUnreferencedParams ?? CheckWireNames ?? CheckDerivedNames
  <2>1. CASE found # "" /\ Rejects(found)
    BY <2>1, <1>2
  <2>2. CASE found = "" /\ stage' = "loaded" /\ UNCHANGED <<tree, read, module>>
    <3>1. CheckParamsRefs = "" /\ CheckDerivedNames = ""
      BY <2>2 DEF ??
    <3> HIDE DEF found
    <3>2. CheckParamsRefs' = CheckParamsRefs /\ CheckDerivedNames' = CheckDerivedNames
      BY <2>2, <1>99
    <3> QED
      BY <3>1, <3>2, <2>2 DEF LoadInv
  <2> QED
    BY <1>5, <2>1, <2>2 DEF CheckFiles
<1>7. CASE Generate
  <2>1. UNCHANGED <<tree, read>> /\ stage = "loaded" /\ stage' = "generated"
    BY <1>7 DEF Generate
  <2>2. module' = FlattenSeq([i \in DOMAIN Files |-> EmitFile(Files[i])])
    BY <1>7 DEF Generate
  <2>3. FlattenSeq([i \in DOMAIN Files |-> EmitFile(Files[i])])'
          = FlattenSeq([i \in DOMAIN Files |-> EmitFile(Files[i])])
    BY <2>1 DEF Files, EmitFile, EmitTool, ResolveSchema, OfType
  <2>4. CheckParamsRefs' = "" /\ CheckDerivedNames' = ""
    BY <1>99, <2>1 DEF LoadInv
  <2> QED
    BY <2>1, <2>2, <2>3, <2>4 DEF LoadInv
<1>8. CASE EmitFails
  BY <1>2, <1>8 DEF EmitFails
<1>9. CASE ReadSource
  <2>1. UNCHANGED <<tree, read>> /\ stage = "loaded" /\ stage' = stage
    BY <1>9 DEF ReadSource
  <2> QED
    BY <2>1, <1>99 DEF LoadInv
<1>10. CASE Verify
  <2>1. UNCHANGED <<tree, read>> /\ stage = "loaded" /\ stage' = "verified"
    BY <1>10 DEF Verify
  <2> QED
    BY <2>1, <1>99 DEF LoadInv
<1>11. CASE UNCHANGED vars
  <2>1. FlattenSeq([i \in DOMAIN Files |-> EmitFile(Files[i])])'
          = FlattenSeq([i \in DOMAIN Files |-> EmitFile(Files[i])])
    BY <1>11 DEF vars, Files, EmitFile, EmitTool, ResolveSchema, OfType
  <2>2. UNCHANGED <<tree, stage, read, module>>
    BY <1>11 DEF vars
  <2> QED
    BY <2>1, <2>2, <1>99 DEF LoadInv
<1> QED
  BY <1>3, <1>4, <1>5, <1>7, <1>8, <1>9, <1>10, <1>11 DEF Next, Finished

-----------------------------------------------------------------------------
(***************************************************************************)
(* The verification.                                                       *)
(***************************************************************************)
ReadOrReported ==
  \A i \in 1..scanned : tree.sources[i] \in sources <=> ~Unread(tree.sources[i])

OnlyReadFailures ==
  \A failure \in failures :
    \E i \in 1..scanned : failure = [kind |-> "SourceIo", path |-> tree.sources[i].path]

(* Each source that was looked at was either read or is reported, and      *)
(* nothing else is reported before the comparison.                         *)
VerifyInv ==
  /\ scanned \in 0..Len(tree.sources)
  /\ sources \subseteq {tree.sources[i] : i \in 1..scanned}
  /\ stage # "verified" => ReadOrReported /\ OnlyReadFailures
  /\ VerifyFindsDrift

(* What a use of a prompt lacks, and what the comparison adds it to. *)
KindsOf(file, entry) ==
  LET named == {s \in sources : s.path = entry.file}
  IN  IF named = {} THEN {"MissingSourceFile"} ELSE UNION {Lacks(s, file, entry) : s \in named}

Report ==
  failures \cup {[kind |-> "OrphanedPrompt", prompt |-> file.id] : file \in Orphans}
           \cup UNION {DriftOf(use[1], use[2]) : use \in Uses}

DriftKinds == {"MissingSourceFile", "IdNotInFile", "FunctionNotInFile"}

LEMMA SourcesListed ==
  ASSUME tree \in Trees
  PROVE  /\ Len(tree.sources) \in Nat /\ DOMAIN tree.sources = 1..Len(tree.sources)
         /\ \A i, j \in 1..Len(tree.sources) : tree.sources[i].path = tree.sources[j].path => i = j
<1>1. IsList(tree.sources)
      /\ \A i, j \in DOMAIN tree.sources : tree.sources[i].path = tree.sources[j].path => i = j
  BY PromptAssumption
<1> QED
  BY <1>1, ListFacts

(* Two uses are reported alike only if they lack the same. *)
LEMMA DriftReported ==
  ASSUME OnlyReadFailures, NEW file \in Range(Files), NEW entry \in Range(file.annotations.usedBy),
         NEW kind \in DriftKinds
  PROVE  Drift(kind, file, entry) \in Report <=> kind \in KindsOf(file, entry)
<1> DEFINE drift == Drift(kind, file, entry)
<1>1. drift.kind = kind /\ drift.prompt = file.id /\ drift.entry = entry
  BY DEF Drift
<1>2. drift \notin failures
  <2>1. \A failure \in failures : failure.kind = "SourceIo"
    BY DEF OnlyReadFailures
  <2> QED
    BY <2>1, <1>1 DEF DriftKinds
<1>3. drift \notin {[kind |-> "OrphanedPrompt", prompt |-> other.id] : other \in Orphans}
  <2>1. \A x \in {[kind |-> "OrphanedPrompt", prompt |-> other.id] : other \in Orphans} : x.kind = "OrphanedPrompt"
    OBVIOUS
  <2> QED
    BY <2>1, <1>1 DEF DriftKinds
<1>4. DriftOf(file, entry) = {Drift(k, file, entry) : k \in KindsOf(file, entry)}
  BY DEF DriftOf, KindsOf
<1>5. ASSUME kind \in KindsOf(file, entry) PROVE drift \in Report
  <2>1. drift \in DriftOf(file, entry)
    BY <1>4, <1>5
  <2>2. <<file, entry>> \in Uses
    BY DEF Uses
  <2>3. drift \in UNION {DriftOf(use[1], use[2]) : use \in Uses}
    BY <2>1, <2>2
  <2> QED
    BY <2>3 DEF Report
<1>6. ASSUME drift \in Report PROVE kind \in KindsOf(file, entry)
  <2>1. PICK use \in Uses : drift \in DriftOf(use[1], use[2])
    BY <1>2, <1>3, <1>6 DEF Report
  <2>2. PICK k \in KindsOf(use[1], use[2]) : drift = Drift(k, use[1], use[2])
    BY <2>1 DEF DriftOf, KindsOf
  <2>3. k = kind /\ use[1].id = file.id /\ use[2] = entry
    BY <2>2, <1>1 DEF Drift
  <2>4. \A s : Lacks(s, use[1], use[2]) = Lacks(s, file, entry)
    BY <2>3 DEF Lacks
  <2> QED
    BY <2>2, <2>3, <2>4 DEF KindsOf
<1> QED
  BY <1>5, <1>6

(* What could be read of the source tree is what the comparison looks at. *)
LEMMA ReadableSources ==
  ASSUME tree \in Trees, VerifyInv, stage # "verified", scanned = Len(tree.sources)
  PROVE  /\ sources = {s \in Range(tree.sources) : ~Unread(s)}
         /\ \A s, t \in sources : s.path = t.path => s = t
<1>1. DOMAIN tree.sources = 1..scanned
      /\ \A i, j \in 1..scanned : tree.sources[i].path = tree.sources[j].path => i = j
  BY SourcesListed
<1>2. Range(tree.sources) = {tree.sources[i] : i \in 1..scanned}
  BY <1>1 DEF Range
<1>3. sources \subseteq {tree.sources[i] : i \in 1..scanned} /\ ReadOrReported
  BY DEF VerifyInv
<1> QED
  BY <1>1, <1>2, <1>3 DEF ReadOrReported

LEMMA VerifyReports ==
  ASSUME tree \in Trees, VerifyInv, stage = "loaded", Verify
  PROVE  VerifyFindsDrift'
<1>1. stage # "verified" /\ scanned = Len(tree.sources) /\ OnlyReadFailures
  BY DEF Verify, VerifyInv
<1>2. failures' = Report /\ tree' = tree /\ Files' = Files
  BY DEF Verify, Report, Files
<1>3. \A s : Unread(s)' <=> Unread(s)
  <2> SUFFICES ASSUME NEW s, Unread(s)' PROVE Unread(s)
    BY <1>2 DEF Unread, Report
  <2> DEFINE x == [kind |-> "SourceIo", path |-> s.path]
  <2>1. x \in Report /\ x.kind = "SourceIo"
    BY <1>2 DEF Unread
  <2>2. x \notin {[kind |-> "OrphanedPrompt", prompt |-> file.id] : file \in Orphans}
    <3>1. \A y \in {[kind |-> "OrphanedPrompt", prompt |-> file.id] : file \in Orphans} : y.kind = "OrphanedPrompt"
      OBVIOUS
    <3> QED
      BY <3>1, <2>1
  <2>3. ASSUME NEW use \in Uses PROVE x \notin DriftOf(use[1], use[2])
    <3>1. KindsOf(use[1], use[2]) \subseteq DriftKinds
      BY DEF KindsOf, Lacks, DriftKinds
    <3>2. \A y \in DriftOf(use[1], use[2]) : y.kind \in DriftKinds
      BY <3>1 DEF DriftOf, KindsOf, Drift
    <3> QED
      BY <3>2, <2>1 DEF DriftKinds
  <2> QED
    BY <2>1, <2>2, <2>3 DEF Report, Unread
<1>4. sources = {s \in Range(tree.sources) : ~Unread(s)} /\ \A s, t \in sources : s.path = t.path => s = t
  BY <1>1, ReadableSources
<1>5. ASSUME NEW file \in Range(Files), NEW entry \in Range(file.annotations.usedBy)
      PROVE  LET readable == {s \in Range(tree.sources) : s.path = entry.file /\ ~Unread(s)}
             IN  /\ Drift("MissingSourceFile", file, entry) \in Report <=> readable = {}
                 /\ \A s \in readable :
                      /\ Drift("IdNotInFile", file, entry) \in Report <=> ~Mentions(s, file.id)
                      /\ Drift("FunctionNotInFile", file, entry) \in Report <=> entry.function \notin s.functions
  <2> DEFINE readable == {s \in Range(tree.sources) : s.path = entry.file /\ ~Unread(s)}
             named == {s \in sources : s.path = entry.file}
  <2>1. readable = named /\ \A s \in named : named = {s}
    BY <1>4
  <2>2. \A kind \in DriftKinds : Drift(kind, file, entry) \in Report <=> kind \in KindsOf(file, entry)
    BY <1>1, DriftReported
  <2>3. "MissingSourceFile" \in KindsOf(file, entry) <=> named = {}
    BY DEF KindsOf, Lacks
  <2>4. ASSUME NEW s \in named PROVE KindsOf(file, entry) = Lacks(s, file, entry)
    <3>1. named = {s}
      BY <2>1
    <3> QED
      BY <3>1 DEF KindsOf
  <2>5. \A s : /\ "IdNotInFile" \in Lacks(s, file, entry) <=> ~Mentions(s, file.id)
               /\ "FunctionNotInFile" \in Lacks(s, file, entry) <=> entry.function \notin s.functions
    BY DEF Lacks
  <2> HIDE DEF readable, named
  <2>6. Drift("MissingSourceFile", file, entry) \in Report <=> readable = {}
    BY <2>1, <2>2, <2>3 DEF DriftKinds
  <2>7. \A s \in readable :
          /\ Drift("IdNotInFile", file, entry) \in Report <=> ~Mentions(s, file.id)
          /\ Drift("FunctionNotInFile", file, entry) \in Report <=> entry.function \notin s.functions
    BY <2>1, <2>2, <2>4, <2>5 DEF DriftKinds
  <2> QED
    BY <2>6, <2>7 DEF readable
<1>6. ASSUME Report = {} PROVE \A file \in Range(Files) : \E s \in Range(tree.sources) : Mentions(s, file.id)
  <2> SUFFICES ASSUME NEW file \in Range(Files), \A s \in Range(tree.sources) : ~Mentions(s, file.id)
               PROVE  FALSE
    OBVIOUS
  <2>1. file \in Orphans
    BY <1>4 DEF Orphans
  <2>2. [kind |-> "OrphanedPrompt", prompt |-> file.id] \in Report
    BY <2>1 DEF Report
  <2> QED
    BY <2>2, <1>6
<1>7. ASSUME NEW file \in Range(Files), NEW entry \in Range(file.annotations.usedBy)
      PROVE  LET readable == {s \in Range(tree'.sources) : s.path = entry.file /\ ~Unread(s)'}
                 reported == {kind \in {"MissingSourceFile", "IdNotInFile", "FunctionNotInFile"} :
                                Drift(kind, file, entry) \in failures'}
             IN  /\ "MissingSourceFile" \in reported <=> readable = {}
                 /\ \A s \in readable : /\ "IdNotInFile" \in reported <=> ~Mentions(s, file.id)
                                        /\ "FunctionNotInFile" \in reported <=> entry.function \notin s.functions
  <2> DEFINE readable == {s \in Range(tree.sources) : s.path = entry.file /\ ~Unread(s)}
             reported == {kind \in {"MissingSourceFile", "IdNotInFile", "FunctionNotInFile"} :
                            Drift(kind, file, entry) \in Report}
  <2>1. readable = {s \in Range(tree'.sources) : s.path = entry.file /\ ~Unread(s)'}
    BY <1>2, <1>3
  <2>2. reported = {kind \in {"MissingSourceFile", "IdNotInFile", "FunctionNotInFile"} :
                      Drift(kind, file, entry) \in failures'}
    BY <1>2
  <2>3. /\ "MissingSourceFile" \in reported <=> readable = {}
        /\ \A s \in readable : /\ "IdNotInFile" \in reported <=> ~Mentions(s, file.id)
                               /\ "FunctionNotInFile" \in reported <=> entry.function \notin s.functions
    BY <1>5
  <2> QED
    BY <2>1, <2>2, <2>3
<1> QED
  BY <1>2, <1>6, <1>7 DEF VerifyFindsDrift, Mentions, Drift

LEMMA VerifyInit == Init => VerifyInv
<1> SUFFICES ASSUME Init PROVE VerifyInv
  OBVIOUS
<1>1. scanned = 0 /\ sources = {} /\ failures = {} /\ stage = "loading" /\ tree \in Trees
  BY DEF Init
<1>2. 1..scanned = {} /\ scanned \in 0..Len(tree.sources)
  BY <1>1, SourcesListed
<1>3. ReadOrReported /\ OnlyReadFailures
  BY <1>1, <1>2 DEF ReadOrReported, OnlyReadFailures
<1> QED
  BY <1>1, <1>2, <1>3 DEF VerifyInv, VerifyFindsDrift

LEMMA SourceRead ==
  ASSUME tree \in Trees, VerifyInv, ReadSource
  PROVE  VerifyInv'
<1> DEFINE n      == scanned + 1
           source == tree.sources[n]
           notice == [kind |-> "SourceIo", path |-> source.path]
<1>1. /\ stage = "loaded" /\ stage' = "loaded" /\ tree' = tree /\ scanned < Len(tree.sources) /\ scanned' = n
      /\ \/ sources' = sources \cup {source} /\ failures' = failures
         \/ failures' = failures \cup {notice} /\ sources' = sources
  BY DEF ReadSource
<1>2. /\ scanned \in 0..Len(tree.sources) /\ sources \subseteq {tree.sources[i] : i \in 1..scanned}
      /\ ReadOrReported /\ OnlyReadFailures
  BY <1>1 DEF VerifyInv
<1>3. /\ Len(tree.sources) \in Nat
      /\ \A i, j \in 1..Len(tree.sources) : tree.sources[i].path = tree.sources[j].path => i = j
  BY SourcesListed
<1>4. scanned \in Nat
  BY <1>2, <1>3, CountsAreNat
<1> HIDE DEF source, notice
<1>5. /\ n \in 0..Len(tree.sources) /\ n \in 1..n /\ n \in 1..Len(tree.sources) /\ n \notin 1..scanned
      /\ 1..n = (1..scanned) \cup {n} /\ 1..scanned \subseteq 1..Len(tree.sources)
  BY <1>1, <1>3, <1>4
<1> HIDE DEF n
<1>6. \A i \in 1..scanned : tree.sources[i].path # source.path /\ tree.sources[i] # source
  BY <1>3, <1>5 DEF source
<1>7. source \notin sources
  BY <1>2, <1>6
<1>8. ~Unread(source)
  BY <1>2, <1>6 DEF Unread, OnlyReadFailures
<1>9. \A i \in 1..scanned : [kind |-> "SourceIo", path |-> tree.sources[i].path] # notice
  BY <1>6 DEF notice
<1>10. ReadOrReported'
  <2>1. CASE sources' = sources \cup {source} /\ failures' = failures
    <3>1. \A i \in 1..scanned : tree.sources[i] \in sources' <=> [kind |-> "SourceIo", path |-> tree.sources[i].path] \notin failures'
      BY <2>1, <1>2, <1>6 DEF ReadOrReported, Unread
    <3>2. tree.sources[n] \in sources' /\ [kind |-> "SourceIo", path |-> tree.sources[n].path] \notin failures'
      BY <2>1, <1>8 DEF Unread, source
    <3> QED
      BY <3>1, <3>2, <1>1, <1>5 DEF ReadOrReported, Unread
  <2>2. CASE failures' = failures \cup {notice} /\ sources' = sources
    <3>1. \A i \in 1..scanned : tree.sources[i] \in sources' <=> [kind |-> "SourceIo", path |-> tree.sources[i].path] \notin failures'
      BY <2>2, <1>2, <1>9 DEF ReadOrReported, Unread
    <3>2. tree.sources[n] \notin sources' /\ [kind |-> "SourceIo", path |-> tree.sources[n].path] \in failures'
      BY <2>2, <1>7 DEF notice, source
    <3> QED
      BY <3>1, <3>2, <1>1, <1>5 DEF ReadOrReported, Unread
  <2> QED
    BY <1>1, <2>1, <2>2
<1>11. OnlyReadFailures'
  <2>1. \A failure \in failures' : failure \in failures \/ failure = notice
    BY <1>1
  <2> QED
    BY <2>1, <1>1, <1>2, <1>5 DEF OnlyReadFailures, notice, source
<1>12. sources' \subseteq {tree.sources[i] : i \in 1..n}
  BY <1>1, <1>2, <1>5 DEF source
<1> QED
  BY <1>1, <1>5, <1>10, <1>11, <1>12 DEF VerifyInv, VerifyFindsDrift

LEMMA VerifyStep == LoadInv /\ VerifyInv /\ [Next]_vars => VerifyInv'
<1> SUFFICES ASSUME tree \in Trees, VerifyInv, [Next]_vars PROVE VerifyInv'
  BY DEF LoadInv
<1>1. ASSUME UNCHANGED <<tree, scanned, sources, failures>>, stage # "verified", stage' # "verified"
      PROVE  VerifyInv'
  <2>1. ReadOrReported' /\ OnlyReadFailures'
    BY <1>1 DEF VerifyInv, ReadOrReported, OnlyReadFailures, Unread
  <2> QED
    BY <1>1, <2>1 DEF VerifyInv, VerifyFindsDrift
<1>2. ASSUME NEW error, Rejects(error), stage # "verified" PROVE VerifyInv'
  BY <1>1, <1>2 DEF Rejects
<1>3. CASE LoadFails
  BY <1>2, <1>3 DEF LoadFails
<1>4. CASE LoadFile
  <2>1. UNCHANGED <<tree, scanned, sources, failures>> /\ stage = "loading" /\ stage' \in {"loading", "rejected"}
    BY <1>4 DEF LoadFile, Rejects
  <2> QED
    BY <1>1, <2>1
<1>5. CASE CheckFiles
  <2>1. UNCHANGED <<tree, scanned, sources, failures>> /\ stage = "loading" /\ stage' \in {"loaded", "rejected"}
    BY <1>5 DEF CheckFiles, Rejects
  <2> QED
    BY <1>1, <2>1
<1>6. CASE Generate
  BY <1>1, <1>6 DEF Generate
<1>7. CASE EmitFails
  BY <1>2, <1>7 DEF EmitFails
<1>8. CASE ReadSource
  BY <1>8, SourceRead
<1>9. CASE Verify
  <2>1. VerifyFindsDrift'
    BY <1>9, VerifyReports DEF Verify
  <2>2. UNCHANGED <<tree, scanned, sources>> /\ stage' = "verified"
    BY <1>9 DEF Verify
  <2> QED
    BY <2>1, <2>2 DEF VerifyInv
<1>10. CASE UNCHANGED vars
  <2>1. UNCHANGED <<tree, stage, read, scanned, sources, failures>>
    BY <1>10 DEF vars
  <2>2. VerifyFindsDrift' = VerifyFindsDrift
    BY <2>1 DEF VerifyFindsDrift, Unread, Files
  <2>3. ReadOrReported' = ReadOrReported /\ OnlyReadFailures' = OnlyReadFailures
    BY <2>1 DEF ReadOrReported, OnlyReadFailures, Unread
  <2> QED
    BY <2>1, <2>2, <2>3 DEF VerifyInv
<1> QED
  BY <1>3, <1>4, <1>5, <1>6, <1>7, <1>8, <1>9, <1>10 DEF Next, Finished

THEOREM LoadHolds == Spec => []LoadInv
BY LoadInit, LoadStep, PTL DEF Spec

(* verify_annotations reports exactly the drift there is between the       *)
(* prompts and the files that could be read, in every source tree.         *)
THEOREM VerifyFindsDriftCorrect == Spec => []VerifyFindsDrift
<1>1. VerifyInv => VerifyFindsDrift
  BY DEF VerifyInv
<1> QED
  BY <1>1, VerifyInit, VerifyStep, LoadHolds, PTL DEF Spec

-----------------------------------------------------------------------------
(***************************************************************************)
(* The generated module.  First its lists, and the names in them.          *)
(***************************************************************************)
NamesOf(items)     == [k \in DOMAIN items |-> items[k].name]
DerivedNames(file) == <<file.id>> \o RegisterDerivedNames(file)

LEMMA FunctionList ==
  ASSUME NEW n \in Nat, NEW x, x = [k \in 1..n |-> x[k]]
  PROVE  IsList(x) /\ Len(x) = n
<1>1. \A k \in 1..n : x[k] \in Range(x)
  BY DEF Range
<1>2. x \in [1..n -> Range(x)]
  BY <1>1
<1> QED
  BY <1>2 DEF IsList

LEMMA EmptyAndSingle ==
  ASSUME NEW x
  PROVE  /\ IsList(<<>>) /\ Range(<<>>) = {}
         /\ IsList(<<x>>) /\ Range(<<x>>) = {x} /\ NamesOf(<<x>>) = <<x.name>>
<1>1. <<>> \in Seq({}) /\ <<x>> \in Seq({x})
  OBVIOUS
<1>2. Range(<<x>>) = {x} /\ Range(<<>>) = {}
  BY DEF Range
<1>3. DOMAIN <<x>> = 1..1 /\ <<x>>[1] = x
  OBVIOUS
<1>4. NamesOf(<<x>>) = <<x.name>>
  BY <1>3 DEF NamesOf
<1> QED
  BY <1>1, <1>2, <1>4, ListOf

LEMMA ConcatIs ==
  ASSUME NEW T, NEW u \in Seq(T), NEW v \in Seq(T)
  PROVE  u \o v = [k \in 1..(Len(u) + Len(v)) |-> IF k <= Len(u) THEN u[k] ELSE v[k - Len(u)]]
<1>1. u \o v \in Seq(T) /\ Len(u \o v) = Len(u) + Len(v) /\ Len(u) \in Nat /\ Len(v) \in Nat
  OBVIOUS
<1>2. \A k \in 1..(Len(u) + Len(v)) : (u \o v)[k] = IF k <= Len(u) THEN u[k] ELSE v[k - Len(u)]
  OBVIOUS
<1>3. u \o v = [k \in 1..(Len(u) + Len(v)) |-> (u \o v)[k]]
  <2>1. \A x \in Seq(T) : x = [k \in 1..Len(x) |-> x[k]]
    OBVIOUS
  <2> DEFINE w == u \o v
  <2>2. w = [k \in 1..Len(w) |-> w[k]]
    BY <1>1, <2>1
  <2>3. Len(w) = Len(u) + Len(v)
    BY <1>1
  <2> HIDE DEF w
  <2>4. w = [k \in 1..(Len(u) + Len(v)) |-> w[k]]
    BY <2>2, <2>3
  <2> QED
    BY <2>4 DEF w
<1> QED
  BY <1>2, <1>3

(* The first m of a list, and what is in the lists of a list at A. *)
FirstOf(x, m) == [i \in 1..m |-> x[i]]
JoinedAt(s, A) == UNION {Range(s[i]) : i \in A}

LEMMA FirstOfNext ==
  ASSUME NEW S, NEW n \in Nat, NEW x \in [1..n -> S], NEW m \in 0..n
  PROVE  /\ FirstOf(x, m) \in Seq(S)
         /\ m < n => FirstOf(x, m + 1) = Append(FirstOf(x, m), x[m + 1])
<1>1. m \in Nat /\ \A i \in 1..m : i \in 1..n
  OBVIOUS
<1>2. FirstOf(x, m) \in Seq(S) /\ Len(FirstOf(x, m)) = m
  BY <1>1 DEF FirstOf
<1>3. ASSUME m < n PROVE FirstOf(x, m + 1) = Append(FirstOf(x, m), x[m + 1])
  BY <1>1 DEF FirstOf
<1> QED
  BY <1>2, <1>3

LEMMA JoinedMore ==
  ASSUME NEW s, NEW A, NEW j
  PROVE  JoinedAt(s, A \cup {j}) = JoinedAt(s, A) \cup Range(s[j])
<1>1. \A B : \A x : x \in JoinedAt(s, B) <=> \E i \in B : x \in Range(s[i])
  BY DEF JoinedAt
<1>2. \A x : x \in JoinedAt(s, A \cup {j}) <=> x \in JoinedAt(s, A) \/ x \in Range(s[j])
  BY <1>1
<1> QED
  BY <1>2

LEMMA NamesOfConcat ==
  ASSUME NEW x, NEW y, IsList(x), IsList(y)
  PROVE  NamesOf(x \o y) = NamesOf(x) \o NamesOf(y)
<1> DEFINE m == Len(x)
           n == Len(y)
           S == Range(x) \cup Range(y)
<1>1. m \in Nat /\ n \in Nat /\ DOMAIN x = 1..m /\ DOMAIN y = 1..n
  BY ListFacts
<1>2. x \in Seq(S) /\ y \in Seq(S)
  <2>1. \A i \in 1..m : x[i] \in S
    BY ListFacts
  <2>2. \A i \in 1..n : y[i] \in S
    BY ListFacts
  <2>3. x = [i \in 1..m |-> x[i]] /\ y = [i \in 1..n |-> y[i]]
    BY DEF IsList
  <2> QED
    BY <2>1, <2>2, <2>3, <1>1
<1>3. /\ DOMAIN (x \o y) = 1..(m + n)
      /\ \A k \in 1..(m + n) : (x \o y)[k] = IF k <= m THEN x[k] ELSE y[k - m]
  BY <1>2
<1> HIDE DEF m, n, S
<1>4. NamesOf(x) = [k \in 1..m |-> x[k].name] /\ NamesOf(y) = [k \in 1..n |-> y[k].name]
  BY <1>1 DEF NamesOf
<1>5. NamesOf(x \o y) = [k \in 1..(m + n) |-> IF k <= m THEN x[k].name ELSE y[k - m].name]
  BY <1>3 DEF NamesOf
<1> DEFINE u == [k \in 1..m |-> x[k].name]
           v == [k \in 1..n |-> y[k].name]
<1>6. u \o v = [k \in 1..(m + n) |-> IF k <= m THEN u[k] ELSE v[k - m]]
  <2> DEFINE T == {u[k] : k \in 1..m} \cup {v[k] : k \in 1..n}
  <2>1. u \in Seq(T) /\ v \in Seq(T) /\ Len(u) = m /\ Len(v) = n
    BY <1>1
  <2> HIDE DEF u, v, T
  <2>2. u \o v = [k \in 1..(Len(u) + Len(v)) |-> IF k <= Len(u) THEN u[k] ELSE v[k - Len(u)]]
    BY <2>1, ConcatIs
  <2> QED
    BY <2>1, <2>2
<1>7. \A k \in 1..(m + n) : (k <= m => k \in 1..m) /\ (~(k <= m) => k - m \in 1..n)
  BY <1>1
<1> QED
  BY <1>4, <1>5, <1>6, <1>7

(* Lists of lists that correspond item by item to lists of their names     *)
(* still do when each is joined to one.                                    *)
LEMMA NamesOfFlatten ==
  ASSUME NEW n \in Nat, NEW s, NEW t, IsList(s), IsList(t), Len(s) = n, Len(t) = n,
         \A i \in 1..n : IsList(s[i]) /\ IsList(t[i]) /\ NamesOf(s[i]) = t[i]
  PROVE  /\ IsList(FlattenSeq(s)) /\ NamesOf(FlattenSeq(s)) = FlattenSeq(t)
         /\ Range(FlattenSeq(s)) = JoinedAt(s, 1..n)
<1> DEFINE Elements == UNION {Range(s[i]) : i \in 1..n}
           Names == UNION {Range(t[i]) : i \in 1..n}
           Lists == Seq(Elements)
           NameLists == Seq(Names)
           Good(m) == /\ IsList(FlattenSeq(FirstOf(s, m))) /\ NamesOf(FlattenSeq(FirstOf(s, m))) = FlattenSeq(FirstOf(t, m))
                      /\ Range(FlattenSeq(FirstOf(s, m))) = JoinedAt(s, 1..m)
           Holds == {m \in 0..n : Good(m)}
<1>1. s \in [1..n -> Lists] /\ t \in [1..n -> NameLists]
  <2>3. s = [i \in 1..n |-> s[i]] /\ t = [i \in 1..n |-> t[i]]
    BY DEF IsList
  <2> SUFFICES ASSUME NEW i \in 1..n PROVE s[i] \in Lists /\ t[i] \in NameLists
    BY <2>3
  <2>1. Range(s[i]) \subseteq Elements /\ Range(t[i]) \subseteq Names
    OBVIOUS
  <2>2. s[i] \in Seq(Range(s[i])) /\ t[i] \in Seq(Range(t[i]))
    BY DEF IsList
  <2> QED
    BY <2>1, <2>2
<1>2. Good(0)
  <2>1. FirstOf(s, 0) = <<>> /\ FirstOf(t, 0) = <<>> /\ JoinedAt(s, 1..0) = {}
    BY DEF FirstOf, JoinedAt
  <2>2. NamesOf(<<>>) = <<>>
    BY DEF NamesOf
  <2>3. IsList(<<>>) /\ Range(<<>>) = {} /\ FlattenSeq(<<>>) = <<>>
    BY FlattenEmpty, EmptyAndSingle
  <2> QED
    BY <2>1, <2>2, <2>3
<1>3. ASSUME NEW m \in 0..n, Good(m), m < n PROVE Good(m + 1)
  <2> HIDE DEF Good
  <2>1. m \in Nat /\ m + 1 \in 1..n /\ 1..(m + 1) = (1..m) \cup {m + 1}
    BY <1>3
  <2>2. /\ FirstOf(s, m) \in Seq(Lists) /\ FirstOf(t, m) \in Seq(NameLists)
        /\ FirstOf(s, m + 1) = Append(FirstOf(s, m), s[m + 1]) /\ FirstOf(t, m + 1) = Append(FirstOf(t, m), t[m + 1])
    <3> HIDE DEF Lists, NameLists, Elements, Names
    <3>1. m < n
      BY <1>3
    <3>4. s \in [1..n -> Lists]
      BY <1>1
    <3>5. t \in [1..n -> NameLists]
      BY <1>1
    <3>2. FirstOf(s, m) \in Seq(Lists) /\ FirstOf(s, m + 1) = Append(FirstOf(s, m), s[m + 1])
      BY <3>4, <3>1, FirstOfNext, ZenonT(40)
    <3>3. FirstOf(t, m) \in Seq(NameLists) /\ FirstOf(t, m + 1) = Append(FirstOf(t, m), t[m + 1])
      BY <3>5, <3>1, FirstOfNext
    <3> QED
      BY <3>2, <3>3
  <2>3. JoinedAt(s, 1..(m + 1)) = JoinedAt(s, 1..m) \cup Range(s[m + 1])
    <3> DEFINE A == 1..m
    <3>1. 1..(m + 1) = A \cup {m + 1}
      BY <2>1
    <3> HIDE DEF A
    <3>2. JoinedAt(s, A \cup {m + 1}) = JoinedAt(s, A) \cup Range(s[m + 1])
      BY JoinedMore
    <3> QED
      BY <3>1, <3>2 DEF A
  <2>4. s[m + 1] \in Seq(Elements) /\ t[m + 1] \in Seq(Names)
    BY <1>1, <2>1
  <2>5. FlattenSeq(FirstOf(s, m + 1)) = FlattenSeq(FirstOf(s, m)) \o s[m + 1]
    <3> HIDE DEF Elements
    <3> QED
      BY <2>2, <2>4, FlattenAppend
  <2>6. FlattenSeq(FirstOf(t, m + 1)) = FlattenSeq(FirstOf(t, m)) \o t[m + 1]
    <3> HIDE DEF Names
    <3> QED
      BY <2>2, <2>4, FlattenAppend
  <2> DEFINE a == FlattenSeq(FirstOf(s, m))
             b == FlattenSeq(FirstOf(t, m))
  <2>7. IsList(a) /\ NamesOf(a) = b /\ Range(a) = JoinedAt(s, 1..m)
    BY <1>3 DEF Good
  <2> HIDE DEF a, b
  <2>8. IsList(s[m + 1]) /\ NamesOf(s[m + 1]) = t[m + 1]
    BY <2>1
  <2>9. IsList(a \o s[m + 1]) /\ Range(a \o s[m + 1]) = JoinedAt(s, 1..(m + 1)) /\ NamesOf(a \o s[m + 1]) = b \o t[m + 1]
    BY <2>3, <2>7, <2>8, ListConcat, NamesOfConcat
  <2> QED
    BY <2>5, <2>6, <2>9 DEF Good, a, b
<1> HIDE DEF Good
<1>4. 0 \in Holds /\ \A k \in 0..n : k \in Holds /\ k < n => k + 1 \in Holds
  BY <1>2, <1>3
<1> HIDE DEF Holds
<1>5. n \in Holds
  <2>1. \A k \in 0..n : k \in Holds
    BY <1>4, InductionUpTo
  <2> QED
    BY <2>1
<1>6. FirstOf(s, n) = s /\ FirstOf(t, n) = t
  BY <1>1 DEF FirstOf
<1>7. Good(n)
  BY <1>5 DEF Holds
<1> QED
  BY <1>6, <1>7 DEF Good

(* What the loops of the emitter and of the checks take of a schema.       *)
LEMMA EnumsList ==
  ASSUME NEW schema, IsList(schema)
  PROVE  IsList(Enums(schema)) /\ DOMAIN Enums(schema) = 1..Len(Enums(schema))
<1>1. Len(schema) \in Nat
  BY ListFacts
<1> DEFINE places == Ascending({k \in DOMAIN schema : schema[k].param.type = "enum"}, Len(schema))
<1>2. Len(places) \in Nat /\ DOMAIN places = 1..Len(places)
  BY <1>1, AscendingFacts
<1>3. Enums(schema) = [k \in DOMAIN places |-> schema[places[k]]]
  BY DEF Enums, At
<1> HIDE DEF places
<1> QED
  BY <1>2, <1>3, FunctionList, ListFacts

EmitEnums(id, schema) == [k \in DOMAIN Enums(schema) |-> EmitEnum(id, Enums(schema)[k])]

StructOf(name, id, schema) ==
  Item("struct", name, NamesIn(schema), RequiredIn(schema), Range(EnumNames(id, schema)))

LEMMA EnumsEmitted ==
  ASSUME NEW id, NEW schema, IsList(schema)
  PROVE  /\ IsList(EmitEnums(id, schema)) /\ IsList(EnumNames(id, schema))
         /\ NamesOf(EmitEnums(id, schema)) = EnumNames(id, schema)
         /\ \A item \in Range(EmitEnums(id, schema)) : item.kind = "enum" /\ item.refs = {}
         /\ \A name \in Range(EnumNames(id, schema)) : \E item \in Range(EmitEnums(id, schema)) : item.name = name
<1> DEFINE entries == Enums(schema)
           n == Len(entries)
<1>1. n \in Nat /\ DOMAIN entries = 1..n
  BY EnumsList, ListFacts
<1> HIDE DEF entries, n
<1>2. EmitEnums(id, schema) = [k \in 1..n |-> EmitEnum(id, entries[k])]
      /\ EnumNames(id, schema) = [k \in 1..n |-> EnumTypeName(id, entries[k])]
  BY <1>1 DEF EmitEnums, EnumNames, entries
<1>3. \A entry : /\ EmitEnum(id, entry).name = EnumTypeName(id, entry)
                 /\ EmitEnum(id, entry).kind = "enum" /\ EmitEnum(id, entry).refs = {}
  BY DEF EmitEnum, Item
<1>4. IsList(EmitEnums(id, schema)) /\ IsList(EnumNames(id, schema))
  BY <1>1, <1>2, FunctionList
<1>5. NamesOf(EmitEnums(id, schema)) = EnumNames(id, schema)
  BY <1>2, <1>3 DEF NamesOf
<1> QED
  BY <1>2, <1>3, <1>4, <1>5 DEF Range

LEMMA StructEmitted ==
  ASSUME NEW name, NEW id, NEW schema, IsList(schema)
  PROVE  /\ IsList(EmitParamsStruct(name, id, schema))
         /\ NamesOf(EmitParamsStruct(name, id, schema)) = <<name>> \o EnumNames(id, schema)
         /\ Range(EmitParamsStruct(name, id, schema)) = {StructOf(name, id, schema)} \cup Range(EmitEnums(id, schema))
         /\ IsList(<<name>> \o EnumNames(id, schema))
<1>1. EmitParamsStruct(name, id, schema) = <<StructOf(name, id, schema)>> \o EmitEnums(id, schema)
  BY DEF EmitParamsStruct, StructOf, EmitEnums
<1>2. StructOf(name, id, schema).name = name
  BY DEF StructOf, Item
<1>3. /\ IsList(<<StructOf(name, id, schema)>>) /\ Range(<<StructOf(name, id, schema)>>) = {StructOf(name, id, schema)}
      /\ NamesOf(<<StructOf(name, id, schema)>>) = <<name>> /\ IsList(<<name>>)
  BY <1>2, EmptyAndSingle
<1> DEFINE a == <<StructOf(name, id, schema)>>
           b == EmitEnums(id, schema)
           c == <<name>>
           d == EnumNames(id, schema)
<1>4. IsList(b) /\ IsList(d) /\ NamesOf(b) = d
  BY EnumsEmitted
<1>5. IsList(a) /\ IsList(c) /\ NamesOf(a) = c
  BY <1>3
<1> HIDE DEF a, b, c, d
<1>6. IsList(a \o b) /\ Range(a \o b) = Range(a) \cup Range(b)
  BY <1>4, <1>5, ListConcat
<1>7. IsList(c \o d)
  BY <1>4, <1>5, ListConcat
<1>8. NamesOf(a \o b) = c \o d
  BY <1>4, <1>5, NamesOfConcat
<1> QED
  BY <1>1, <1>3, <1>6, <1>7, <1>8 DEF a, b, c, d

-----------------------------------------------------------------------------
(***************************************************************************)
(* What a file that broke no rule is like.                                 *)
(***************************************************************************)
GoodSchema(schema) ==
  /\ IsList(schema)
  /\ \A k, l \in DOMAIN schema : schema[k].name = schema[l].name => k = l
  /\ \A k \in DOMAIN schema : schema[k].name \notin Keywords

GoodFile(file) ==
  \/ /\ file.type = "prompt"
     /\ IsList(file.body.names) /\ \A name \in Range(Placeholders(file)) : name \notin Keywords
  \/ /\ file.type = "tool"
     /\ file.paramsFrom = Absent => GoodSchema(file.toolSchema)
  \/ file.type = "params" /\ GoodSchema(file.toolSchema)

LEMMA SchemaAccepted ==
  ASSUME NEW t \in Trees, NEW file \in Range(t.files),
         ParseFile(file) = "", file.toolSchema # Absent, BuildToolSchema(file) = ""
  PROVE  GoodSchema(file.toolSchema)
<1> DEFINE schema == file.toolSchema
<1>1. schema # OtherType
  BY DEF ParseFile, ??, Rule, Malformed
<1>2. IsList(schema) /\ \A k, l \in DOMAIN schema : schema[k].name = schema[l].name => k = l
  BY <1>1, PromptAssumption
<1>3. Len(schema) \in Nat /\ DOMAIN schema = 1..Len(schema)
  BY <1>2, ListFacts
<1> DEFINE faults == [k \in DOMAIN schema |-> ValidateParam(schema[k])]
<1>4. \A k \in DOMAIN schema : ValidateParam(schema[k]) = ""
  <2>1. DOMAIN faults = 1..Len(schema) /\ FirstFault(faults) = ""
    BY <1>3 DEF BuildToolSchema
  <2> HIDE DEF faults
  <2>2. \A k \in 1..Len(schema) : faults[k] = ""
    BY <1>3, <2>1, NoFirstFault
  <2> QED
    BY <1>3, <2>2 DEF faults
<1>5. \A k \in DOMAIN schema : ValidPlaceholderName(schema[k].name)
  <2> SUFFICES ASSUME NEW entry, ValidateParam(entry) = "" PROVE ValidPlaceholderName(entry.name)
    BY <1>4
  <2> QED
    BY DEF ValidateParam, ??, Rule
<1> QED
  BY <1>2, <1>5 DEF GoodSchema, ValidPlaceholderName

LEMMA FileAccepted ==
  ASSUME NEW t \in Trees, NEW file \in Range(t.files), ParseFile(file) = "", ValidateFile(file) = ""
  PROVE  GoodFile(file)
<1>1. file.type \in {"prompt", "tool", "params"}
      /\ (file.type = "prompt" => ValidatePrompt(file) = "")
      /\ (file.type = "tool" => ValidateTool(file) = "")
      /\ (file.type = "params" => ValidateParams(file) = "")
  BY DEF ValidateFile, ??, Rule
<1>2. ASSUME file.type = "prompt" PROVE GoodFile(file)
  <2>1. \A name \in Range(Placeholders(file)) : ValidPlaceholderName(name)
    BY <1>1, <1>2 DEF ValidatePrompt, ??, Rule
  <2> QED
    BY <1>2, <2>1, PromptAssumption DEF GoodFile, ValidPlaceholderName
<1>3. ASSUME file.type = "tool" PROVE GoodFile(file)
  <2>1. /\ ~(file.toolSchema # Absent /\ file.paramsFrom # Absent)
        /\ ~(file.toolSchema = Absent /\ file.paramsFrom = Absent)
        /\ file.toolSchema # Absent => BuildToolSchema(file) = ""
    BY <1>1, <1>3 DEF ValidateTool, ??, Rule
  <2> QED
    BY <1>3, <2>1, SchemaAccepted DEF GoodFile
<1>4. ASSUME file.type = "params" PROVE GoodFile(file)
  <2>1. file.toolSchema # Absent /\ BuildToolSchema(file) = ""
    BY <1>1, <1>4 DEF ValidateParams, ??, Rule
  <2> QED
    BY <1>4, <2>1, SchemaAccepted DEF GoodFile
<1> QED
  BY <1>1, <1>2, <1>3, <1>4

-----------------------------------------------------------------------------
(***************************************************************************)
(* The items of one file.                                                  *)
(***************************************************************************)
ToolOf(file) ==
  Item("tool", file.id, NamesIn(ResolveSchema(file)), RequiredIn(ResolveSchema(file)), {ParamsTypeName(file)})

(* The names of a file's items are those the check of names compares.      *)
LEMMA NamesAreDerived ==
  ASSUME NEW file, GoodFile(file)
  PROVE  /\ IsList(EmitFile(file)) /\ IsList(DerivedNames(file))
         /\ NamesOf(EmitFile(file)) = DerivedNames(file)
<1> DEFINE schema == file.toolSchema
<1>1. ASSUME NEW item, item.name = file.id, EmitFile(file) = <<item>>, RegisterDerivedNames(file) = <<>>
      PROVE  /\ IsList(EmitFile(file)) /\ IsList(DerivedNames(file))
             /\ NamesOf(EmitFile(file)) = DerivedNames(file)
  <2>1. DerivedNames(file) = <<file.id>>
    BY <1>1 DEF DerivedNames
  <2> QED
    BY <1>1, <2>1, EmptyAndSingle
<1>2. CASE file.type = "prompt"
  <2> DEFINE item == Item("prompt", file.id, Placeholders(file), <<>>, {})
  <2>1. EmitFile(file) = <<item>> /\ item.name = file.id /\ RegisterDerivedNames(file) = <<>>
    BY <1>2 DEF EmitFile, RegisterDerivedNames, Item
  <2> QED
    BY <2>1, <1>1
<1>3. CASE file.type = "tool" /\ file.paramsFrom # Absent
  <2>1. EmitFile(file) = <<ToolOf(file)>>
    BY <1>3 DEF EmitFile, EmitTool, ToolOf
  <2>2. ToolOf(file).name = file.id /\ RegisterDerivedNames(file) = <<>>
    BY <1>3 DEF ToolOf, RegisterDerivedNames, Item
  <2> QED
    BY <2>1, <2>2, <1>1
<1>4. CASE file.type = "tool" /\ file.paramsFrom = Absent /\ schema = <<>>
  <2>1. EmitFile(file) = <<ToolOf(file)>>
    BY <1>4 DEF EmitFile, EmitTool, ToolOf
  <2>2. Enums(<<>>) = <<>>
    <3>1. Ascending({k \in DOMAIN <<>> : <<>>[k].param.type = "enum"}, Len(<<>>)) = <<>>
      BY AscendingNext
    <3> QED
      BY <3>1 DEF Enums, At
  <2>3. EnumNames(file.id, <<>>) = <<>>
    BY <2>2 DEF EnumNames
  <2>4. ToolOf(file).name = file.id /\ RegisterDerivedNames(file) = <<>>
    BY <1>4, <2>3 DEF ToolOf, RegisterDerivedNames, Item
  <2> QED
    BY <2>1, <2>4, <1>1
<1>5. CASE file.type = "tool" /\ file.paramsFrom = Absent /\ schema # <<>>
  <2> DEFINE a == <<ToolOf(file)>>
             b == EmitParamsStruct(ParamsName(file.id), file.id, schema)
             c == <<file.id>>
             d == <<ParamsName(file.id)>> \o EnumNames(file.id, schema)
  <2>1. EmitFile(file) = a \o b
    BY <1>5 DEF EmitFile, EmitTool, ToolOf
  <2>2. DerivedNames(file) = c \o d
    BY <1>5 DEF DerivedNames, RegisterDerivedNames
  <2>3. IsList(schema)
    BY <1>5 DEF GoodFile, GoodSchema
  <2>4. IsList(b) /\ IsList(d) /\ NamesOf(b) = d
    BY <2>3, StructEmitted
  <2>5. IsList(a) /\ IsList(c) /\ NamesOf(a) = c
    <3>1. ToolOf(file).name = file.id
      BY DEF ToolOf, Item
    <3> QED
      BY <3>1, EmptyAndSingle
  <2> HIDE DEF a, b, c, d
  <2>6. IsList(a \o b) /\ IsList(c \o d) /\ NamesOf(a \o b) = c \o d
    BY <2>4, <2>5, ListConcat, NamesOfConcat
  <2> QED
    BY <2>1, <2>2, <2>6
<1>6. CASE file.type = "params"
  <2>1. EmitFile(file) = EmitParamsStruct(file.id, file.id, schema)
    BY <1>6 DEF EmitFile
  <2>2. DerivedNames(file) = <<file.id>> \o EnumNames(file.id, schema)
    BY <1>6 DEF DerivedNames, RegisterDerivedNames
  <2>3. IsList(schema)
    BY <1>6 DEF GoodFile, GoodSchema
  <2> QED
    BY <2>1, <2>2, <2>3, StructEmitted
<1> QED
  BY <1>2, <1>3, <1>4, <1>5, <1>6 DEF GoodFile

LEMMA PlaceholdersDiffer ==
  ASSUME NEW file, IsList(file.body.names)
  PROVE  IsInjective(Placeholders(file))
<1> DEFINE names == file.body.names
           S == {i \in DOMAIN names : \A j \in 1..(i - 1) : names[j] # names[i]}
           s == Ascending(S, Len(names))
<1>1. Len(names) \in Nat /\ DOMAIN names = 1..Len(names)
  BY ListFacts
<1>2. /\ Len(s) \in Nat /\ DOMAIN s = 1..Len(s) /\ \A k \in DOMAIN s : s[k] \in S \cap (1..Len(names))
      /\ \A k, l \in DOMAIN s : k < l => s[k] < s[l]
  <2> HIDE DEF S
  <2> QED
    BY <1>1, AscendingFacts
<1>3. Placeholders(file) = [k \in DOMAIN s |-> names[s[k]]]
  BY DEF Placeholders, At
<1>4. ASSUME NEW k \in DOMAIN s, NEW l \in DOMAIN s, k < l PROVE names[s[k]] # names[s[l]]
  <2>1. s[k] \in 1..Len(names) /\ s[l] \in S /\ s[l] \in 1..Len(names) /\ s[k] < s[l]
    BY <1>2, <1>4
  <2> HIDE DEF s
  <2>2. s[k] \in 1..(s[l] - 1)
    BY <2>1, <1>1
  <2> QED
    BY <2>1, <2>2
<1>5. \A k, l \in DOMAIN s : k < l \/ l < k \/ k = l
  BY <1>2
<1> HIDE DEF s
<1> QED
  BY <1>3, <1>4, <1>5 DEF IsInjective

-----------------------------------------------------------------------------
(***************************************************************************)
(* The module as a whole.                                                  *)
(***************************************************************************)
RefResolves(item, ref, items) ==
  \/ ref = NoParams /\ item.kind = "tool" /\ item.fields = <<>>
  \/ \E other \in items :
       /\ other.name = ref
       /\ other.kind = IF item.kind = "tool" THEN "struct" ELSE "enum"
       /\ item.kind = "tool" => other.fields = item.fields /\ other.required = item.required

FieldsFit(item) ==
  item.kind \in {"prompt", "struct"} =>
    IsInjective(item.fields) /\ \A field \in Range(item.fields) : field \notin Keywords

Resolves(item, items) == FieldsFit(item) /\ \A ref \in item.refs : RefResolves(item, ref, items)

LEMMA StructResolves ==
  ASSUME NEW name, NEW id, NEW schema, GoodSchema(schema), NEW items,
         Range(EmitParamsStruct(name, id, schema)) \subseteq items,
         NEW item \in Range(EmitParamsStruct(name, id, schema))
  PROVE  Resolves(item, items)
<1>1. IsList(schema)
  BY DEF GoodSchema
<1>5. Range(EmitParamsStruct(name, id, schema)) = {StructOf(name, id, schema)} \cup Range(EmitEnums(id, schema))
  BY <1>1, StructEmitted
<1>2. item = StructOf(name, id, schema) \/ item \in Range(EmitEnums(id, schema))
  BY <1>5
<1>3. CASE item \in Range(EmitEnums(id, schema))
  <2>1. item.kind = "enum" /\ item.refs = {}
    BY <1>1, <1>3, EnumsEmitted
  <2> QED
    BY <2>1 DEF Resolves, FieldsFit
<1>4. CASE item = StructOf(name, id, schema)
  <2>1. item.kind = "struct" /\ item.fields = NamesIn(schema) /\ item.refs = Range(EnumNames(id, schema))
    BY <1>4 DEF StructOf, Item
  <2>2. IsInjective(NamesIn(schema)) /\ \A field \in Range(NamesIn(schema)) : field \notin Keywords
    BY DEF NamesIn, GoodSchema, IsInjective, Range
  <2>3. ASSUME NEW ref \in item.refs PROVE \E other \in items : other.name = ref /\ other.kind = "enum"
    <3>1. PICK other \in Range(EmitEnums(id, schema)) : other.name = ref
      BY <1>1, <2>1, EnumsEmitted
    <3>2. other.kind = "enum" /\ other \in Range(EmitParamsStruct(name, id, schema))
      BY <1>1, <1>5, <3>1, EnumsEmitted
    <3> QED
      BY <3>1, <3>2
  <2> QED
    BY <2>1, <2>2, <2>3 DEF Resolves, FieldsFit, RefResolves
<1> QED
  BY <1>2, <1>3, <1>4

(* A tool and the struct of its schema agree. *)
LEMMA ToolMeetsStruct ==
  ASSUME NEW file, NEW items, NEW name, NEW id, NEW schema, IsList(schema),
         ResolveSchema(file) = schema, ParamsTypeName(file) = name,
         Range(EmitParamsStruct(name, id, schema)) \subseteq items
  PROVE  Resolves(ToolOf(file), items)
<1> DEFINE item  == ToolOf(file)
           other == StructOf(name, id, schema)
<1>1. /\ item.kind = "tool" /\ item.refs = {name}
      /\ item.fields = NamesIn(schema) /\ item.required = RequiredIn(schema)
  BY DEF ToolOf, Item
<1>2. /\ other.kind = "struct" /\ other.name = name
      /\ other.fields = NamesIn(schema) /\ other.required = RequiredIn(schema)
  BY DEF StructOf, Item
<1>3. other \in items
  <2>1. Range(EmitParamsStruct(name, id, schema)) = {StructOf(name, id, schema)} \cup Range(EmitEnums(id, schema))
    BY StructEmitted
  <2> QED
    BY <2>1
<1> HIDE DEF item, other
<1>4. Resolves(item, items)
  BY <1>1, <1>2, <1>3 DEF Resolves, FieldsFit, RefResolves
<1> QED
  BY <1>4 DEF item

LEMMA LoneTool ==
  ASSUME NEW file, file.type = "tool", file.paramsFrom # Absent \/ file.toolSchema = <<>>
  PROVE  EmitFile(file) = <<ToolOf(file)>>
<1>1. EmitTool(file) = <<ToolOf(file)>> \o <<>>
  BY DEF EmitTool, ToolOf
<1>2. <<ToolOf(file)>> \o <<>> = <<ToolOf(file)>>
  OBVIOUS
<1> QED
  BY <1>1, <1>2 DEF EmitFile

LEMMA ToolWithoutParams ==
  ASSUME NEW file, file.paramsFrom = Absent, file.toolSchema = <<>>
  PROVE  ResolveSchema(file) = <<>> /\ ParamsTypeName(file) = NoParams /\ NamesIn(<<>>) = <<>>
BY DEF ResolveSchema, ParamsTypeName, NamesIn

LEMMA FileResolves ==
  ASSUME NEW items, NEW i \in DOMAIN Files, CheckParamsRefs = "", \A j \in DOMAIN Files : GoodFile(Files[j]),
         \A j \in DOMAIN Files : Range(EmitFile(Files[j])) \subseteq items,
         NEW item \in Range(EmitFile(Files[i]))
  PROVE  Resolves(item, items)
<1> DEFINE file   == Files[i]
           schema == file.toolSchema
<1>1. GoodFile(file) /\ Range(EmitFile(file)) \subseteq items /\ item \in Range(EmitFile(file))
  OBVIOUS
<1> HIDE DEF file
<1>7. ASSUME NEW only, EmitFile(file) = <<only>> PROVE item = only
  <2>1. Range(EmitFile(file)) = {only}
    BY <1>7, EmptyAndSingle
  <2> QED
    BY <1>1, <2>1
<1>2. CASE file.type = "prompt"
  <2>1. item = Item("prompt", file.id, Placeholders(file), <<>>, {})
    <3>1. EmitFile(file) = <<Item("prompt", file.id, Placeholders(file), <<>>, {})>>
      BY <1>2 DEF EmitFile
    <3> QED
      BY <3>1, <1>7
  <2>2. item.kind = "prompt" /\ item.fields = Placeholders(file) /\ item.refs = {}
    BY <2>1 DEF Item
  <2>3. IsInjective(Placeholders(file)) /\ \A name \in Range(Placeholders(file)) : name \notin Keywords
    BY <1>1, <1>2, PlaceholdersDiffer DEF GoodFile
  <2> QED
    BY <2>2, <2>3 DEF Resolves, FieldsFit
<1>3. CASE file.type = "tool" /\ file.paramsFrom # Absent
  <2>1. item = ToolOf(file)
    <3>1. EmitFile(file) = <<ToolOf(file)>>
      BY <1>3, LoneTool
    <3> QED
      BY <3>1, <1>7
  <2> DEFINE target == {j \in OfType("params") : Files[j].id = file.paramsFrom}
             owner  == CHOOSE j \in target : TRUE
  <2>2. i \in Shared
    BY <1>3 DEF Shared, Tools, OfType, file
  <2>3. target # {}
    BY <2>2 DEF CheckParamsRefs, Rule, ParamsIds, file
  <2>4. owner \in target
    BY <2>3
  <2>5. ResolveSchema(file) = Files[owner].toolSchema /\ ParamsTypeName(file) = file.paramsFrom
    BY <1>3, <2>3 DEF ResolveSchema, ParamsTypeName
  <2> HIDE DEF owner
  <2>6. owner \in DOMAIN Files /\ Files[owner].type = "params" /\ Files[owner].id = file.paramsFrom
    BY <2>4 DEF OfType
  <2>7. IsList(Files[owner].toolSchema)
    BY <2>6 DEF GoodFile, GoodSchema
  <2>8. Range(EmitParamsStruct(file.paramsFrom, file.paramsFrom, Files[owner].toolSchema)) \subseteq items
    <3>1. EmitFile(Files[owner]) = EmitParamsStruct(file.paramsFrom, file.paramsFrom, Files[owner].toolSchema)
      BY <2>6 DEF EmitFile
    <3> QED
      BY <2>6, <3>1
  <2> QED
    BY <2>1, <2>5, <2>7, <2>8, ToolMeetsStruct
<1>4. CASE file.type = "tool" /\ file.paramsFrom = Absent /\ schema = <<>>
  <2>1. item = ToolOf(file)
    <3>1. EmitFile(file) = <<ToolOf(file)>>
      BY <1>4, LoneTool
    <3> QED
      BY <3>1, <1>7
  <2>2. ResolveSchema(file) = <<>> /\ ParamsTypeName(file) = NoParams /\ NamesIn(<<>>) = <<>>
    BY <1>4, ToolWithoutParams
  <2>3. item.kind = "tool" /\ item.fields = <<>> /\ item.refs = {NoParams}
    BY <2>1, <2>2 DEF ToolOf, Item
  <2> QED
    BY <2>3 DEF Resolves, FieldsFit, RefResolves
<1>5. CASE file.type = "tool" /\ file.paramsFrom = Absent /\ schema # <<>>
  <2> DEFINE struct == EmitParamsStruct(ParamsName(file.id), file.id, schema)
  <2>1. EmitFile(file) = <<ToolOf(file)>> \o struct
    BY <1>5 DEF EmitFile, EmitTool, ToolOf
  <2>2. GoodSchema(schema) /\ IsList(schema)
    BY <1>1, <1>5 DEF GoodFile, GoodSchema
  <2>3. Range(EmitFile(file)) = {ToolOf(file)} \cup Range(struct)
    <3>1. IsList(struct) /\ IsList(<<ToolOf(file)>>) /\ Range(<<ToolOf(file)>>) = {ToolOf(file)}
      BY <2>2, StructEmitted, EmptyAndSingle
    <3> HIDE DEF struct
    <3> QED
      BY <2>1, <3>1, ListConcat
  <2>4. Range(struct) \subseteq items
    BY <1>1, <2>3
  <2>5. ResolveSchema(file) = schema /\ ParamsTypeName(file) = ParamsName(file.id)
    BY <1>5 DEF ResolveSchema, ParamsTypeName
  <2>6. CASE item = ToolOf(file)
    BY <2>2, <2>4, <2>5, <2>6, ToolMeetsStruct
  <2>7. CASE item \in Range(struct)
    BY <2>2, <2>4, <2>7, StructResolves
  <2>8. item = ToolOf(file) \/ item \in Range(struct)
    BY <1>1, <2>3
  <2> QED
    BY <2>6, <2>7, <2>8
<1>6. CASE file.type = "params"
  <2>1. EmitFile(file) = EmitParamsStruct(file.id, file.id, schema)
    BY <1>6 DEF EmitFile
  <2>2. GoodSchema(schema)
    BY <1>1, <1>6 DEF GoodFile
  <2> QED
    BY <1>1, <2>1, <2>2, StructResolves
<1> QED
  BY <1>1, <1>2, <1>3, <1>4, <1>5, <1>6 DEF GoodFile

LEMMA LoadResolves == LoadInv => ModuleResolves
<1> SUFFICES ASSUME LoadInv, stage = "generated" PROVE ModuleResolves
  BY DEF ModuleResolves
<1> DEFINE s == [i \in DOMAIN Files |-> EmitFile(Files[i])]
           t == [i \in DOMAIN Files |-> DerivedNames(Files[i])]
           n == read
<1>1. module = FlattenSeq(s) /\ CheckParamsRefs = "" /\ CheckDerivedNames = ""
  BY DEF LoadInv
<1>2. n \in Nat /\ DOMAIN Files = 1..n
  <2>1. Len(tree.files) \in Nat /\ read \in 0..Len(tree.files)
    BY FilesLoaded, ListFacts DEF LoadInv
  <2> QED
    BY <2>1, FilesLoaded, CountsAreNat
<1>3. \A i \in 1..n : GoodFile(Files[i])
  <2> SUFFICES ASSUME NEW i \in 1..n PROVE GoodFile(Files[i])
    OBVIOUS
  <2>1. Files[i] = tree.files[i] /\ tree.files[i] \in Range(tree.files) /\ tree \in Trees
    BY FilesLoaded DEF Range, LoadInv
  <2>2. ParseFile(tree.files[i]) = "" /\ ValidateFile(tree.files[i]) = ""
    BY DEF LoadInv
  <2> QED
    BY <2>1, <2>2, FileAccepted
<1>4. /\ IsList(s) /\ Len(s) = n /\ IsList(t) /\ Len(t) = n
      /\ \A i \in 1..n : s[i] = EmitFile(Files[i]) /\ t[i] = DerivedNames(Files[i])
  <2>1. s = [i \in 1..n |-> s[i]] /\ t = [i \in 1..n |-> t[i]]
    BY <1>2
  <2>2. \A i \in 1..n : s[i] = EmitFile(Files[i]) /\ t[i] = DerivedNames(Files[i])
    BY <1>2
  <2> HIDE DEF s, t
  <2> QED
    BY <1>2, <2>1, <2>2, FunctionList
<1>5. IsInjective(FlattenSeq(t))
  <2>1. t = [i \in DOMAIN Files |-> <<Files[i].id>> \o RegisterDerivedNames(Files[i])]
    BY DEF DerivedNames
  <2> HIDE DEF t
  <2> QED
    BY <1>1, <2>1 DEF CheckDerivedNames, Rule
<1> HIDE DEF s, t, n
<1>6. \A i \in 1..n : IsList(s[i]) /\ IsList(t[i]) /\ NamesOf(s[i]) = t[i]
  BY <1>3, <1>4, NamesAreDerived
<1>7. /\ IsList(module) /\ NamesOf(module) = FlattenSeq(t)
      /\ Range(module) = JoinedAt(s, 1..n)
  BY <1>1, <1>2, <1>4, <1>6, NamesOfFlatten
<1>8. \A i, j \in DOMAIN module : module[i].name = module[j].name => i = j
  <2>1. IsInjective(NamesOf(module))
    BY <1>5, <1>7
  <2> QED
    BY <2>1 DEF IsInjective, NamesOf
<1>9. \A i \in DOMAIN Files : Range(EmitFile(Files[i])) \subseteq Range(module)
  BY <1>2, <1>4, <1>7 DEF JoinedAt
<1>10. ASSUME NEW item \in Range(module) PROVE Resolves(item, Range(module))
  <2>1. PICK i \in 1..n : item \in Range(s[i])
    BY <1>7 DEF JoinedAt
  <2>2. i \in DOMAIN Files /\ item \in Range(EmitFile(Files[i]))
    BY <1>2, <1>4, <2>1
  <2> DEFINE items == Range(module)
  <2>3. \A j \in DOMAIN Files : GoodFile(Files[j]) /\ Range(EmitFile(Files[j])) \subseteq items
    BY <1>2, <1>3, <1>9
  <2> HIDE DEF items
  <2>4. Resolves(item, items)
    BY <1>1, <2>2, <2>3, FileResolves
  <2> QED
    BY <2>4 DEF items
<1> QED
  BY <1>8, <1>10 DEF ModuleResolves, Resolves, RefResolves, FieldsFit

(* The names and types of the generated module resolve, and the schemas it *)
(* advertises are those its types have, for every tree that loads.         *)
THEOREM ModuleResolvesCorrect == Spec => []ModuleResolves
BY LoadHolds, LoadResolves, PTL

=============================================================================
