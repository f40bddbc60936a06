----------------------------- MODULE PromptTree -----------------------------
(***************************************************************************)
(* Prompt files (grizzly-agent-prompts): loading and validating a tree of  *)
(* them, the Rust module generated from it (codegen), and the check of     *)
(* their annotations against the source tree (verify.rs).                  *)
(*                                                                         *)
(* A fault is the name of the PromptError, or "" for none.  A text is ""   *)
(* (blank), "text" or "{{" (it holds a placeholder).  A snake_case name is *)
(* a sequence of runs of letters or digits, "_" and "?" (any other         *)
(* character); a PascalCase name is a sequence of runs, each [token,       *)
(* capital], so that names which run together are equal as in the code.    *)
(***************************************************************************)
EXTENDS Naturals, SequencesExt, Selection

CONSTANTS
  Trees,      (* [files, sources]: files of a prompt directory in path     *)
              (* order; and of a source directory [path, ids, functions]   *)
  Absent,     (* the value of a field that is missing or null              *)
  OtherType   (* a field value of the wrong type                           *)

VARIABLES
  tree,
  stage,      (* "loading", "rejected", "loaded", "generated", "reading",  *)
              (* "verified"                                                *)
  read,       (* files loaded so far                                       *)
  fault,      (* why the load was rejected                                 *)
  module,     (* items of the generated module                             *)
  scanned,    (* sources looked at so far                                  *)
  sources,    (* those that could be read                                  *)
  failures    (* the VerifyReport                                          *)

vars == <<tree, stage, read, fault, module, scanned, sources, failures>>

IsList(x) == x \in Seq(Range(x))

(* Files and sources are listed, a mapping has each of its keys once, and a *)
(* walk comes to each path once.                                            *)
ASSUME PromptAssumption ==
  \A t \in Trees :
    /\ IsList(t.files) /\ IsList(t.sources)
    /\ \A i, j \in DOMAIN t.sources : t.sources[i].path = t.sources[j].path => i = j
    /\ \A file \in Range(t.files) :
         /\ IsList(file.body.names)
         /\ file.toolSchema \notin {Absent, OtherType} =>
              /\ IsList(file.toolSchema)
              /\ \A k, l \in DOMAIN file.toolSchema : file.toolSchema[k].name = file.toolSchema[l].name => k = l

(* The first fault of two checks, the second made only after the first. *)
f ?? g == IF f # "" THEN f ELSE g
Rule(error, broken) == IF broken THEN error ELSE ""

(* The first fault of a list of checks. *)
FirstFault(faults) ==
  LET broken == {i \in DOMAIN faults : faults[i] # ""}
  IN  IF broken = {} THEN "" ELSE faults[CHOOSE i \in broken : \A j \in broken : i <= j]

-----------------------------------------------------------------------------
(* Names (ident.rs) *)

IsDigits(token)  == token = "1"
IsLetters(token) == token \notin {"1", "_", "?"}

Keywords ==
  {<<word>> : word \in
     {"as", "async", "await", "break", "const", "continue", "crate", "dyn", "else", "enum", "extern",
      "false", "fn", "for", "if", "impl", "in", "let", "loop", "match", "mod", "move", "mut", "pub",
      "ref", "return", "self", "static", "struct", "super", "trait", "true", "type", "unsafe", "use",
      "where", "while", "abstract", "become", "box", "do", "final", "gen", "macro", "override", "priv",
      "try", "typeof", "unsized", "virtual", "yield"}}

ValidId(id) == id # <<>> /\ id[1].capital /\ \A i \in DOMAIN id : id[i].token \notin {"_", "?"}

ValidEnumValue(name) == name # <<>> /\ IsLetters(name[1]) /\ "?" \notin Range(name)

ValidPlaceholderName(name) == ValidEnumValue(name) /\ name \notin Keywords

ToSnake(id) ==
  FlattenSeq([i \in DOMAIN id |-> IF id[i].capital /\ i # 1 THEN <<"_", id[i].token>> ELSE <<id[i].token>>])

ToPascal(name) ==
  LET runs == Ascending({i \in DOMAIN name : name[i] # "_"}, Len(name))
  IN  [k \in DOMAIN runs |->
         [token   |-> name[runs[k]],
          capital |-> IsLetters(name[runs[k]]) /\ (runs[k] = 1 \/ name[runs[k] - 1] = "_")]]

-----------------------------------------------------------------------------
(* parse_file: every shape the frontmatter may not have. *)

(* deny_unknown_keys, and get_string and its like for each field. *)
Malformed(hash, fields) == hash.unknownKey \/ \E field \in fields : hash[field] = OtherType

MalformedUsedBy(list) ==
  list # Absent /\ \E i \in DOMAIN list : list[i] = OtherType \/ Malformed(list[i], {"file", "function"})

MalformedVariables(map) ==
  map # Absent /\ \E i \in DOMAIN map : map[i].entry = OtherType \/ Malformed(map[i].entry, {"source", "contents"})

MalformedStrings(list) == list # Absent /\ OtherType \in Range(list)

MalformedAnnotations(ann) ==
  \/ ann = OtherType
  \/ ann # Absent /\ (\/ Malformed(ann, {"sentWhen", "usedBy", "variables", "reasoning"})
                      \/ MalformedUsedBy(ann.usedBy) \/ MalformedVariables(ann.variables)
                      \/ MalformedStrings(ann.reasoning))

ParseFile(file) ==
  Rule("Frontmatter", file.framing # "mapping")   (* or undelimited, not YAML, not a mapping *)
  ?? Rule("Frontmatter", Malformed(file, {"id", "type", "name", "toolSchema", "paramsFrom"}))
  ?? Rule("Frontmatter", MalformedAnnotations(file.annotations))
  ?? Rule("BodyWhitespace", file.body.edgeSpace)

ParseRawParam(param) ==
  Rule("Frontmatter", \/ param = OtherType
                      \/ Malformed(param, {"type", "description", "optional", "values"})
                      \/ MalformedStrings(param.values))

-----------------------------------------------------------------------------
(* validate_file *)

Blank(text)      == text \in {Absent, ""}
HoldsBraces(body) == body.names # <<>> \/ body.unterminated

(* unique_placeholders: in the order of their first appearance. *)
Placeholders(file) ==
  LET names == file.body.names
  IN  At(names, Ascending({i \in DOMAIN names : \A j \in 1..(i - 1) : names[j] # names[i]}, Len(names)))

ValidateId(file) ==
  Rule("MissingId", file.id = Absent)
  ?? Rule("IdGrammar", ~ValidId(file.id))
  ?? Rule("IdFilenameMismatch", file.stem # file.id)

SentWhen(ann, policy) ==
  IF policy = "forbidden" THEN Rule("ForbiddenAnnotation", ann.sentWhen # Absent)
  ELSE Rule("MissingAnnotation", ann.sentWhen = Absent) ?? Rule("EmptyAnnotation", ann.sentWhen = "")

UsedBy(ann) ==
  Rule("MissingAnnotation", ann.usedBy = Absent)
  ?? Rule("EmptyAnnotation", ann.usedBy = <<>> \/ \E e \in Range(ann.usedBy) : Blank(e.file) \/ Blank(e.function))

Reasoning(ann) ==
  Rule("MissingAnnotation", ann.reasoning = Absent)
  ?? Rule("EmptyAnnotation", ann.reasoning = <<>> \/ "" \in Range(ann.reasoning))

CommonAnnotations(file, policy) ==
  Rule("MissingAnnotation", file.annotations = Absent)
  ?? SentWhen(file.annotations, policy) ?? UsedBy(file.annotations) ?? Reasoning(file.annotations)

HasVariables(file) == file.annotations # Absent /\ file.annotations.variables # Absent

VariableOf(file, name) == {v \in Range(file.annotations.variables) : v.name = name}

(* build_variables: each placeholder has its entry, each entry its use. *)
BuildVariables(file) ==
  FirstFault([k \in DOMAIN Placeholders(file) |->
    LET found == VariableOf(file, Placeholders(file)[k])
    IN  Rule("UndeclaredPlaceholder", found = {})
        ?? Rule("EmptyAnnotation", \E v \in found : Blank(v.entry.source) \/ Blank(v.entry.contents))])
  ?? Rule("UnusedVariable", \E v \in Range(file.annotations.variables) : v.name \notin Range(Placeholders(file)))

ValidateVariables(file) ==
  Rule("VariablesKeyMismatch", (Placeholders(file) # <<>>) # HasVariables(file))
  ?? IF HasVariables(file) THEN BuildVariables(file) ELSE ""

ParamType(param) ==
  CASE param.type \in {"string", "integer", "number", "boolean"} ->
         Rule("ValuesOnNonEnum", param.values # Absent)
    [] param.type = "enum" ->
         Rule("EnumValuesMissing", param.values \in {Absent, <<>>})
         ?? Rule("EnumValueGrammar", \E v \in Range(param.values) : ~ValidEnumValue(v))
    [] OTHER -> "ParamType"

(* One entry of a tool_schema is [name, param]. *)
ValidateParam(entry) ==
  Rule("Frontmatter", entry.name = OtherType) ?? ParseRawParam(entry.param)
  ?? Rule("PlaceholderName", ~ValidPlaceholderName(entry.name))
  ?? Rule("ParamType", entry.param.type = Absent)
  ?? Rule("ParamDescription", Blank(entry.param.description))
  ?? Rule("PlaceholderInStaticText", entry.param.description = "{{")
  ?? ParamType(entry.param)

BuildToolSchema(file) == FirstFault([k \in DOMAIN file.toolSchema |-> ValidateParam(file.toolSchema[k])])

ValidatePrompt(file) ==
  Rule("KeyNotAllowed", \E key \in {"name", "toolSchema", "paramsFrom"} : file[key] # Absent)
  ?? Rule("UnterminatedPlaceholder", file.body.unterminated)
  ?? Rule("PlaceholderName", \E name \in Range(Placeholders(file)) : ~ValidPlaceholderName(name))
  ?? CommonAnnotations(file, "required")
  ?? ValidateVariables(file)

ValidateTool(file) ==
  Rule("ForbiddenAnnotation", HasVariables(file))
  ?? Rule("PlaceholderInStaticText", HoldsBraces(file.body))
  ?? Rule("SchemaSourceAmbiguous", file.toolSchema # Absent /\ file.paramsFrom # Absent)
  ?? Rule("SchemaSourceMissing", file.toolSchema = Absent /\ file.paramsFrom = Absent)
  ?? (IF file.toolSchema # Absent THEN BuildToolSchema(file) ELSE "")
  ?? CommonAnnotations(file, "required")

ValidateParams(file) ==
  Rule("KeyNotAllowed", \E key \in {"name", "paramsFrom"} : file[key] # Absent)
  ?? Rule("ForbiddenAnnotation", HasVariables(file))
  ?? Rule("PlaceholderInStaticText", HoldsBraces(file.body))
  ?? Rule("ParamsSchemaMissing", file.toolSchema = Absent)
  ?? BuildToolSchema(file)
  ?? CommonAnnotations(file, "forbidden")

ValidateFile(file) ==
  ValidateId(file)
  ?? Rule("MissingType", file.type = Absent)
  ?? CASE file.type = "prompt" -> ValidatePrompt(file)
       [] file.type = "tool"   -> ValidateTool(file)
       [] file.type = "params" -> ValidateParams(file)
       [] OTHER                -> "UnknownType"

-----------------------------------------------------------------------------
(* The checks across files. *)

Files     == SubSeq(tree.files, 1, read)
OfType(t) == {i \in DOMAIN Files : Files[i].type = t}
Tools     == OfType("tool")
Shared    == {i \in Tools : Files[i].paramsFrom # Absent}

ParamsIds == {Files[i].id : i \in OfType("params")}

(* Bug: params_from may name a file of any type. *)
CheckParamsRefsMutant ==
  Rule("UnknownParamsRef", \E i \in Shared : \A j \in DOMAIN Files : Files[j].id # Files[i].paramsFrom)

CheckParamsRefs == Rule("UnknownParamsRef", \E i \in Shared : Files[i].paramsFrom \notin ParamsIds)

CheckUnreferencedParams ==
  Rule("UnreferencedParams", \E id \in ParamsIds : \A i \in Shared : Files[i].paramsFrom # id)

WireName(file) == IF file.name # Absent THEN file.name ELSE ToSnake(file.id)

CheckWireNames ==
  Rule("WireNameCollision", \E i, j \in Tools :
         i # j /\ WireName(Files[i]) = WireName(Files[j]) /\ Files[i].name = Absent)

Enums(schema) ==
  At(schema, Ascending({k \in DOMAIN schema : schema[k].param.type = "enum"}, Len(schema)))

EnumTypeName(id, entry) == id \o ToPascal(entry.name)
EnumNames(id, schema) == [k \in DOMAIN Enums(schema) |-> EnumTypeName(id, Enums(schema)[k])]
ParamsName(id)       == id \o <<[token |-> "params", capital |-> TRUE]>>

(* Bug: a params file registers no enums. *)
RegisterDerivedNamesMutant(file) ==
  IF file.type = "tool" /\ file.paramsFrom = Absent
  THEN (IF file.toolSchema # <<>> THEN <<ParamsName(file.id)>> ELSE <<>>) \o EnumNames(file.id, file.toolSchema)
  ELSE <<>>

RegisterDerivedNames(file) ==
  CASE file.type = "tool" /\ file.paramsFrom = Absent ->
         (IF file.toolSchema # <<>> THEN <<ParamsName(file.id)>> ELSE <<>>) \o EnumNames(file.id, file.toolSchema)
    [] file.type = "params" -> EnumNames(file.id, file.toolSchema)
    [] OTHER -> <<>>

CheckDerivedNames ==
  Rule("DerivedNameCollision",
       ~IsInjective(FlattenSeq([i \in DOMAIN Files |-> <<Files[i].id>> \o RegisterDerivedNames(Files[i])])))

-----------------------------------------------------------------------------
(***************************************************************************)
(* The generated module.  An item is [name, kind, fields, refs] with the   *)
(* types its fields or associated types refer to; a tool's fields and      *)
(* required are those of its JSON schema.                                  *)
(***************************************************************************)
Item(kind, name, fields, required, refs) ==
  [kind |-> kind, name |-> name, fields |-> fields, required |-> required, refs |-> refs]

(* A type of the core crate, which no file can name. *)
NoParams == <<[token |-> "NoParams", capital |-> TRUE]>>

NamesIn(schema)    == [k \in DOMAIN schema |-> schema[k].name]
RequiredIn(schema) ==
  NamesIn(At(schema, Ascending({k \in DOMAIN schema : ~schema[k].param.optional}, Len(schema))))

EmitEnum(id, entry) ==
  Item("enum", EnumTypeName(id, entry), [v \in DOMAIN entry.param.values |-> ToPascal(entry.param.values[v])], <<>>, {})

EmitParamsStruct(name, id, schema) ==
  <<Item("struct", name, NamesIn(schema), RequiredIn(schema), Range(EnumNames(id, schema)))>>
    \o [k \in DOMAIN Enums(schema) |-> EmitEnum(id, Enums(schema)[k])]

(* resolve_schema falls back to an empty schema. *)
ResolveSchema(file) ==
  IF file.paramsFrom = Absent THEN file.toolSchema
  ELSE LET target == {i \in OfType("params") : Files[i].id = file.paramsFrom}
       IN  IF target = {} THEN <<>> ELSE Files[CHOOSE i \in target : TRUE].toolSchema

ParamsTypeName(file) ==
  CASE file.paramsFrom # Absent -> file.paramsFrom
    [] file.paramsFrom = Absent /\ file.toolSchema = <<>> -> NoParams
    [] OTHER -> ParamsName(file.id)

EmitTool(file) ==
  LET schema == ResolveSchema(file)
  IN  <<Item("tool", file.id, NamesIn(schema), RequiredIn(schema), {ParamsTypeName(file)})>>
        \o (IF file.paramsFrom # Absent \/ file.toolSchema = <<>> THEN <<>>
            ELSE EmitParamsStruct(ParamsName(file.id), file.id, file.toolSchema))

EmitFile(file) ==
  CASE file.type = "prompt" -> <<Item("prompt", file.id, Placeholders(file), <<>>, {})>>
    [] file.type = "tool"   -> EmitTool(file)
    [] file.type = "params" -> EmitParamsStruct(file.id, file.id, file.toolSchema)

-----------------------------------------------------------------------------
Init ==
  /\ tree \in Trees
  /\ stage = "loading" /\ read = 0 /\ fault = "" /\ module = <<>>
  /\ scanned = 0 /\ sources = {} /\ failures = {}

Rejects(error) ==
  /\ stage' = "rejected" /\ fault' = error
  /\ UNCHANGED <<tree, read, module, scanned, sources, failures>>

(* The directory cannot be walked, or the next file cannot be read. *)
LoadFails == stage = "loading" /\ Rejects("Io")

LoadFile ==
  /\ stage = "loading" /\ read < Len(tree.files)
  /\ LET file  == tree.files[read + 1]
         found == ParseFile(file) ?? ValidateFile(file)
                  ?? Rule("DuplicateId", \E i \in DOMAIN Files : Files[i].id = file.id)
     IN  \/ found # "" /\ Rejects(found)
         \/ /\ found = ""
            /\ read' = read + 1
            /\ UNCHANGED <<tree, stage, fault, module, scanned, sources, failures>>

CheckFiles ==
  /\ stage = "loading" /\ read = Len(tree.files)
  /\ LET found == CheckParamsRefs ?? CheckUnreferencedParams ?? CheckWireNames ?? CheckDerivedNames
     IN  \/ found # "" /\ Rejects(found)
         \/ /\ found = ""
            /\ stage' = "loaded"
            /\ UNCHANGED <<tree, read, fault, module, scanned, sources, failures>>

(* PromptCodegen::generate and emit *)
Generate ==
  /\ stage = "loaded"
  /\ stage' = "generated"
  /\ module' = FlattenSeq([i \in DOMAIN Files |-> EmitFile(Files[i])])
  /\ UNCHANGED <<tree, read, fault, scanned, sources, failures>>

EmitFails == stage = "loaded" /\ Rejects("Io")

(* verify_annotations *)
ReadSource ==
  /\ stage = "loaded" /\ scanned < Len(tree.sources)
  /\ scanned' = scanned + 1
  /\ LET source == tree.sources[scanned']
     IN  \/ sources' = sources \cup {source} /\ UNCHANGED failures
         \/ failures' = failures \cup {[kind |-> "SourceIo", path |-> source.path]} /\ UNCHANGED sources
  /\ UNCHANGED <<tree, stage, read, fault, module>>

(* text.contains(id): the id may be part of a longer name. *)
Mentions(source, id) ==
  \E name \in source.ids : \E from \in 1..(Len(name) - Len(id) + 1) : SubSeq(name, from, from + Len(id) - 1) = id

Drift(kind, file, entry) == [kind |-> kind, prompt |-> file.id, entry |-> entry]

(* Bug: a file without the id is not searched for the function. *)
LacksMutant(source, file, entry) ==
  IF ~Mentions(source, file.id) THEN {"IdNotInFile"}
  ELSE IF entry.function \in source.functions THEN {} ELSE {"FunctionNotInFile"}

Lacks(source, file, entry) ==
  (IF Mentions(source, file.id) THEN {} ELSE {"IdNotInFile"})
    \cup (IF entry.function \in source.functions THEN {} ELSE {"FunctionNotInFile"})

DriftOf(file, entry) ==
  LET named == {s \in sources : s.path = entry.file}
      kinds == IF named = {} THEN {"MissingSourceFile"} ELSE UNION {Lacks(s, file, entry) : s \in named}
  IN  {Drift(kind, file, entry) : kind \in kinds}

Uses == UNION {{<<file, entry>> : entry \in Range(file.annotations.usedBy)} : file \in Range(Files)}

Orphans == {file \in Range(Files) : \A s \in sources : ~Mentions(s, file.id)}

Verify ==
  /\ stage = "loaded" /\ scanned = Len(tree.sources)
  /\ stage' = "verified"
  /\ failures' = failures \cup {[kind |-> "OrphanedPrompt", prompt |-> file.id] : file \in Orphans}
                   \cup UNION {DriftOf(use[1], use[2]) : use \in Uses}
  /\ UNCHANGED <<tree, read, fault, module, scanned, sources>>

Finished == stage \in {"rejected", "generated", "verified"} /\ UNCHANGED vars

Next == LoadFails \/ LoadFile \/ CheckFiles \/ Generate \/ EmitFails \/ ReadSource \/ Verify \/ Finished

Spec == Init /\ [][Next]_vars

-----------------------------------------------------------------------------
(***************************************************************************)
(* Properties                                                              *)
(***************************************************************************)
(* The module generated from a tree that loads is one Rust can resolve:    *)
(* no two items share a name, whatever ids, parameters and suffixes run    *)
(* together; each type a field or a tool refers to is one of its items;    *)
(* the schema a tool advertises and the type its arguments are parsed into *)
(* agree, field by field, also when it borrows another file's; and no      *)
(* struct has a field twice or named by a keyword.                         *)
ModuleResolves ==
  stage = "generated" =>
    /\ \A i, j \in DOMAIN module : module[i].name = module[j].name => i = j
    /\ \A item \in Range(module) :
         /\ \A ref \in item.refs :
              \/ ref = NoParams /\ item.kind = "tool" /\ item.fields = <<>>
              \/ \E other \in Range(module) :
                   /\ other.name = ref
                   /\ other.kind = IF item.kind = "tool" THEN "struct" ELSE "enum"
                   /\ item.kind = "tool" => other.fields = item.fields /\ other.required = item.required
         /\ item.kind \in {"prompt", "struct"} =>
              IsInjective(item.fields) /\ \A field \in Range(item.fields) : field \notin Keywords

Unread(source) == [kind |-> "SourceIo", path |-> source.path] \in failures

(* The verification reports all drift there is, however many other files   *)
(* drift or cannot be read: of each use of a prompt exactly what its file  *)
(* lacks, and a missing file if it is missing or was not read.  Without a  *)
(* failure each prompt is mentioned somewhere and each use is as it says.  *)
VerifyFindsDrift ==
  stage = "verified" =>
    /\ \A file \in Range(Files) : \A entry \in Range(file.annotations.usedBy) :
         LET readable == {s \in Range(tree.sources) : s.path = entry.file /\ ~Unread(s)}
             reported == {kind \in {"MissingSourceFile", "IdNotInFile", "FunctionNotInFile"} :
                            Drift(kind, file, entry) \in failures}
         IN  /\ "MissingSourceFile" \in reported <=> readable = {}
             /\ \A s \in readable : /\ "IdNotInFile" \in reported <=> ~Mentions(s, file.id)
                                    /\ "FunctionNotInFile" \in reported <=> entry.function \notin s.functions
    /\ failures = {} => \A file \in Range(Files) : \E s \in Range(tree.sources) : Mentions(s, file.id)

(* What is_valid_enum_value says: keywords are fine as enum values, since  *)
(* they become variants.  The one keyword in PascalCase is Self.           *)
KeywordsAreFine ==
  stage = "generated" =>
    \A item \in Range(module) : item.kind = "enum" =>
      \A variant \in Range(item.fields) : variant # <<[token |-> "self", capital |-> TRUE]>>
=============================================================================
