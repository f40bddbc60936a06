---------------------------- MODULE MCPromptTree ----------------------------
(* Prompt trees for TLC: one file for each rule it breaks, and up to three *)
(* valid files whose names run together in every way.                      *)
EXTENDS PromptTree

Cap(token) == [token |-> token, capital |-> TRUE]
Edit     == <<Cap("edit")>>
EditFile == <<Cap("edit"), Cap("file")>>
Mode     == <<Cap("edit"), Cap("file"), Cap("mode")>>
Params   == <<Cap("edit"), Cap("params")>>

Used(path, function) == [unknownKey |-> FALSE, file |-> path, function |-> function]
Entry(source, contents) == [unknownKey |-> FALSE, source |-> source, contents |-> contents]
Variable(name) == [name |-> name, entry |-> Entry("text", "text")]
Notes == [unknownKey |-> FALSE, sentWhen |-> "text", usedBy |-> <<Used("a.rs", "run")>>,
          variables |-> Absent, reasoning |-> <<"text">>]
Plain == [edgeSpace |-> FALSE, unterminated |-> FALSE, names |-> <<>>]

File(id, type, schema, target) ==
  [framing |-> "mapping", unknownKey |-> FALSE, stem |-> id, id |-> id, type |-> type, name |-> Absent,
   toolSchema |-> schema, paramsFrom |-> target, annotations |-> Notes, body |-> Plain]

Prompt(id)         == File(id, "prompt", Absent, Absent)
Tool(id, schema)   == File(id, "tool", schema, Absent)
Borrows(id, owner) == File(id, "tool", Absent, owner)
Owner(id, schema)  == [File(id, "params", schema, Absent) EXCEPT !.annotations.sentWhen = Absent]

Param(type, values) ==
  [unknownKey |-> FALSE, type |-> type, description |-> "text", optional |-> values # Absent, values |-> values]
Text(name)          == [name |-> name, param |-> Param("string", Absent)]
Choice(name, value) == [name |-> name, param |-> Param("enum", <<value>>)]

Template ==
  [Prompt(Edit) EXCEPT !.body.names = <<<<"x">>, <<"x", "1">>, <<"x">>>>,
                       !.annotations.variables = <<Variable(<<"x">>), Variable(<<"x", "1">>)>>]

Notable(file) ==
  {[file EXCEPT !.annotations = Absent], [file EXCEPT !.annotations = OtherType],
   [file EXCEPT !.annotations.unknownKey = TRUE],
   [file EXCEPT !.annotations.usedBy = Absent], [file EXCEPT !.annotations.usedBy = OtherType],
   [file EXCEPT !.annotations.usedBy = <<>>],
   [file EXCEPT !.annotations.usedBy = <<OtherType>>], [file EXCEPT !.annotations.usedBy[1].file = ""],
   [file EXCEPT !.annotations.usedBy[1].function = Absent],
   [file EXCEPT !.annotations.reasoning = Absent], [file EXCEPT !.annotations.reasoning = <<>>],
   [file EXCEPT !.annotations.reasoning = <<"text", "">>], [file EXCEPT !.annotations.reasoning = <<OtherType>>]}

BadFiles ==
  Notable(Prompt(Edit)) \cup
  {[Prompt(Edit) EXCEPT !.framing = f] : f \in {"undelimited", "not YAML", "not a mapping"}} \cup
  {[Prompt(Edit) EXCEPT !.id = id] : id \in {Absent, OtherType, EditFile, <<>>, <<[token |-> "1", capital |-> FALSE]>>}} \cup
  {[Prompt(Edit) EXCEPT !.type = t] : t \in {Absent, "other"}} \cup
  {[Prompt(Edit) EXCEPT !.body = b] : b \in
     {[Plain EXCEPT !.edgeSpace = TRUE], [Plain EXCEPT !.unterminated = TRUE], [Plain EXCEPT !.names = <<<<"type">>>>]}} \cup
  {[Prompt(Edit) EXCEPT !.name = <<"x">>], [Prompt(Edit) EXCEPT !.unknownKey = TRUE],
   [Prompt(Edit) EXCEPT !.annotations.sentWhen = Absent], [Prompt(Edit) EXCEPT !.annotations.sentWhen = ""],
   [Prompt(Edit) EXCEPT !.annotations.variables = <<Variable(<<"x">>)>>],
   [Template EXCEPT !.annotations.variables = Absent], [Template EXCEPT !.annotations.variables = Tail(@)],
   [Template EXCEPT !.annotations.variables[1].entry = OtherType],
   [Template EXCEPT !.annotations.variables[2].entry.source = ""],
   [Template EXCEPT !.annotations.variables = Append(@, Variable(<<"y">>))]} \cup
  {Tool(Edit, <<[Text(<<"x">>) EXCEPT !.param = p]>>) : p \in
     {OtherType, [Param("string", Absent) EXCEPT !.optional = OtherType], [Param("string", Absent) EXCEPT !.type = Absent],
      [Param("string", Absent) EXCEPT !.description = ""], [Param("string", Absent) EXCEPT !.description = "{{"],
      Param("string", <<<<"x">>>>), Param("other", Absent), Param("enum", Absent), Param("enum", <<>>),
      Param("enum", <<<<"1", "x">>>>), Param("enum", <<OtherType>>)}} \cup
  {Tool(Edit, <<Text(<<"type">>)>>), Tool(Edit, Absent), File(Edit, "tool", <<>>, Mode),
   [Tool(Edit, <<Text(OtherType)>>) EXCEPT !.body.edgeSpace = FALSE],
   [Tool(Edit, <<>>) EXCEPT !.body.names = <<<<"x">>>>], [Tool(Edit, <<>>) EXCEPT !.annotations.variables = <<>>],
   Owner(Edit, Absent), [Owner(Edit, <<>>) EXCEPT !.paramsFrom = Mode], [Owner(Edit, <<>>) EXCEPT !.body.unterminated = TRUE],
   [Owner(Edit, <<>>) EXCEPT !.annotations.sentWhen = "text"], [Owner(Edit, <<>>) EXCEPT !.annotations.variables = <<>>]}

GoodFiles ==
  {Prompt(Mode), Template, Prompt(Params),
   Tool(Edit, <<Choice(<<"file", "_", "mode">>, <<"type">>)>>), Tool(EditFile, <<>>),
   Tool(EditFile, <<Text(<<"x">>), Choice(<<"mode">>, <<"x">>)>>),
   Borrows(Edit, Mode), [Borrows(EditFile, Mode) EXCEPT !.name = <<"edit">>], [Borrows(Params, Mode) EXCEPT !.name = <<"edit">>],
   Owner(Mode, <<Text(<<"x">>), Choice(<<"x", "1">>, <<"x">>)>>), Owner(EditFile, <<Choice(<<"mode">>, <<"x">>)>>),
   Borrows(Params, EditFile)}

Source(path, ids, functions) == [path |-> path, ids |-> ids, functions |-> functions]
SourceSets ==
  {<<Source("a.rs", {EditFile, Mode, Params}, {"run"}), Source("b.rs", {}, {"run"})>>,
   <<Source("a.rs", {}, {}), Source("b.rs", {EditFile}, {"run"})>>}

MCTrees ==
  [files : {<<bad>> : bad \in BadFiles} \cup {<<Template, bad>> : bad \in BadFiles}, sources : {<<>>}]
  \cup [files : SeqOf(GoodFiles, 3), sources : SourceSets]

(* A tool with a choice between itself and others. *)
SelfTree == {[files |-> <<Tool(Edit, <<Choice(<<"mode">>, <<"self">>)>>)>>, sources |-> <<>>],
             [files |-> <<Tool(Edit, <<Choice(<<"mode">>, <<"type">>)>>)>>, sources |-> <<>>]}
=============================================================================
