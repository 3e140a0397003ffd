------------------------------- MODULE CodeGraph -------------------------------
(***************************************************************************)
(* From a source of structure to a flow: the rows of a CSV (csv.ts), the   *)
(* lines of a text (localTextToFlow), and the modules, the functions or    *)
(* the control flow of a program (packages/codegraph).                     *)
(*                                                                         *)
(* Identifiers are sequences: identificador turns a name into its base and *)
(* appends the digest of the whole name when the base is taken.  A program *)
(* is what the adapters read in it: specifiers of imports, names of        *)
(* callees, and the statements of a body.                                  *)
(***************************************************************************)
EXTENDS FlowGraph

NewNode(id, type, category, place) ==
  [id |-> id, type |-> type, category |-> category, position |-> place, locked |-> FALSE,
   inputs  |-> IF type \in {"trigger", "group"} THEN 0 ELSE 1,
   outputs |-> IF type \in {"end", "group"} THEN 0 ELSE 1]

NewEdge(id, source, target) ==
  [id |-> id, source |-> source, target |-> target, port |-> 1, isDefault |-> FALSE, conditional |-> FALSE]

identificador(base, name, used) == IF base \in used THEN Append(base, name) ELSE base

Refused == [nodes |-> <<>>, edges |-> <<>>]      \* an error is thrown

-------------------------------------------------------------------------------
(* csv.ts and localTextToFlow: rows of an id, a type and destinations, and *)
(* lines that are a question or not.                                       *)

Tipos == {"trigger", "process", "decision", "data", "integration", "delay", "end", "group"}

Mentioned(rows) == UNION {ToSet(rows[i].targets) : i \in DOMAIN rows}
Malformed(rows) ==
  \/ \E i \in DOMAIN rows : rows[i].id = <<>> \/ rows[i].type \notin Tipos
  \/ ~ Mentioned(rows) \subseteq {rows[i].id : i \in DOMAIN rows}

Connections(rows) ==
  FlattenSeq([i \in DOMAIN rows |-> [k \in DOMAIN rows[i].targets |-> <<rows[i].id, rows[i].targets[k]>>]])

LastOfItsNode(edges, k) == \A j \in (k + 1)..Len(edges) : edges[j].source # edges[k].source

parseFlowCsv(rows) ==
  LET nodes     == [i \in DOMAIN rows |-> NewNode(rows[i].id, rows[i].type, "csv", <<"csv", i>>)]
      links     == Connections(rows)
      edges     == [k \in DOMAIN links |-> NewEdge(<<"c", k>>, links[k][1], links[k][2])]
      decisions == {n.id : n \in {m \in ToSet(nodes) : m.type = "decision"}}
  IN  IF rows = <<>> \/ Malformed(rows) THEN Refused
      ELSE [nodes |-> nodes,
            edges |-> [k \in DOMAIN edges |->
                        [edges[k] EXCEPT !.isDefault = edges[k].source \in decisions /\ LastOfItsNode(edges, k)]]]

localTextToFlow(lines) ==
  LET steps == IF lines = <<>> THEN <<"plain", "plain", "plain">> ELSE lines
      Type(i) == CASE i = 1 -> "trigger"
                   [] i > 1 /\ i = Len(steps) -> "end"
                   [] i > 1 /\ i < Len(steps) -> IF steps[i] = "question" THEN "decision" ELSE "process"
  IN  [nodes |-> [i \in DOMAIN steps |-> NewNode(<<"ai", i>>, Type(i), "propuesta", <<"text", i>>)],
       edges |-> [i \in 1..(Len(steps) - 1) |-> NewEdge(<<"ai-edge", i>>, <<"ai", i>>, <<"ai", i + 1>>)]]

-------------------------------------------------------------------------------
(* Modules: analizarTypeScript reads the imports of each file; the files   *)
(* are [name, base, directory], and an import names a file or a package.   *)

Role(specifiers) ==
  LET telling == SelectSeq(specifiers, LAMBDA s : s \in {"persistence", "service"})
  IN  IF telling = <<>> THEN "process" ELSE IF Head(telling) = "persistence" THEN "data" ELSE "integration"

References(files, imports) ==
  LET names == {files[i].name : i \in DOMAIN files}
      Of(i) == LET own == SelectSeq(imports[i], LAMBDA s : s \in names \ {files[i].name})
               IN  [k \in DOMAIN own |-> [from |-> files[i].name, to |-> own[k]]]
  IN  FlattenSeq([i \in DOMAIN files |-> Of(i)])

Importers(references, name) == {r.from : r \in {x \in ToSet(references) : x.to = name}}
Imported(references, name)  == LET own == SelectSeq(references, LAMBDA r : r.from = name)
                               IN  [k \in DOMAIN own |-> own[k].to]
Roots(files, references)  == SelectSeq(files, LAMBDA f : Importers(references, f.name) = {})
Leaves(files, references) == SelectSeq(files, LAMBDA f : Imported(references, f.name) = <<>>)

\* Identifiers given one after the other: what was given so far and what each name got.
Named(bases, names, used) ==
  LET Give(s, i) == LET id == identificador(bases[i], names[i], s.used)
                    IN  [used |-> s.used \cup {id}, ids |-> Append(s.ids, id)]
  IN  FoldLeft(Give, [used |-> used, ids |-> <<>>], [i \in DOMAIN bases |-> i])

\* The edges of the pairs, in order.
Joined(pairs, used) ==
  LET bases == [k \in DOMAIN pairs |-> <<"c">> \o pairs[k][1] \o pairs[k][2]]
      ids   == Named(bases, [k \in DOMAIN pairs |-> "again"], used).ids
  IN  [k \in DOMAIN pairs |-> NewEdge(ids[k], pairs[k][1], pairs[k][2])]

Position(f, files) == SelectInSeq(files, LAMBDA g : g.name = f)

extraerModulos(files, imports, depth) ==
  LET references  == References(files, imports)
      modules     == Named([i \in DOMAIN files |-> <<files[i].base>>], [i \in DOMAIN files |-> files[i].name], {})
      Id(name)    == modules.ids[Position(name, files)]
      directories == SetToSeq({files[i].directory : i \in DOMAIN files})
      groups      == Named([i \in DOMAIN directories |-> <<"group", directories[i]>>], directories, modules.used)
      entry == <<"entry">>  finish == <<"finish">>
      Layer(name)  == IF name \in DOMAIN depth THEN depth[name] ELSE 1
      Row(i)       == Cardinality({j \in 1..i : Layer(files[j].name) = Layer(files[i].name)})
      roots == Roots(files, references)  leaves == Leaves(files, references)
      pairs == [k \in DOMAIN roots |-> <<entry, Id(roots[k].name)>>]
               \o [k \in DOMAIN references |-> <<Id(references[k].from), Id(references[k].to)>>]
               \o [k \in DOMAIN leaves |-> <<Id(leaves[k].name), finish>>]
  IN  [nodes |-> <<NewNode(entry, "trigger", "analysis", entry)>>
                 \o [i \in DOMAIN directories |-> NewNode(groups.ids[i], "group", directories[i], <<"group", i>>)]
                 \o [i \in DOMAIN files |-> NewNode(modules.ids[i], Role(imports[i]), "file",
                                                    <<Layer(files[i].name), Row(i)>>)]
                 \o <<NewNode(finish, "end", "analysis", finish)>>,
       edges |-> Joined(pairs, groups.used)]
-------------------------------------------------------------------------------
(* Functions: [name, file, role, calls], where calls names the callees in  *)
(* the order of the source; included are the files that --incluir and      *)
(* --excluir let pass.                                                     *)

analizarFunciones(functions) ==
  LET own == {functions[i].name : i \in DOMAIN functions}
      Of(i) == LET kept == SelectSeq(functions[i].calls, LAMBDA c : c \in own \ {functions[i].name})
               IN  [k \in DOMAIN kept |-> [from |-> functions[i].name, to |-> kept[k]]]
  IN  FlattenSeq([i \in DOMAIN functions |-> Of(i)])

Within(calls, names) == SelectSeq(calls, LAMBDA c : {c.from, c.to} \subseteq names)

extraerFunciones(functions, included) ==
  LET kept   == SelectSeq(functions, LAMBDA f : f.file \in included)
      names  == {kept[i].name : i \in DOMAIN kept}
      calls  == Within(analizarFunciones(functions), names)
      distinct == SelectSeq([i \in DOMAIN kept |-> i], LAMBDA i : \A j \in 1..(i - 1) : kept[j].name # kept[i].name)
      node   == [k \in DOMAIN distinct |-> kept[distinct[k]]]
      roots  == SelectSeq(kept, LAMBDA f : \A k \in DOMAIN calls : calls[k].to # f.name)
      leaves == SelectSeq(kept, LAMBDA f : \A k \in DOMAIN calls : calls[k].from # f.name)
      entry == <<"entry">>  finish == <<"finish">>
      pairs == [k \in DOMAIN roots |-> <<entry, <<roots[k].name>>>>]
               \o [k \in DOMAIN calls |-> <<<<calls[k].from>>, <<calls[k].to>>>>]
               \o [k \in DOMAIN leaves |-> <<<<leaves[k].name>>, finish>>]
  IN  [nodes |-> <<NewNode(entry, "trigger", "function", entry)>>
                 \o [k \in DOMAIN node |-> NewNode(<<node[k].name>>, node[k].role, "function", <<"function", distinct[k]>>)]
                 \o <<NewNode(finish, "end", "function", finish)>>,
       edges |-> [k \in DOMAIN pairs |-> NewEdge(<<"c">> \o pairs[k][1] \o pairs[k][2], pairs[k][1], pairs[k][2])]]

-------------------------------------------------------------------------------
(* Journey: a statement is [kind, then, else], with two blocks if it is an *)
(* if and the block NoElse when it has no else.  A step is [class, next],  *)
(* and its identifier is its place.                                        *)

NoElse == <<[kind |-> "no else", then |-> <<>>, else |-> <<>>]>>

Step(class) == [class |-> class, next |-> <<>>]
Linked(steps, from, to) == [steps EXCEPT ![from].next = Append(@, to)]
Add(s, class) == Linked(Append(s.steps, Step(class)), s.previous, Len(s.steps) + 1)
At(steps, previous) == [steps |-> steps, previous |-> previous]

ClassOf(kind) == CASE kind = "throw" -> "fin_error" [] kind = "return" -> "fin_ok"
                   [] kind = "loop" -> "bucle" [] OTHER -> kind

JoinBranch(steps, last, join) == Linked(steps, last, join)

RECURSIVE recorrer(_, _)
recorrer(block, s) ==
  LET Statement(t, statement) ==
        LET id == Len(t.steps) + 1
            join == id + 1
            opened == Append(Add(t, "decision"), Step("proceso"))
            yes == recorrer(statement.then, At(opened, id))
            no  == IF statement.else = NoElse
                   THEN At(JoinBranch(yes.steps, yes.previous, join), id)
                   ELSE recorrer(statement.else, At(JoinBranch(yes.steps, yes.previous, join), id))
        IN  CASE statement.kind = "if" -> At(JoinBranch(no.steps, no.previous, join), join)
              [] statement.kind \in {"throw", "return"} -> At(Add(t, ClassOf(statement.kind)), t.previous)
              [] OTHER -> At(Add(t, ClassOf(statement.kind)), id)
  IN  FoldLeft(Statement, s, block)

extraerRecorrido(body) ==
  LET walked == recorrer(body, At(<<Step("entrada")>>, 1))
  IN  IF walked.steps[walked.previous].next = <<>> THEN Add(walked, "fin_ok") ELSE walked.steps

TypeOfClass(class) ==
  CASE class = "entrada" -> "trigger" [] class = "proceso" -> "process" [] class = "decision" -> "decision"
    [] class = "integracion" -> "integration" [] class = "datos" -> "data" [] class = "bucle" -> "delay"
    [] class \in {"fin_ok", "fin_error"} -> "end"

extraerRecorridoDeNegocio(steps) ==
  LET Node(i) == LET type == TypeOfClass(steps[i].class)
                     exits == Len(steps[i].next)
                 IN  [NewNode(<<i>>, type, steps[i].class, <<"step", i>>) EXCEPT
                        !.outputs = IF type # "decision" THEN @ ELSE IF exits = 0 THEN 1 ELSE exits]
      Exits(i) == [k \in DOMAIN steps[i].next |->
                    LET decides == steps[i].class = "decision"
                    IN  [NewEdge(<<i, steps[i].next[k], k>>, <<i>>, <<steps[i].next[k]>>) EXCEPT
                           !.port = IF decides THEN k ELSE 1,
                           !.isDefault = decides /\ k = Len(steps[i].next)]]
  IN  [nodes |-> [i \in DOMAIN steps |-> Node(i)],
       edges |-> FlattenSeq([i \in DOMAIN steps |-> Exits(i)])]
===============================================================================
