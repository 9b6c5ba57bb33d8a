----------------------------- MODULE YamlCodec ------------------------------
(***************************************************************************)
(* YAML: the typed code generated for a struct drives an emitter of block  *)
(* style lines (yaml/codec.go); the text is parsed into a tree, which the  *)
(* generated reader walks (transformer/codec_typed.go).                    *)
(*                                                                         *)
(* A string is a word of some kind: "plain", "number" and "reserved" look  *)
(* like something else, "special" needs quotes, a "colon" word ends with a *)
(* colon and an "apostrophe" word holds one.  Text is a sequence of atoms; *)
(* the spaces between them are trimmed by everyone who reads them.         *)
(* Indentation is counted in levels of two spaces.                         *)
(***************************************************************************)
EXTENDS Naturals, Sequences, SequencesExt

CONSTANT Structs \* the structs with metadata: their fields, in order

Word(id, kind) == [id |-> id, kind |-> kind]
Atom(w, quoted) == [is |-> "word", word |-> w, quoted |-> quoted]
NullWord == Word("null", "reserved")
Dash == [is |-> "dash"]
Colon == [is |-> "colon"]

Prim(p) == <<"prim", p>>
OptionOf(t) == <<"option", t>>
ListOf(t) == <<"seq", t>>
MapOf(t) == <<"map", t>>
Struct(n) == <<"struct", n>>
Failed == <<"failed">>

-----------------------------------------------------------------------------
(* What the generated code can write and read.                              *)

RECURSIVE goTypeFor(_), Readable(_)
\* Can the type be named in the generated Go?
goTypeFor(t) == CASE t[1] \in {"prim", "struct"} -> TRUE
                  [] t[1] \in {"option", "seq", "map"} -> goTypeFor(t[2])
                  [] OTHER -> FALSE
genElementWrite(t) == t[1] # "struct" => t[1] # "other"
Readable(t) == CASE t[1] \in {"prim", "struct"} -> TRUE
                 [] t[1] = "option" -> t[2][1] = "prim"
                 [] t[1] \in {"seq", "map"} -> goTypeFor(t[2]) /\ Readable(t[2])
                 [] OTHER -> FALSE

\* The keys of a nested struct, and those of the outermost with its overrides;
\* << >> omits the field.
NestedKeys(n, naming) == [i \in DOMAIN Structs[n] |-> <<naming[Structs[n][i].name]>>]
BuildKeys(n, config) ==
  [i \in DOMAIN Structs[n] |->
     LET f == Structs[n][i].name
     IN IF f \in config.omits THEN << >>
        ELSE IF f \in DOMAIN config.renames THEN <<config.renames[f]>>
        ELSE <<config.naming[f]>>]

-----------------------------------------------------------------------------
(* The calls of the encoder that the generated writer makes.                *)

Null == <<"scalar", Atom(NullWord, FALSE)>>
isPlainSafe(w) == w.kind # "special"
looksReserved(w) == w.kind \in {"number", "reserved"}
plainOrQuoted(w) == Atom(w, ~isPlainSafe(w))
encodeString(w) == Atom(w, ~isPlainSafe(w) \/ looksReserved(w))
WritePrim(p, v) == <<"scalar", IF p = "string" THEN encodeString(v[2]) ELSE Atom(v[2], FALSE)>>

genOptionWrite(t, v) ==
  IF t[1] = "prim" /\ v[1] = "some" THEN <<WritePrim(t[2], v[2])>> ELSE <<Null>>
genCollectionWrite(elements) ==
  << <<"startArray">> >> \o FlattenSeq(elements) \o << <<"endArray">> >>
genHashMapWrite(keys, values) ==
  << <<"startObject">> >> \o FlattenSeq([i \in DOMAIN keys |-> << <<"key", keys[i]>> >> \o values[i]])
    \o << <<"endObject">> >>

RECURSIVE Write(_, _, _), WriteFields(_, _, _, _)
Write(t, v, naming) ==
  CASE t[1] = "prim" -> <<WritePrim(t[2], v)>>
    [] t[1] = "option" -> genOptionWrite(t[2], v)
    [] t[1] \in {"seq", "map"} /\ ~(goTypeFor(t[2]) /\ genElementWrite(t[2])) -> <<Null>>
    [] t[1] = "seq" -> genCollectionWrite([i \in DOMAIN v[2] |-> Write(t[2], v[2][i], naming)])
    [] t[1] = "map" -> genHashMapWrite([i \in DOMAIN v[2] |-> v[2][i][1]],
                                       [i \in DOMAIN v[2] |-> Write(t[2], v[2][i][2], naming)])
    [] t[1] = "struct" -> WriteFields(t[2], v, NestedKeys(t[2], naming), naming)
    [] OTHER -> <<Null>>
WriteFields(n, v, keys, naming) ==
  << <<"startObject">> >>
    \o FlattenSeq([i \in DOMAIN Structs[n] |->
                     IF keys[i] = << >> THEN << >>
                     ELSE << <<"key", keys[i][1]>> >> \o Write(Structs[n][i].type, v[2][i], naming)])
    \o << <<"endObject">> >>

-----------------------------------------------------------------------------
(* The emitter.  The open line has no newline yet.                          *)

NoLine == [indent |-> 0, text |-> << >>]
NewYamlEncoder == [depth |-> 0, stack |-> << >>, pendingKey |-> << >>, inlineNextKey |-> FALSE,
                   startedDoc |-> FALSE, lines |-> << >>, open |-> NoLine]
topFrame(e) == IF e.stack = << >> THEN "r" ELSE Last(e.stack)

Put(e, atoms) == [e EXCEPT !.open.text = @ \o atoms]
writeIndent(e) == IF e.open.text = << >> THEN [e EXCEPT !.open.indent = e.depth] ELSE e
NewLine(e) == [e EXCEPT !.lines = Append(@, e.open), !.open = NoLine]

emitKeyHeader(e) ==
  LET atoms == <<plainOrQuoted(e.pendingKey[1]), Colon>>
  IN IF e.inlineNextKey THEN [Put(e, atoms) EXCEPT !.inlineNextKey = FALSE, !.pendingKey = << >>]
     ELSE [Put(writeIndent(e), atoms) EXCEPT !.pendingKey = << >>]
Deeper(e) == [e EXCEPT !.depth = @ + 1]

startContainerPrelude(e, isObject) ==
  IF e.stack = << >> /\ ~e.startedDoc THEN [e EXCEPT !.startedDoc = TRUE]
  ELSE IF e.pendingKey # << >> THEN Deeper(NewLine(emitKeyHeader(e)))
  ELSE IF isObject THEN [Deeper(Put(writeIndent(e), <<Dash>>)) EXCEPT !.inlineNextKey = TRUE]
  ELSE Deeper(NewLine(Put(writeIndent(e), <<Dash>>)))
\* Mutant: the end of a container does not go back to the left.
WriteEndStaying(e) == [e EXCEPT !.stack = Front(@)]
WriteEnd(e) ==
  LET popped == [e EXCEPT !.stack = Front(@)]
  IN IF topFrame(popped) # "r" /\ e.depth > 0 THEN [popped EXCEPT !.depth = @ - 1] ELSE popped
writeScalar(e, atom) ==
  NewLine(Put(IF e.pendingKey # << >> THEN emitKeyHeader(e)
              ELSE IF topFrame(e) = "a" THEN Put(writeIndent(e), <<Dash>>) ELSE e,
              <<atom>>))

Emit(e, call) ==
  CASE call[1] = "key" -> [e EXCEPT !.pendingKey = <<call[2]>>]
    [] call[1] = "scalar" -> writeScalar(e, call[2])
    [] call[1] = "startObject" -> [startContainerPrelude(e, TRUE) EXCEPT !.stack = Append(@, "o")]
    [] call[1] = "startArray" -> [startContainerPrelude(e, FALSE) EXCEPT !.stack = Append(@, "a")]
    [] call[1] = "endObject" -> [WriteEnd(e) EXCEPT !.inlineNextKey = FALSE]
    [] call[1] = "endArray" -> WriteEnd(e)

\* The significant lines of the text.
Lines(calls) ==
  LET e == FoldLeft(Emit, NewYamlEncoder, calls)
  IN IF e.open.text = << >> THEN e.lines ELSE Append(e.lines, e.open)

-----------------------------------------------------------------------------
(* The parser: every part returns the line it has come to, or panics.       *)

Done(node, next) == [ok |-> TRUE, node |-> node, next |-> next]
Panic == [ok |-> FALSE]
Scalar(text) == <<"scalar", text, FALSE>>
NullNode == <<"scalar", << >>, TRUE>>

Unquoted(text) == [i \in DOMAIN text |-> IF text[i].is = "word" THEN text[i].word ELSE text[i]]
parseInlineScalar(text) ==
  IF text = << >> \/ text = <<Atom(NullWord, FALSE)>> THEN NullNode ELSE Scalar(Unquoted(text))

\* Does the i-th atom hold or open an apostrophe, and does it end with the colon
\* that is looked for?
Apostrophes(text, i) ==
  Len(SelectSeq(SubSeq(text, 1, i - 1),
                LAMBDA a : a.is = "word" /\ ~a.quoted /\ a.word.kind = "apostrophe"))
ColonAt(text, i) ==
  /\ \/ text[i] = Colon
     \/ i = Len(text) /\ text[i].is = "word" /\ ~text[i].quoted /\ text[i].word.kind = "colon"
  /\ Apostrophes(text, i) % 2 = 0
findUnquotedColon(text) ==
  LET at == {i \in DOMAIN text : ColonAt(text, i)}
  IN IF at = {} THEN 0 ELSE CHOOSE i \in at : \A j \in at : i <= j

NoEntry == [ok |-> FALSE]
AnEntry(key, value) == [ok |-> TRUE, key |-> key, value |-> value]
tryParseKeyValue(text) ==
  IF text[1].is = "word" /\ text[1].quoted
  THEN IF Len(text) > 1 /\ text[2] = Colon THEN AnEntry(Unquoted(<<text[1]>>), SubSeq(text, 3, Len(text)))
       ELSE NoEntry
  ELSE LET c == findUnquotedColon(text)
       IN IF c = 0 THEN NoEntry
          ELSE IF text[c] = Colon
          THEN AnEntry(Unquoted(SubSeq(text, 1, c - 1)), SubSeq(text, c + 1, Len(text)))
          ELSE AnEntry(Append(Unquoted(SubSeq(text, 1, c - 1)), Word(text[c].word.id, "plain")), << >>)

isSequenceLine(line) == line.text[1] = Dash

\* parsed[i, indent, part] is what starts at line i: part "block", "entries" or
\* "items".
Below(parsed, lines, i, indent) ==
  IF i + 1 > Len(lines) \/ lines[i + 1].indent <= indent THEN Done(NullNode, i + 1)
  ELSE parsed[i + 1, lines[i + 1].indent, "block"]
ValueOf(parsed, lines, i, indent, text) ==
  IF text # << >> THEN Done(parseInlineScalar(text), i + 1) ELSE Below(parsed, lines, i, indent)

\* One part and the list of those that follow it.
Then(part, rest, first) ==
  IF ~part.ok \/ ~rest.ok THEN Panic ELSE Done(<<first>> \o rest.node, rest.next)
Rest(parsed, part, indent, which) == IF part.ok THEN parsed[part.next, indent, which] ELSE Panic
As(tag, result) == IF result.ok THEN Done(<<tag, result.node>>, result.next) ELSE Panic

parseEntry(parsed, lines, i, indent) ==
  LET entry == tryParseKeyValue(lines[i].text)
      value == ValueOf(parsed, lines, i, indent, entry.value)
  IN IF ~entry.ok THEN Panic
     ELSE Then(value, Rest(parsed, value, indent, "entries"), <<entry.key, value.node>>)

\* The first pair is on the line of the dash; the others follow only a scalar.
parseCompactMapping(parsed, lines, i, indent, entry) ==
  IF entry.value = << >>
  THEN LET child == Below(parsed, lines, i, indent + 1)
       IN As("map", Then(child, Done(<< >>, IF child.ok THEN child.next ELSE i), <<entry.key, child.node>>))
  ELSE As("map", Then(Done(<< >>, i), parsed[i + 1, indent + 1, "entries"],
                      <<entry.key, parseInlineScalar(entry.value)>>))
parseItem(parsed, lines, i, indent) ==
  LET text == Tail(lines[i].text)
      entry == tryParseKeyValue(text)
      item == IF text # << >> /\ entry.ok THEN parseCompactMapping(parsed, lines, i, indent, entry)
              ELSE ValueOf(parsed, lines, i, indent, text)
  IN Then(item, Rest(parsed, item, indent, "items"), item.node)

parseBlock(lines) ==
  LET levels == 0 .. Len(lines) + 1
      parsed[i \in 1 .. Len(lines) + 1, indent \in levels, part \in {"block", "entries", "items"}] ==
        IF part = "block"
        THEN IF isSequenceLine(lines[i]) THEN As("seq", parsed[i, indent, "items"])
             ELSE As("map", parsed[i, indent, "entries"])
        ELSE IF i > Len(lines) \/ (i <= Len(lines) /\ lines[i].indent < indent) THEN Done(<< >>, i)
        ELSE IF lines[i].indent > indent THEN Panic
        ELSE IF isSequenceLine(lines[i]) # (part = "items") THEN Done(<< >>, i)
        ELSE IF part = "items" THEN parseItem(parsed, lines, i, indent)
        ELSE parseEntry(parsed, lines, i, indent)
  IN parsed[1, lines[1].indent, "block"]

parseYAML(lines) ==
  IF lines = << >> THEN <<"map", << >> >>
  ELSE LET block == parseBlock(lines)
       IN IF block.ok /\ block.next = Len(lines) + 1 THEN block.node ELSE Failed

-----------------------------------------------------------------------------
(* The reader.  A null stands for an empty container, too.                  *)

RECURSIVE Zero(_)
Zero(t) == CASE t[1] = "prim" -> <<"prim", IF t[2] = "string" THEN Word("", "special") ELSE Word("0", "number")>>
             [] t[1] = "option" -> <<"none">>
             [] t[1] = "seq" -> <<"seq", << >> >>
             [] t[1] = "map" -> <<"map", << >> >>
             [] t[1] = "struct" -> <<"struct", [i \in DOMAIN Structs[t[2]] |-> Zero(Structs[t[2]][i].type)]>>
             [] OTHER -> <<"nothing">>

IsNull(node) == node[1] = "scalar" /\ node[3]
StartObject(node) == IF node[1] = "map" THEN node[2] ELSE << >>
ReadPrim(p, node) ==
  IF node[1] # "scalar" THEN Failed
  ELSE IF Len(node[2]) = 1 /\ (p = "int" => node[2][1].kind = "number") THEN <<"prim", node[2][1]>>
  ELSE IF p = "string" /\ node[2] = << >> THEN Zero(Prim("string"))
  ELSE Failed

Whole(tag, values) == IF \E i \in DOMAIN values : values[i] = Failed THEN Failed ELSE <<tag, values>>
\* The last pair that belongs to field i; lookup names the field of a key.
lookup(keys, key) ==
  LET found == {i \in DOMAIN keys : keys[i] = key}
  IN IF found = {} THEN 0 ELSE CHOOSE i \in found : \A j \in found : i <= j

genOptionRead(t, node) ==
  IF IsNull(node) THEN <<"none">>
  ELSE LET v == ReadPrim(t[2], node) IN IF v = Failed THEN Failed ELSE <<"some", v>>
genHashMapRead(pairs, values) ==
  IF Whole("map", values) = Failed THEN Failed
  ELSE <<"map", [i \in DOMAIN pairs |->
                   <<IF Len(pairs[i][1]) = 1 THEN pairs[i][1][1] ELSE pairs[i][1], values[i]>>]>>

RECURSIVE Read(_, _, _), ReadFields(_, _, _, _)
Read(t, node, naming) ==
  CASE t[1] = "prim" -> ReadPrim(t[2], node)
    [] t[1] = "option" -> genOptionRead(t[2], node)
    [] t[1] = "seq" ->
         IF IsNull(node) THEN <<"seq", << >> >>
         ELSE IF node[1] # "seq" THEN Failed
         ELSE Whole("seq", [i \in DOMAIN node[2] |-> Read(t[2], node[2][i], naming)])
    [] t[1] = "map" ->
         IF ~IsNull(node) /\ node[1] # "map" THEN Failed
         ELSE LET pairs == StartObject(node)
              IN genHashMapRead(pairs, [i \in DOMAIN pairs |-> Read(t[2], pairs[i][2], naming)])
    [] t[1] = "struct" -> ReadFields(t[2], node, NestedKeys(t[2], naming), naming)
ReadFields(n, node, keys, naming) ==
  IF ~IsNull(node) /\ node[1] # "map" THEN Failed
  ELSE LET pairs == StartObject(node)
           Of(i) == {k \in DOMAIN pairs : lookup(keys, pairs[k][1]) = i}
           field(i) == LET t == Structs[n][i].type
                       IN IF Of(i) = {} \/ ~Readable(t) THEN Zero(t)
                          ELSE Read(t, pairs[CHOOSE k \in Of(i) : \A l \in Of(i) : k >= l][2], naming)
       IN Whole("struct", [i \in DOMAIN Structs[n] |-> field(i)])

\* The text of a value, as lines, and what is read from them.
Encode(n, v, config) == Lines(WriteFields(n, v, BuildKeys(n, config), config.naming))
Decode(n, lines, config) ==
  LET node == parseYAML(lines)
  IN IF node = Failed THEN Failed ELSE ReadFields(n, node, BuildKeys(n, config), config.naming)

-----------------------------------------------------------------------------
(* What round-trips.                                                        *)

DistinctKeys(keys) ==
  \A i, j \in DOMAIN keys : keys[i] = keys[j] /\ keys[i] # << >> => i = j
KeysAreGood(keys) ==
  DistinctKeys(keys) /\ \A i \in DOMAIN keys : keys[i] # << >> => keys[i][1].kind # "apostrophe"

\* A mapping that is an element: its first pair goes on the line of the dash.
RECURSIVE Expressible(_, _, _)
StartsWithScalar(t, v) ==
  CASE t[1] = "struct" -> Structs[t[2]][1].type[1] \in {"prim", "option"}
    [] t[1] = "map" -> v[2] # << >> /\ t[2][1] \in {"prim", "option"}
    [] t[1] = "prim" -> v[2].kind # "colon" \/ t[2] = "int"
    [] t[1] = "option" -> v[1] = "some" => v[2][2].kind # "colon"
    [] OTHER -> TRUE
Expressible(t, v, naming) ==
  CASE t[1] = "seq" -> \A i \in DOMAIN v[2] : /\ StartsWithScalar(t[2], v[2][i])
                                              /\ Expressible(t[2], v[2][i], naming)
    [] t[1] = "map" -> \A i \in DOMAIN v[2] : /\ v[2][i][1].kind # "apostrophe"
                                              /\ Expressible(t[2], v[2][i][2], naming)
    [] t[1] = "struct" -> /\ KeysAreGood(NestedKeys(t[2], naming))
                          /\ \A i \in DOMAIN v[2] :
                               LET ft == Structs[t[2]][i].type
                               IN Readable(ft) /\ Expressible(ft, v[2][i], naming)
    [] OTHER -> TRUE

WithoutOmitted(n, v, config) ==
  <<"struct", [i \in DOMAIN v[2] |-> LET f == Structs[n][i]
                                    IN IF f.name \in config.omits \/ ~Readable(f.type) THEN Zero(f.type)
                                       ELSE v[2][i]]>>

\* What is read back is what was written, but for the fields that are omitted
\* and those of a type the generated code passes over.
RoundTrip(n, v, config) == Decode(n, Encode(n, v, config), config) = WithoutOmitted(n, v, config)

\* Every value that block style can express this way comes back.
RoundTrips(n, v, config) ==
  LET written(i) == Structs[n][i].name \notin config.omits
  IN (/\ KeysAreGood(BuildKeys(n, config))
      /\ \A i \in DOMAIN v[2] : written(i) => Expressible(Structs[n][i].type, v[2][i], config.naming))
     => RoundTrip(n, v, config)

\* "the round-trip is fully unambiguous" (yaml/codec.go:43), for all values; an
\* element that starts with a container does not come back.
RoundTripIsUnambiguous(n, v, config) ==
  (/\ KeysAreGood(BuildKeys(n, config))
   /\ \A f, g \in DOMAIN config.naming : config.naming[f] = config.naming[g] => f = g)
  => RoundTrip(n, v, config)
=============================================================================
