------------------------------ MODULE LuaText ------------------------------
(***************************************************************************)
(* The reference for LuaReader: a SavedVariables file as the game means it, *)
(* its text in the ways a file may be written, and the value each global    *)
(* has. Nothing here reads a byte: the text is written from the values.     *)
(*                                                                         *)
(* A global is <<name, value>>. A value is a scalar as LuaReader has it, or *)
(* <<"tab", entries>>. An entry is [form, key, value]: "list" has the next  *)
(* index as its key, "key" is [key] = value and "name" is name = value.     *)
(***************************************************************************)
EXTENDS LuaReader

IsTable(v) == v[1] = "tab"

-----------------------------------------------------------------------------
(* The text. A style has the gap between tokens, the separator of entries,  *)
(* whether one ends the table too, and how strings are quoted.              *)

\* A string with its line feeds as the quotes take them.
QuotedText(s, style) ==
  LET inner(lf) == FoldLeft(LAMBDA t, c : t \o (IF c = "LF" THEN lf ELSE <<c>>), <<>>, s)
  IN CASE style.quote = "long" -> <<"[", "=", "[", "LF">> \o inner(<<"LF">>) \o <<"]", "=", "]">>
       [] style.quote = "dquote" -> <<"dquote">> \o inner(<<"bslash", "n">>) \o <<"dquote">>
       [] style.quote = "squote" -> <<"squote">> \o inner(<<"bslash", "1", "0">>) \o <<"squote">>
ScalarText(v, style) ==
  CASE v = Nil -> <<"n", "i", "l">>
    [] v[1] = "str" -> QuotedText(v[2], style)
    [] OTHER -> TextOf(v)

RECURSIVE ValueText(_, _)
EntryText(e, style) ==
  LET g == style.gap
      equals == g \o <<"=">> \o g
  IN (CASE e.form = "list" -> <<>>
        [] e.form = "name" -> e.key[2] \o equals
        [] e.form = "key" -> <<"[">> \o g \o ScalarText(e.key, style) \o g \o <<"]">> \o equals)
     \o ValueText(e.value, style)
ValueText(v, style) ==
  LET n == Len(v[2])
      sep(i) == style.gap \o (IF i < n \/ style.ends THEN <<style.sep>> ELSE <<>>)
  IN IF ~IsTable(v) THEN ScalarText(v, style)
     ELSE <<"{">> \o FlattenSeq([i \in DOMAIN v[2] |-> style.gap \o EntryText(v[2][i], style) \o sep(i)])
          \o style.gap \o <<"}">>

NameText(global, style) == global[1] \o style.gap \o <<"=">> \o style.gap
GlobalText(global, style) == NameText(global, style) \o ValueText(global[2], style) \o style.gap \o <<";">>
FileText(globals, style) == FlattenSeq([i \in DOMAIN globals |-> style.gap \o GlobalText(globals[i], style)])

-----------------------------------------------------------------------------
(* The meaning *)

\* The last write of each key wins, and nil is no value.
Written(writes) ==
  LET last(i) == \A j \in i + 1..Len(writes) : writes[j][1] # writes[i][1]
  IN {writes[i] : i \in {k \in DOMAIN writes : last(k) /\ writes[k][2] # Nil}}

RECURSIVE Meaning(_)
Meaning(v) ==
  LET index(i) == Cardinality({j \in 1..i : v[2][j].form = "list"})
      keyOf(i) == IF v[2][i].form = "list" THEN Decimal(index(i), 0) ELSE v[2][i].key
      written == Written([i \in DOMAIN v[2] |-> <<keyOf(i), Meaning(v[2][i].value)>>])
      n == Cardinality(written)
      at(k) == (CHOOSE w \in written : w[1] = Decimal(k, 0))[2]
  IN IF ~IsTable(v) THEN v
     ELSE IF n > 0 /\ {w[1] : w \in written} = {Decimal(k, 0) : k \in 1..n} THEN Arr([k \in 1..n |-> at(k)])
     ELSE Obj({<<TextOf(w[1]), w[2]>> : w \in written})
FileMeaning(globals) == Written([i \in DOMAIN globals |-> <<Str(globals[i][1]), Meaning(globals[i][2])>>])

RECURSIVE Depth(_), ValueCount(_)
Depth(v) == IF IsTable(v) THEN FoldLeft(LAMBDA m, e : IF Depth(e.value) >= m THEN Depth(e.value) + 1 ELSE m, 1, v[2]) ELSE 0
ValueCount(v) == IF v = Nil THEN 0
                 ELSE IF IsTable(v) THEN FoldLeft(LAMBDA m, e : m + ValueCount(e.value), 1, v[2]) ELSE 1

\* The limits a file exceeds.
Exceeded(globals, style) ==
  {why \in {"size", "depth", "values"} :
     CASE why = "size" -> Len(FileText(globals, style)) > MaxBytes
       [] why = "depth" -> \E i \in DOMAIN globals : Depth(globals[i][2]) > MaxDepth
       [] why = "values" -> FoldLeft(LAMBDA m, g : m + ValueCount(g[2]), 0, globals) > MaxValues}

\* Whether the file's first "n" bytes end inside a value that is no number.
EndsInside(globals, style, n) ==
  \E i \in DOMAIN globals :
    LET start == Len(FileText(SubSeq(globals, 1, i - 1), style)) + Len(style.gap) + Len(NameText(globals[i], style))
    IN /\ globals[i][2][1] # "num"
       /\ n >= start /\ n < start + Len(ValueText(globals[i][2], style))
=============================================================================
