--------------------------- MODULE MigrationFile ---------------------------
(***************************************************************************)
(* A migration file before it runs (platform/src/migrations.ts): how its    *)
(* text is split into statements, and its own begin and commit taken out.   *)
(*                                                                         *)
(* The text is a sequence of tokens: a word is one token, and so is every   *)
(* other character. "LF" is a line feed.                                    *)
(***************************************************************************)
EXTENDS Integers, Sequences, SequencesExt, FiniteSets

CONSTANT Words   \* the words of the files: of identifier characters

SqlAt(sql, i) == IF i \in DOMAIN sql THEN sql[i] ELSE "EOF"
Identifier == Words \cup {"$"}
Space == {"SP", "LF"}
PastEnd(sql) == Len(sql) + 1
\* indexOf(): the first position from "i" on where "s" starts, or the end.
IndexOf(sql, s, i) ==
  LET found == {k \in i..Len(sql) - Len(s) + 1 : SubSeq(sql, k, k + Len(s) - 1) = s}
  IN IF found = {} THEN PastEnd(sql) ELSE CHOOSE k \in found : \A l \in found : k <= l

RECURSIVE CloseQuote(_, _, _, _), CloseComment(_, _, _), Split(_, _, _, _, _)
\* closeQuote(): just past the quote that closes. A doubled one does not.
CloseQuote(sql, i, quote, backslash) ==
  LET c == SqlAt(sql, i)
  IN CASE c = "EOF" -> PastEnd(sql)
       [] backslash /\ c = "bslash" -> CloseQuote(sql, i + 2, quote, backslash)
       [] c = quote -> IF SqlAt(sql, i + 1) = quote THEN CloseQuote(sql, i + 2, quote, backslash) ELSE i + 1
       [] OTHER -> CloseQuote(sql, i + 1, quote, backslash)

\* Just past a block comment that does not nest.
CloseFlatComment(sql, i, depth) ==
  LET close == IndexOf(sql, <<"*", "/">>, i) IN IF close = PastEnd(sql) THEN close ELSE close + 2

\* Just past a block comment. They nest.
CloseComment(sql, i, depth) ==
  LET pair == <<SqlAt(sql, i), SqlAt(sql, i + 1)>>
  IN CASE depth = 0 \/ i > Len(sql) -> i
       [] depth > 0 /\ pair = <<"/", "*">> -> CloseComment(sql, i + 2, depth + 1)
       [] depth > 0 /\ pair = <<"*", "/">> -> CloseComment(sql, i + 2, depth - 1)
       [] OTHER -> CloseComment(sql, i + 1, depth)

\* The tag of a dollar quote at "i": $$ or $word$, else none.
DollarTag(sql, i) ==
  IF SqlAt(sql, i + 1) = "$" THEN <<"$", "$">>
  ELSE IF SqlAt(sql, i + 1) \in Words /\ SqlAt(sql, i + 2) = "$" THEN SubSeq(sql, i, i + 2) ELSE <<>>

\* Where the token at "i", or the quotes it opens, ends.
Stop(sql, i) ==
  LET c == sql[i]
      before == SqlAt(sql, i - 1)
      tag == DollarTag(sql, i)
      close == IndexOf(sql, tag, i + Len(tag))
  IN CASE c \in {"squote", "dquote"} ->
            CloseQuote(sql, i + 1, c, c = "squote" /\ before = "E" /\ SqlAt(sql, i - 2) \notin Identifier)
       [] c = "$" /\ before \notin Identifier /\ tag # <<>> ->
            IF close = PastEnd(sql) THEN close ELSE close + Len(tag)
       [] OTHER -> i + 1

Pushed(statements, text, start, end) ==
  IF text = <<>> THEN statements ELSE Append(statements, [text |-> text, start |-> start, end |-> end])

\* splitStatements(): "text" is the statement so far without its comments and spaces around.
Split(sql, i, statements, text, start) ==
  LET c == SqlAt(sql, i)
      pair == <<c, SqlAt(sql, i + 1)>>
      stop == Stop(sql, i)
  IN CASE c = "EOF" -> Pushed(statements, text, start, PastEnd(sql))
       [] pair = <<"-", "-">> -> Split(sql, IndexOf(sql, <<"LF">>, i), statements, text, start)
       [] pair = <<"/", "*">> -> Split(sql, CloseComment(sql, i + 2, 1), statements, text, start)
       [] c = ";" -> Split(sql, i + 1, Pushed(statements, text, start, i + 1), <<>>, 0)
       [] c \in Space -> Split(sql, i + 1, statements, text, start)
       [] OTHER -> Split(sql, stop, statements, text \o SubSeq(sql, i, stop - 1), IF start = 0 THEN i ELSE start)
SplitStatements(sql) == Split(sql, 1, <<>>, <<>>, 0)

TransactionControl == {"abort", "begin", "commit", "end", "release", "rollback", "savepoint", "start"}

\* stripTransaction(): the text without its begin and commit, or none when it is refused.
StripTransaction(sql) ==
  LET statements == SplitStatements(sql)
      n == Len(statements)
      opens == n > 0 /\ statements[1].text = <<"begin">>
      closes == n > 1 /\ statements[n].text = <<"commit">>
      inner == IF opens THEN SubSeq(statements, 2, n - 1) ELSE statements
      refused == opens # closes \/ \E i \in DOMAIN inner : inner[i].text[1] \in TransactionControl
  IN CASE refused -> [ok |-> FALSE, sql |-> <<>>]
       [] ~refused /\ ~opens -> [ok |-> TRUE, sql |-> sql]
       [] OTHER -> [ok |-> TRUE, sql |-> SubSeq(sql, 1, statements[1].start - 1)
                                         \o SubSeq(sql, statements[1].end, statements[n].start - 1)
                                         \o SubSeq(sql, statements[n].end, Len(sql))]
=============================================================================
