----------------------------- MODULE LuaReader -----------------------------
(***************************************************************************)
(* The reader of SavedVariables files (kits/wow/interpreter/lua.ts): from   *)
(* bytes to the globals they assign, or to the error that refuses them.     *)
(*                                                                         *)
(* A file is a sequence of bytes, each named by the character it is: "LF"   *)
(* is a line feed, "NUL" the byte 0 and "BAD" a byte no UTF-8 text has.     *)
(* The reader's fields are a record "r": its position, its line, how many   *)
(* values it has read, the value just read ("out") and, once it has         *)
(* failed, what failed ("why", which is "" until then).                     *)
(***************************************************************************)
EXTENDS Integers, Sequences, SequencesExt, FiniteSets

CONSTANTS MaxDepth,   \* limits.maxDepth
          MaxValues,  \* limits.maxValues
          MaxBytes    \* limits.maxBytes

-----------------------------------------------------------------------------
(* Values. A number is a decimal: mantissa * 10^scale, with no trailing zero. *)

Nil == <<"nil">>
Bool(b) == <<"bool", b>>
Str(s) == <<"str", s>>
Arr(s) == <<"arr", s>>
Obj(s) == <<"obj", s>>   \* a set of <<key bytes, value>>

RECURSIVE Decimal(_, _)
Decimal(m, e) == IF m = 0 THEN <<"num", 0, 0>>
                 ELSE IF m % 10 = 0 THEN Decimal(m \div 10, e + 1) ELSE <<"num", m, e>>
Minus(v) == <<"num", -v[2], v[3]>>

DigitOf == [c \in {"0", "1", "2", "3", "4", "5", "6", "7", "8", "9"} |->
              CHOOSE n \in 0..9 : c = ToString(n)]
Digits == DOMAIN DigitOf
HexLetters == [a |-> 10, b |-> 11, c |-> 12, d |-> 13, e |-> 14, f |-> 15]
HexDigits == Digits \cup DOMAIN HexLetters
Names == {"a", "b", "c", "e", "f", "i", "k", "l", "n", "r", "s", "t", "u", "x", "A", "B", "_"}
NameChars == Names \cup Digits
Blanks == {"SP", "TAB", "CR"}
Escapes == [a |-> "BEL", b |-> "BS", f |-> "FF", n |-> "LF", r |-> "CR", t |-> "TAB"]
\* The byte a decimal escape names.
ByteOf(n) == CASE n = 0 -> "NUL" [] n = 10 -> "LF" [] n = 34 -> "dquote"
               [] n = 65 -> "A" [] n = 49 -> "1" [] OTHER -> "BAD"

RECURSIVE Numeral(_, _, _)
\* The value of the digits "s" in "base", after "n".
Numeral(s, base, n) ==
  IF s = <<>> THEN n
  ELSE LET d == IF Head(s) \in Digits THEN DigitOf[Head(s)] ELSE HexLetters[Head(s)]
       IN Numeral(Tail(s), base, n * base + d)

RECURSIVE TextOfInt(_)
TextOfInt(n) == IF n < 10 THEN <<ToString(n)>>
                ELSE Append(TextOfInt(n \div 10), ToString(n % 10))

\* String(key): a number key in decimal, a boolean's name, a string as it is.
TextOf(key) ==
  CASE key[1] = "str" -> key[2]
    [] key[1] = "bool" -> IF key[2] THEN <<"t", "r", "u", "e">> ELSE <<"f", "a", "l", "s", "e">>
    [] key[1] = "num" ->
         LET m == IF key[2] < 0 THEN -key[2] ELSE key[2]
             ds == TextOfInt(m)
             whole == IF key[3] >= 0 THEN ds \o [i \in 1..key[3] |-> "0"]
                      ELSE LET pad == [i \in 1..(IF -key[3] >= Len(ds) THEN 1 - key[3] - Len(ds) ELSE 0) |-> "0"] \o ds
                               cutAt == Len(pad) + key[3]
                           IN SubSeq(pad, 1, cutAt) \o <<".">> \o SubSeq(pad, cutAt + 1, Len(pad))
         IN (IF key[2] < 0 THEN <<"-">> ELSE <<>>) \o whole

\* The decoder: bad UTF-8 and U+0000 become U+FFFD.
Decoded(s) == Str([i \in DOMAIN s |-> IF s[i] \in {"NUL", "BAD"} THEN "FFFD" ELSE s[i]])

\* A Map that nil leaves as it is.
PutUnlessNil(entries, key, v) ==
  IF v = Nil THEN entries ELSE Append(SelectSeq(entries, LAMBDA e : e[1] # key), <<key, v>>)

\* A Map: set in place or at the end, or deleted.
Put(entries, key, v) ==
  IF v = Nil THEN SelectSeq(entries, LAMBDA e : e[1] # key)
  ELSE IF \E i \in DOMAIN entries : entries[i][1] = key
       THEN [i \in DOMAIN entries |-> IF entries[i][1] = key THEN <<key, v>> ELSE entries[i]]
       ELSE Append(entries, <<key, v>>)

\* An array when the keys are exactly 1 to n, else an object by the keys' texts.
ToJson(entries) ==
  LET n == Len(entries)
      keys == {entries[i][1] : i \in 1..n}
      valueOf(key) == entries[CHOOSE i \in 1..n : entries[i][1] = key][2]
      lastOf(text) == entries[CHOOSE i \in 1..n :
                                /\ TextOf(entries[i][1]) = text
                                /\ \A j \in i + 1..n : TextOf(entries[j][1]) # text][2]
  IN IF n > 0 /\ \A key \in keys : \E k \in 1..n : key = Decimal(k, 0)
     THEN Arr([k \in 1..n |-> valueOf(Decimal(k, 0))])
     ELSE Obj({<<TextOf(key), lastOf(TextOf(key))>> : key \in keys})

-----------------------------------------------------------------------------
(* Moving over the bytes *)

At(b, p) == IF p \in DOMAIN b THEN b[p] ELSE "EOF"
Peek(b, r) == At(b, r.pos)
Failed(r) == r.why # ""
Fail(r, why) == [r EXCEPT !.why = why]
\* What the reader does next, unless it has failed.
Then(r, Next(_)) == IF Failed(r) THEN r ELSE Next(r)
Move(r, n) == [r EXCEPT !.pos = @ + n]
NextLine(r, n) == [r EXCEPT !.pos = @ + n, !.line = @ + 1]
\* The first position from "p" on whose byte is not in "S".
EndOfRun(b, p, S) ==
  CHOOSE q \in p..Len(b) + 1 : At(b, q) \notin S /\ \A i \in p..q - 1 : b[i] \in S

LiteralNames == {<<"t", "r", "u", "e">>, <<"f", "a", "l", "s", "e">>, <<"n", "i", "l">>}

\* unexpected(): what the error for the current position says.
Unexpected(b, r) ==
  LET end == EndOfRun(b, r.pos, NameChars)
      name == SubSeq(b, r.pos, end - 1)
  IN Fail(r, IF r.pos > Len(b) THEN "cut"
             ELSE IF b[r.pos] \in Names
                  THEN IF end > Len(b) /\ \E w \in LiteralNames : IsPrefix(name, w) THEN "cut" ELSE "code"
                  ELSE "unexpected")

Expect(b, r, c) == IF Peek(b, r) = c THEN Move(r, 1) ELSE Unexpected(b, r)

\* The number of "=" of the long bracket at "p", or -1.
LevelAt(b, p) ==
  LET end == EndOfRun(b, p + 1, {"="})
  IN IF At(b, end) = "[" THEN end - p - 1 ELSE -1

RECURSIVE LongBody(_, _, _, _)
LongBody(b, r, level, start) ==
  LET c == Peek(b, r)
      end == EndOfRun(b, r.pos + 1, {"="})
  IN CASE c = "EOF" -> Fail(r, "cut")
       [] c = "LF" -> LongBody(b, NextLine(r, 1), level, start)
       [] c = "]" /\ end - r.pos - 1 = level /\ At(b, end) = "]" ->
            [Move(r, level + 2) EXCEPT !.out = Decoded(SubSeq(b, start, r.pos - 1))]
       [] OTHER -> LongBody(b, Move(r, 1), level, start)

LongBracket(b, r) ==
  LET level == LevelAt(b, r.pos)
      s == Move(r, level + 2)
      t == IF Peek(b, s) = "CR" /\ At(b, s.pos + 1) = "LF" THEN NextLine(s, 2)
           ELSE IF Peek(b, s) = "LF" THEN NextLine(s, 1) ELSE s
  IN LongBody(b, t, level, t.pos)

RECURSIVE SkipSpace(_, _)
\* White space and comments.
SkipSpace(b, r) ==
  LET c == Peek(b, r)
  IN CASE Failed(r) -> r
       [] c = "LF" -> SkipSpace(b, NextLine(r, 1))
       [] c \in Blanks -> SkipSpace(b, Move(r, 1))
       [] c = "-" /\ At(b, r.pos + 1) = "-" ->
            IF At(b, r.pos + 2) = "[" /\ LevelAt(b, r.pos + 2) >= 0
            THEN SkipSpace(b, [LongBracket(b, Move(r, 2)) EXCEPT !.out = r.out])
            ELSE SkipSpace(b, [r EXCEPT !.pos = EndOfRun(b, r.pos + 2, {b[i] : i \in DOMAIN b} \ {"LF"})])
       [] OTHER -> r

-----------------------------------------------------------------------------
(* Scalars *)

AtNumber(b, p) == At(b, p) \in Digits \/ (At(b, p) = "." /\ At(b, p + 1) \in Digits)

\* The first digits of the largest double; Number.isFinite() of m * 10^e, for an m
\* of no more digits.
MaxDouble == <<1, 7, 9, 7, 6, 9, 3, 1, 3, 4>>
TooLarge(m, e) ==
  LET digits == [i \in DOMAIN TextOfInt(m) |-> DigitOf[TextOfInt(m)[i]]]
      size == Len(digits) + e
  IN m # 0 /\ \/ size > 309
              \/ size = 309 /\ \E i \in DOMAIN digits : /\ digits[i] > MaxDouble[i]
                                                       /\ \A j \in 1..i - 1 : digits[j] = MaxDouble[j]

\* number(): hex digits after 0x, or digits with a fraction and an exponent.
Number(b, r) ==
  LET p == r.pos
      hex == At(b, p) = "0" /\ At(b, p + 1) = "x"
      hexEnd == EndOfRun(b, p + 2, HexDigits)
      whole == EndOfRun(b, p, Digits)
      point == At(b, whole) = "."
      frac == IF point THEN EndOfRun(b, whole + 1, Digits) ELSE whole
      exp == At(b, frac) = "e"
      signed == exp /\ At(b, frac + 1) \in {"-", "+"}
      first == frac + 1 + (IF signed THEN 1 ELSE 0)
      end == IF hex THEN hexEnd ELSE IF exp THEN EndOfRun(b, first, Digits) ELSE frac
      valid == IF hex THEN hexEnd > p + 2 ELSE ~exp \/ end > first
      fraction == IF point THEN SubSeq(b, whole + 1, frac - 1) ELSE <<>>
      mantissa == Numeral(SubSeq(b, p, whole - 1) \o fraction, 10, 0)
      power == IF exp THEN Numeral(SubSeq(b, first, end - 1), 10, 0) ELSE 0
      scale == (IF signed /\ b[frac + 1] = "-" THEN -power ELSE power) - Len(fraction)
  IN IF ~valid \/ At(b, end) \in NameChars \cup {"."}
     THEN Fail([r EXCEPT !.pos = EndOfRun(b, end, NameChars \cup {"."})], "number")
     ELSE IF ~hex /\ TooLarge(mantissa, scale)
     THEN Fail([r EXCEPT !.pos = end], "large")
     ELSE [r EXCEPT !.pos = end,
                    !.out = IF hex THEN Decimal(Numeral(SubSeq(b, p + 2, end - 1), 16, 0), 0)
                            ELSE Decimal(mantissa, scale)]

\* escape(): after a backslash, the byte it names, in "out".
Escape(b, r) ==
  LET c == Peek(b, r)
      next == At(b, r.pos + 1)
      end == CHOOSE q \in r.pos..r.pos + 3 :
               /\ \A i \in r.pos..q - 1 : At(b, i) \in Digits
               /\ q = r.pos + 3 \/ At(b, q) \notin Digits
      n == Numeral(SubSeq(b, r.pos, end - 1), 10, 0)
  IN CASE c = "EOF" -> Fail(r, "cut")
       [] c \in {"LF", "CR"} ->
            [NextLine(r, IF next \in {"LF", "CR"} \ {c} THEN 2 ELSE 1) EXCEPT !.out = "LF"]
       [] c \in Digits -> IF n > 255 THEN Fail([r EXCEPT !.pos = end], "escape")
                          ELSE [r EXCEPT !.pos = end, !.out = ByteOf(n)]
       [] OTHER -> [Move(r, 1) EXCEPT !.out = IF c \in DOMAIN Escapes THEN Escapes[c] ELSE c]

RECURSIVE Quoted(_, _, _, _)
\* quoted(): after the opening "quote", with the bytes read so far.
Quoted(b, r, quote, bytes) ==
  LET c == Peek(b, r)
      esc == Escape(b, Move(r, 1))
  IN CASE c = quote -> [Move(r, 1) EXCEPT !.out = Decoded(bytes)]
       [] c = "EOF" -> Fail(r, "cut")
       [] c \in {"LF", "CR"} -> Fail(r, "string")
       [] c = "bslash" -> IF Failed(esc) THEN esc ELSE Quoted(b, esc, quote, Append(bytes, esc.out))
       [] OTHER -> Quoted(b, Move(r, 1), quote, Append(bytes, c))

\* scalar(): a string, a number, true, false, or nil.
Scalar(b, r) ==
  LET c == Peek(b, r)
      end == EndOfRun(b, r.pos, NameChars)
      word == SubSeq(b, r.pos, end - 1)
      negated(neg) == IF AtNumber(b, neg.pos) THEN Then(Number(b, neg), LAMBDA m : [m EXCEPT !.out = Minus(@)])
                      ELSE Unexpected(b, neg)
      named(v) == [r EXCEPT !.pos = end, !.out = v]
  IN CASE c \in {"dquote", "squote"} -> Quoted(b, Move(r, 1), c, <<>>)
       [] c = "[" /\ LevelAt(b, r.pos) >= 0 -> LongBracket(b, r)
       [] AtNumber(b, r.pos) -> Number(b, r)
       [] c = "-" -> Then(SkipSpace(b, Move(r, 1)), negated)
       [] word = <<"t", "r", "u", "e">> -> named(Bool(TRUE))
       [] word = <<"f", "a", "l", "s", "e">> -> named(Bool(FALSE))
       [] word = <<"n", "i", "l">> -> named(Nil)
       [] OTHER -> Unexpected(b, r)

-----------------------------------------------------------------------------
(* Tables and the file *)

\* At a name followed by one "=": the reader at the "=". Else "none", with the
\* position put back to the name and the line not.
Assigned(b, r) ==
  LET found(s) == IF Failed(s) \/ (Peek(b, r) \in Names /\ Peek(b, s) = "=" /\ At(b, s.pos + 1) # "=")
                  THEN s ELSE [s EXCEPT !.pos = r.pos, !.why = "none"]
  IN found(SkipSpace(b, [r EXCEPT !.pos = EndOfRun(b, r.pos, NameChars)]))
NameAt(b, r) == Str(SubSeq(b, r.pos, EndOfRun(b, r.pos, NameChars) - 1))

RECURSIVE Value(_, _, _), Entries(_, _, _, _, _)

\* value(): a table or a scalar, counted unless it is nil.
Value(b, r, depth) ==
  LET read(s) == IF Peek(b, s) # "{" THEN Scalar(b, s)
                 ELSE IF depth + 1 > MaxDepth THEN Fail(s, "depth")
                 ELSE Entries(b, Move(s, 1), depth + 1, <<>>, 0)
      counted(t) == IF t.out = Nil THEN t
                    ELSE IF t.values + 1 > MaxValues THEN Fail(t, "values")
                    ELSE [t EXCEPT !.values = @ + 1]
  IN Then(Then(SkipSpace(b, r), read), counted)

\* [key] =: the reader at the value, with the key in "out".
Bracketed(b, r) ==
  LET key(s) == IF Peek(b, s) = "{" THEN Fail(s, "key") ELSE Scalar(b, s)
      good(k) == IF k.out = Nil THEN Fail(k, "key") ELSE SkipSpace(b, k)
      closed(k) == Then(Expect(b, k, "]"), LAMBDA s : SkipSpace(b, s))
      equals(s) == Expect(b, s, "=")
  IN Then(Then(Then(Then(SkipSpace(b, Move(r, 1)), key), good), closed), equals)

\* An entry's key and the reader at its value: [key] =, name =, or the next index.
Keyed(b, r, index) ==
  LET bracketed(k) == [key |-> k.out, index |-> index, r |-> k]
      named(s) == IF s.why = "" THEN [key |-> NameAt(b, r), index |-> index, r |-> Move(s, 1)]
                  ELSE IF s.why = "none"
                  THEN [key |-> Decimal(index + 1, 0), index |-> index + 1, r |-> [s EXCEPT !.why = ""]]
                  ELSE [key |-> Nil, index |-> index, r |-> s]
  IN IF Peek(b, r) = "[" /\ LevelAt(b, r.pos) < 0 THEN bracketed(Bracketed(b, r)) ELSE named(Assigned(b, r))

\* table(): the entries up to the closing brace.
Entries(b, r, depth, entries, index) ==
  LET next(after, k, more) ==
        CASE Peek(b, after) \in {",", ";"} -> Entries(b, Move(after, 1), depth, more, k.index)
          [] Peek(b, after) = "}" -> Entries(b, after, depth, more, k.index)
          [] OTHER -> Unexpected(b, after)
      stored(v, k) == Then(SkipSpace(b, v), LAMBDA after : next(after, k, Put(entries, k.key, v.out)))
      entry(k) == Then(Then(k.r, LAMBDA s : Value(b, s, depth)), LAMBDA v : stored(v, k))
  IN Then(SkipSpace(b, r), LAMBDA s :
       IF Peek(b, s) = "}" THEN [Move(s, 1) EXCEPT !.out = ToJson(entries)] ELSE entry(Keyed(b, s, index)))

RECURSIVE Globals(_, _, _)
\* file(): the global assignments, as a Map.
Globals(b, r, globals) ==
  LET ended(after, more) == Globals(b, Move(after, IF Peek(b, after) = ";" THEN 1 ELSE 0), more)
      stored(v, name) == Then(SkipSpace(b, v), LAMBDA after : ended(after, Put(globals, name, v.out)))
      global(assigned, name) ==
        IF assigned.why = "none" THEN Unexpected(b, assigned)
        ELSE Then(Then(assigned, LAMBDA s : Value(b, Move(s, 1), 0)), LAMBDA v : stored(v, name))
  IN Then(SkipSpace(b, r), LAMBDA s :
       IF s.pos > Len(b) THEN [s EXCEPT !.out = globals] ELSE global(Assigned(b, s), NameAt(b, s)))

\* The reader over the whole file; "BOM" is the byte order mark.
ReadSavedVariables(b) ==
  LET start == [pos |-> IF At(b, 1) = "BOM" THEN 2 ELSE 1, line |-> 1, values |-> 0, out |-> Nil, why |-> ""]
  IN IF Len(b) > MaxBytes THEN Fail(start, "size") ELSE Globals(b, start, <<>>)
=============================================================================
