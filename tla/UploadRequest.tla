--------------------------- MODULE UploadRequest ---------------------------
(***************************************************************************)
(* One upload request inside the server (platform/src/ingest.ts): the parts *)
(* of the body as the multipart parser hands them over, the check of meta   *)
(* and the limits between the parts, the file's bytes, the transaction's    *)
(* outcome (which Ingest models), the answer and the request's event.       *)
(*                                                                         *)
(* The parser hands parts over one at a time. A file's end is told apart    *)
(* from the parts after it, the caller's side may close at any time, and    *)
(* after a refusal the parser may still hand over what it already has. The  *)
(* handler goes on from readParts in a step of its own.                     *)
(***************************************************************************)
EXTENDS Naturals, Sequences, FiniteSets

CONSTANT Bodies   \* the bodies callers send: [multipart, parts, cut], see Part below

\* A part: "field" is meta's kind, "file" the file's, "skip" one without a
\* form-data disposition; "named" says it has the right name, "big" that it is
\* over its size. "cut" says the body ends inside its last part.
Part == [kind : {"field", "file", "skip"}, named : BOOLEAN, big : BOOLEAN]
ASSUME BodiesAssumption ==
  \A b \in Bodies : /\ b.multipart \in BOOLEAN /\ b.cut \in BOOLEAN
                    /\ b.parts \in Seq(Part) /\ Len(b.parts) <= 3

VARIABLES body,      \* the request's body
          arrived,   \* "sending", "complete" (req.complete), "closed" or "gone", closed before readParts listened
          next,      \* the part the parser is at; after all of them and the limit's event, its end
          stream,    \* the file part's stream: "none", "ignored", "open", "limit" or "ended"
          settled, parts,  \* readParts: whether it has an outcome, and it ("" until then, "read" when good)
          meta, file,      \* what readParts holds: meta checked, the file whole
          checked,   \* the handler's "checked": meta passed its check
          tokens,    \* the rate limit's tokens this request took
          stage,     \* the handler's place
          answer,    \* the answer's status, or ""
          events     \* the events this request recorded: [status, meta]

rvars == <<body, arrived, next, stream, settled, parts, meta, file, checked, tokens, stage, answer, events>>

Unrecorded == {"bad_request", "rate_limited"}
MaxParts == 3

RequestInit ==
  /\ body \in Bodies
  /\ arrived = "sending" /\ next = 1 /\ stream = "none"
  /\ settled = FALSE /\ parts = "" /\ meta = FALSE /\ file = FALSE /\ checked = FALSE
  /\ tokens = 0 /\ stage = "device" /\ answer = "" /\ events = <<>>

-----------------------------------------------------------------------------
(* Answers *)

Record(status) == events' = Append(events, [status |-> status, meta |-> checked])
\* Every answer with an event.
FinishRecordingAll(status) == answer' = status /\ stage' = "answered" /\ Record(status)
\* finish(): the answer, then the event unless a looping device can repeat it.
Finish(status) ==
  /\ answer' = status /\ stage' = "answered"
  /\ IF status \in Unrecorded THEN UNCHANGED events ELSE Record(status)
\* refuseDevice()
RefuseDevice == answer' = "unauthorized" /\ stage' = "answered" /\ UNCHANGED events

handler == <<stage, answer, events>>
reading == <<body, arrived, next, stream, settled, parts, meta, file, checked, tokens>>

\* findDevice(), then the parser's start: a body that is not multipart has none.
FindDevice ==
  /\ stage = "device" /\ UNCHANGED <<body, arrived, next, stream, meta, file, checked, tokens>>
  /\ \/ RefuseDevice /\ UNCHANGED <<settled, parts>>
     \/ /\ stage' = "parts" /\ UNCHANGED <<answer, events>>
        /\ settled' = ~body.multipart /\ parts' = IF body.multipart THEN "" ELSE "bad_request"

-----------------------------------------------------------------------------
(* readParts *)

\* fail(): the first outcome stays.
Failing(outcome) ==
  IF settled THEN UNCHANGED <<settled, parts>> ELSE settled' = TRUE /\ parts' = outcome

\* What the meta field's text and the limits make of it: checkMeta, the rate
\* limit's take, then the device limit.
MetaOutcomes == {"checked", "bad_request", "rate_limited", "device_limit"}
ReadMeta(outcome) ==
  /\ checked' = (checked \/ outcome # "bad_request")
  /\ tokens' = tokens + (IF outcome \in {"checked", "device_limit"} THEN 1 ELSE 0)
  /\ IF outcome = "checked" THEN meta' = TRUE /\ UNCHANGED <<settled, parts>>
                            ELSE UNCHANGED meta /\ Failing(outcome)

\* readParts was called: the parser runs.
Started == stage # "device" /\ answer # "unauthorized"
Current == body.parts[next]
Before(kind) == \E i \in 1..next - 1 : body.parts[i].kind = kind
\* The body ends inside the part the parser is at.
CutHere == body.cut /\ next = Len(body.parts)
\* The file being read, and whether it is over its size.
OpenFile == CHOOSE i \in DOMAIN body.parts :
              body.parts[i].kind = "file" /\ \A j \in 1..i - 1 : body.parts[j].kind # "file"
OverSize == stream = "open" /\ body.parts[OpenFile].big
Parsing == Started /\ body.multipart /\ next \in DOMAIN body.parts /\ ~OverSize

Field ==
  /\ Parsing /\ Current.kind = "field" /\ ~CutHere
  /\ next' = next + 1 /\ UNCHANGED <<body, arrived, stream, file, handler>>
  /\ IF Before("field") \/ ~Current.named THEN Failing("bad_request") /\ UNCHANGED <<meta, checked, tokens>>
     ELSE IF Current.big THEN Failing("too_large") /\ UNCHANGED <<meta, checked, tokens>>
     ELSE \E outcome \in MetaOutcomes : ReadMeta(outcome)

\* A file that is refused, or that comes after a refusal, is not read.
File ==
  /\ Parsing /\ Current.kind = "file"
  /\ next' = next + 1 /\ UNCHANGED <<body, arrived, meta, file, checked, tokens, handler>>
  /\ IF Before("file") THEN Failing("bad_request") /\ UNCHANGED stream
     ELSE IF ~Current.named THEN Failing("bad_request") /\ stream' = "ignored"
     ELSE UNCHANGED <<settled, parts>>
          /\ stream' = IF settled THEN "ignored" ELSE IF CutHere /\ ~Current.big THEN "none" ELSE "open"

\* A part it skips, or a field the body ends in: no event.
Skip ==
  /\ Parsing /\ (Current.kind = "skip" \/ (Current.kind = "field" /\ CutHere))
  /\ next' = next + 1
  /\ UNCHANGED <<body, arrived, stream, settled, parts, meta, file, checked, tokens, handler>>

\* The file's stream goes over its size, before any part after it.
FileLimit ==
  /\ OverSize
  /\ stream' = "limit" /\ Failing("too_large")
  /\ UNCHANGED <<body, arrived, next, meta, file, checked, tokens, handler>>
FileEnd ==
  /\ stream = "open" /\ ~OverSize
  /\ stream' = "ended" /\ file' = TRUE
  /\ UNCHANGED <<body, arrived, next, settled, parts, meta, checked, tokens, handler>>

\* A limit that only stops the parser.
PartsLimitIgnored ==
  /\ Started /\ next = MaxParts + 1 /\ Len(body.parts) = MaxParts
  /\ next' = next + 1
  /\ UNCHANGED <<body, arrived, stream, settled, parts, meta, file, checked, tokens, handler>>
\* partsLimit, once the third part has ended.
PartsLimit ==
  /\ Started /\ next = MaxParts + 1 /\ Len(body.parts) = MaxParts
  /\ next' = next + 1 /\ Failing("bad_request")
  /\ UNCHANGED <<body, arrived, stream, meta, file, checked, tokens, handler>>

AtEnd == Started /\ stream # "open"
         /\ next = Len(body.parts) + (IF Len(body.parts) = MaxParts THEN 2 ELSE 1)
\* The parser's end: its error when the body ends inside a part, else its close.
Close ==
  /\ AtEnd /\ arrived = "complete" /\ ~settled
  /\ settled' = TRUE
  /\ parts' = IF body.cut \/ ~meta \/ ~file THEN "bad_request" ELSE "read"
  /\ UNCHANGED <<body, arrived, next, stream, meta, file, checked, tokens, handler>>

\* A close nobody listens to.
CloseUnheard ==
  /\ arrived = "sending" /\ Started /\ arrived' = "closed"
  /\ UNCHANGED <<body, next, stream, settled, parts, meta, file, checked, tokens, handler>>
\* The connection closes while the device is looked up: nothing listens yet.
CloseUnread ==
  /\ arrived = "sending" /\ stage = "device" /\ arrived' = "gone"
  /\ UNCHANGED <<body, next, stream, settled, parts, meta, file, checked, tokens, handler>>
\* The body's end arrives; or the connection closes before it does.
Complete ==
  /\ arrived = "sending" /\ arrived' = "complete"
  /\ UNCHANGED <<body, next, stream, settled, parts, meta, file, checked, tokens, handler>>
RequestClose ==
  /\ arrived = "sending" /\ Started
  /\ arrived' = "closed" /\ Failing("bad_request")
  /\ UNCHANGED <<body, next, stream, meta, file, checked, tokens, handler>>

-----------------------------------------------------------------------------
(* The rest of the handler *)

RefusedParts ==
  /\ stage = "parts" /\ settled /\ parts # "read"
  /\ Finish(parts) /\ UNCHANGED reading
\* decompress(), with its output limit, then the hash.
Decompress ==
  /\ stage = "parts" /\ parts = "read" /\ UNCHANGED reading
  /\ \/ Finish("too_large")
     \/ Finish("bad_request")
     \/ stage' = "store" /\ UNCHANGED <<answer, events>>

\* parseUpload(): a registered flavor is parsed, any other rejected, a
\* ParseError failed; another error is thrown.
ParseUpload(result) ==
  CASE result = "registered" -> "parsed" [] result = "unregistered" -> "rejected"
    [] result = "parse_error" -> "failed" [] result = "crash" -> "thrown"
StatusOf(parse) == CASE parse = "parsed" -> "stored" [] parse = "rejected" -> "unsupported_flavor"
                     [] parse = "failed" -> "parse_error"
\* store(): revoked since, over the limit, the bytes it already has, or parsed.
Store ==
  /\ stage = "store" /\ UNCHANGED reading
  /\ \/ RefuseDevice
     \/ Finish("device_limit")
     \/ Finish("duplicate")
     \/ \E result \in {"registered", "unregistered", "parse_error"} : Finish(StatusOf(ParseUpload(result)))
     \/ \* An interpreter crash or a database failure: recorded, then the app answers 500.
        Record("error") /\ answer' = "error" /\ stage' = "answered"

RequestNext ==
  \/ FindDevice \/ Field \/ File \/ Skip \/ FileLimit \/ FileEnd \/ PartsLimit
  \/ Close \/ CloseUnread \/ Complete \/ RequestClose \/ RefusedParts \/ Decompress \/ Store

RequestSpec == RequestInit /\ [][RequestNext]_rvars

\* The parser and the handler go on with what they have, and a body that stays
\* incomplete is closed by the server's request timeout.
RequestFairness ==
  /\ WF_rvars(FindDevice) /\ WF_rvars(Field \/ File \/ Skip \/ PartsLimit)
  /\ WF_rvars(FileLimit \/ FileEnd) /\ WF_rvars(Close) /\ WF_rvars(RequestClose)
  /\ WF_rvars(RefusedParts) /\ WF_rvars(Decompress) /\ WF_rvars(Store)

-----------------------------------------------------------------------------
\* An upload kept as a row has one good meta field and one whole file, in a body
\* that ended, and took one token of its device's rate: no body of too many
\* parts, cut short or sent twice over gets through.
StoredWhole ==
  answer \in {"stored", "duplicate", "parse_error", "unsupported_flavor"} =>
    LET of(kind) == {i \in DOMAIN body.parts : body.parts[i].kind = kind}
    IN /\ body.multipart /\ ~body.cut /\ Len(body.parts) < MaxParts /\ arrived = "complete" /\ tokens = 1
       /\ \A kind \in {"field", "file"} :
            \E i \in of(kind) : of(kind) = {i} /\ body.parts[i].named /\ ~body.parts[i].big

\* Every answered request that a device cannot repeat for free has one event,
\* the answer's, and any other none; no request takes two tokens.
EventOfAnswer ==
  /\ tokens <= 1
  /\ events # <<>> => stage = "answered" /\ Len(events) = 1 /\ events[1].status = answer
  /\ stage = "answered" => (events = <<>>) = (answer \in {"bad_request", "rate_limited", "unauthorized"})
=============================================================================
