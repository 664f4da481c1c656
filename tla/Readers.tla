------------------------------ MODULE Readers ------------------------------
(* The readers of the harnesses' sessions (readers/common.ts, claude-code.ts,
   codex.ts, pi.ts): what turns, issues and statuses come of the lines of the
   files of a unit.  A line is a record of the fields the readers look at:

     type     the type of the JSON record, or "blank", "malformed" (no JSON)
              or "value" (JSON, but no object)
     at, cwd  its time and directory, None when it has none
     of       the session id it names, or None
     kind     the type of its payload (codex), None when it has none
     role     whose message it is, or None
     version  the version of the format it announces, or None
     content  a sequence of blocks [kind, texts]

   Paths are numbers, in the order of localeCompare.  The text of a tool's call
   stands for its name with the files and the commands it mentions.          *)
EXTENDS Integers, SequencesExt

CONSTANTS None,       \* what a record does not have
          Empty,      \* the empty text
          MaxIssues   \* MAX_ISSUES

ASSUME ReadersAssumption == MaxIssues \in Nat \ {0}

Issue(file, line, code, key) == [path |-> file.path, line |-> line, code |-> code, key |-> key]

\* An issue is told once for its code and detail, and a hundred at most
AddIssue(issues, issue) ==
    IF Len(issues) >= MaxIssues \/ \E i \in DOMAIN issues : issues[i].key = issue.key
    THEN issues ELSE Append(issues, issue)

\* Texts that are not empty, each once
TextContent(blocks) ==
    LET texts == FlattenSeq([i \in DOMAIN blocks |->
                     IF blocks[i].kind \in {"text", "input_text", "output_text"} THEN blocks[i].texts ELSE <<>>])
        Once(seen, text) == IF text = Empty \/ text \in Range(seen) THEN seen ELSE Append(seen, text)
    IN  FoldLeft(Once, <<>>, texts)

\* The records of a file with their lines, up to where it stops decompressing
ParseJsonl(file) ==
    LET broken == {n \in DOMAIN file.lines : file.lines[n].type \in {"malformed", "value"}}
        blank  == {n \in DOMAIN file.lines : file.lines[n].type = "blank"}
        InOrder(lines) == SelectSeq([n \in DOMAIN file.lines |-> n], LAMBDA n : n \in lines)
        Reported(n) == Issue(file, n, file.lines[n].type, <<file.lines[n].type, file.path, n>>)
    IN  [records |-> InOrder(DOMAIN file.lines \ (broken \cup blank)),
         invalid |-> broken # {},
         issues  |-> [i \in 1 .. Cardinality(broken) |-> Reported(InOrder(broken)[i])]
                     \o IF file.corrupt THEN <<Issue(file, None, "zstd-corrupt", <<"zstd-corrupt", file.path, None>>)>> ELSE <<>>]

\* Records without a time come last
After(a, b) ==
    \/ a.at = None /\ b.at # None
    \/ a.at # None /\ b.at # None /\ a.at > b.at
    \/ a.at = b.at /\ a.path > b.path
    \/ a.at = b.at /\ a.path = b.path /\ a.line > b.line

\* A stable sort: the number of a turn is its place, from 0
FinishTurns(turns) ==
    LET Insert(sorted, turn) ==
            LET before == Cardinality({i \in DOMAIN sorted : ~After(sorted[i], turn)})
            IN  InsertAt(sorted, before + 1, turn)
    IN  FoldLeft(Insert, <<>>, turns)

PushUniqueTurn(turns, turn) ==
    IF turn.text = Empty \/ turn \in Range(turns) THEN turns ELSE Append(turns, turn)

-----------------------------------------------------------------------------
(* What a reader has gathered so far: `file` and `line` are where it is *)

Turn(read, role, text) ==
    [at |-> read.file.lines[read.line].at, project |-> read.project, role |-> role, text |-> text,
     path |-> read.file.path, line |-> read.line]

Says(read, role, texts) ==
    [read EXCEPT !.turns = FoldLeft(LAMBDA turns, text : PushUniqueTurn(turns, Turn(read, role, text)), @, texts)]

Partly(read, code, detail) ==
    [read EXCEPT !.partial = TRUE, !.issues = AddIssue(@, Issue(read.file, read.line, code, <<code, detail>>))]

\* The id of the session, where a record names one
Identified(read, id, record) ==
    IF record.of \in {None, id} THEN read ELSE Partly(read, "identity-mismatch", record.of)

Directory(read, record) == IF record.cwd = None THEN read ELSE [read EXCEPT !.project = record.cwd]

RecognizedStatus(read) ==
    IF ~read.recognized THEN "unsupported" ELSE IF read.partial THEN "partial" ELSE "ok"

-----------------------------------------------------------------------------
(* Claude Code *)

ClaudeBlock(read, block) ==
    CASE block.kind = "tool_use"    -> Says(read, "tool", block.texts)
      [] block.kind = "tool_result" -> Says(read, "tool", TextContent(<<[block EXCEPT !.kind = "text"]>>))
      [] block.kind \in {"text", "thinking", "image", "document", "fallback"} -> read
      [] OTHER                      -> Partly(read, "unknown-content", block.kind)

\* The texts of a message come before its tools
ClaudeRecord(read, id, record) ==
    IF record.type \in {"user", "assistant"}
    THEN LET mine == Identified([read EXCEPT !.recognized = TRUE], id, record)
             role == IF record.kind = "summary" THEN "summary" ELSE record.type
         IN  FoldLeft(ClaudeBlock, Says(mine, role, TextContent(record.content)), record.content)
    ELSE IF record.type = "metadata" THEN read
    ELSE Partly(read, "unknown-record", record.type)

-----------------------------------------------------------------------------
(* Codex tells most messages twice, as an event and as a response item *)

\* A message of a role that nobody reads is passed over
CodexMessage(read, record) ==
    LET texts == TextContent(record.content)
        said  == {<<record.role, texts[i], record.at>> : i \in DOMAIN texts}
    IN  IF record.role \in {"user", "assistant"}
        THEN [Says(read, record.role, texts) EXCEPT !.canonical = @ \cup said] ELSE read

CodexResponseItem(read, record) ==
    CASE record.kind = "message"              -> CodexMessage(read, record)
      [] record.kind = "function_call"        -> Says(read, "tool", record.content[1].texts)
      [] record.kind = "function_call_output" -> Says(read, "tool", TextContent(record.content))
      [] record.kind \in {"reasoning", "agent_message"} -> read
      [] OTHER -> Partly(read, "unknown-content", record.kind)

EventRole(record) == CASE record.kind = "user_message"  -> "user"
                       [] record.kind = "agent_message" -> "assistant"
                       [] OTHER -> None

CodexEvent(read, record) ==
    LET texts == TextContent(record.content) IN
    IF EventRole(record) = None \/ texts = <<>> THEN read
    ELSE [read EXCEPT !.deferred = Append(@, Turn(read, EventRole(record), texts[1]))]

CodexRecord(read, id, record) ==
    LET known == [read EXCEPT !.recognized = TRUE] IN
    CASE record.type = "session_meta"  -> Identified(known, id, record)
      [] record.type = "response_item" -> CodexResponseItem(known, record)
      [] record.type = "event_msg"     -> CodexEvent(known, record)
      [] record.type = "compacted"     -> Says(known, "summary", TextContent(record.content))
      [] record.type \in {"turn_context", "world_state", "inter_agent_communication_metadata"} -> known
      [] OTHER -> Partly(read, "unknown-record", record.type)

\* An event is a turn of its own when no response item says the same
CodexSettle(read) ==
    LET own == SelectSeq(read.deferred, LAMBDA turn : <<turn.role, turn.text, turn.at>> \notin read.canonical)
    IN  [read EXCEPT !.turns = FoldLeft(PushUniqueTurn, @, own)]

-----------------------------------------------------------------------------
(* pi: nothing is read before a header of a version the reader knows *)

PiHeader(read, record) ==
    LET supported == record.version \in 1 .. 3
        known == [read EXCEPT !.recognized = TRUE, !.supported = supported]
    IN  IF supported THEN known ELSE Partly(known, "unsupported-version", record.version)

PiMessage(read, record) ==
    LET calls == SelectSeq(record.content, LAMBDA block : block.kind = "toolCall")
        role  == IF record.role = "toolResult" THEN "tool" ELSE record.role
        said  == Says(read, role, TextContent(record.content))
    IN  CASE record.role = "assistant" -> FoldLeft(LAMBDA r, call : Says(r, "tool", call.texts), said, calls)
          [] record.role \in {"user", "toolResult"} -> said
          [] record.role = "bashExecution" -> Says(read, "tool", record.content[1].texts)
          [] OTHER -> Partly(read, "unknown-content", record.role)

PiRecord(read, id, record) ==
    CASE record.type = "session"  -> PiHeader(read, record)
      [] ~read.supported          -> read
      [] record.type = "message"  -> PiMessage(read, record)
      [] record.type \in {"compaction", "branch_summary"} -> Says(read, "summary", TextContent(record.content))
      [] record.type = "metadata" -> read
      [] OTHER -> Partly(read, "unknown-record", record.type)

PiStatus(read) == IF ~read.supported THEN "unsupported" ELSE RecognizedStatus(read)

-----------------------------------------------------------------------------
(* The reader of a harness *)

GetReader(harness, read, id, record) ==
    CASE harness = "claude-code" -> ClaudeRecord(read, id, record)
      [] harness = "codex"       -> CodexRecord(read, id, record)
      [] harness = "pi"          -> PiRecord(read, id, record)

Settle(harness, read) == IF harness = "codex" THEN CodexSettle(read) ELSE read
Status(harness, read) == IF harness = "pi" THEN PiStatus(read) ELSE RecognizedStatus(read)

Started(result, file, parsed) ==
    [turns |-> result.turns, issues |-> FoldLeft(AddIssue, result.issues, parsed.issues), file |-> file,
     line |-> 0, project |-> None, recognized |-> FALSE, supported |-> FALSE,
     partial |-> parsed.invalid, canonical |-> {}, deferred |-> <<>>]

ReadLine(harness, id, read, n) ==
    LET record == read.file.lines[n]
    IN  GetReader(harness, Directory([read EXCEPT !.line = n], record), id, record)

Reads(result, turns, issues, status) ==
    [turns |-> turns, issues |-> issues, files |-> Append(result.files, status)]

Finished(harness, result, read) ==
    Reads(result, read.turns,
          IF read.recognized THEN read.issues
          ELSE AddIssue(read.issues, Issue(read.file, None, "unsupported-structure", <<"unsupported-structure", None>>)),
          Status(harness, read))

\* A file nothing can be read of counts only for its issues
ReadParsed(harness, id, result, records, start) ==
    IF start.file.corrupt \/ (records = <<>> /\ start.partial)
    THEN Reads(result, result.turns, start.issues, "corrupt")
    ELSE Finished(harness, result,
             Settle(harness, FoldLeft(LAMBDA read, n : ReadLine(harness, id, read, n), start, records)))

ReadFile(harness, id, result, file) ==
    IF ~file.jsonl THEN Reads(result, result.turns, result.issues, "ok")
    ELSE LET parsed == ParseJsonl(file)
         IN  ReadParsed(harness, id, result, parsed.records, Started(result, file, parsed))

\* The files of a unit one after the other, a record at a time
ReadUnit(harness, unit) ==
    LET all == FoldLeft(LAMBDA result, file : ReadFile(harness, unit.id, result, file),
                        [turns |-> <<>>, issues |-> <<>>, files |-> <<>>], unit.files)
    IN  [all EXCEPT !.turns = FinishTurns(@)]
=============================================================================
