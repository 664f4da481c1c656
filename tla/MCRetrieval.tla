---- MODULE MCRetrieval ----
EXTENDS Retrieval, TLC
CONSTANTS s, r, c1, c2
\* A session with a side file that has no record, or two sessions
BothLayouts ==
    {[harness |-> "claude-code", unit |-> [f \in {s, r} |-> 1]],
     [harness |-> "codex", unit |-> [f \in {s, r} |-> IF f = s THEN 1 ELSE 2]]}
Bound(c, f, n, kinds) == [changes |-> c, faults |-> f, runs |-> n, kinds |-> kinds]
SmallBounds == {Bound(1, 0, 3, Kinds), Bound(2, 0, 2, {"query", "rebuild"}), Bound(1, 1, 2, Kinds)}
Symmetry == Permutations(Commands)

Block(kind, text) == [kind |-> kind, texts |-> <<text>>]
Line(type, at, kind, role, content) ==
    [type |-> type, at |-> at, cwd |-> None, of |-> None, kind |-> kind, role |-> role,
     version |-> IF type = "session" THEN 3 ELSE None, content |-> content]
Claude(type, at, block) == Line(type, at, None, None, <<block>>)
Codex(type, kind, at, text) == Line(type, at, kind, "user", <<Block("text", text)>>)

\* The main file ends after the side file begins; what grows, grows at the end
ClaudeMain == <<Claude("user", 1, Block("text", "ask")), Claude("assistant", 4, Block("tool_use", "run")),
                Claude("assistant", 5, Block("text", "done"))>>
ClaudeSide == <<Claude("assistant", 2, Block("text", "look")), Claude("assistant", 3, Block("text", "found"))>>
CodexMain  == <<Codex("event_msg", "user_message", 1, "ask"), Codex("response_item", "message", 1, "ask"),
                Codex("response_item", "function_call", 2, "run"), Codex("event_msg", "agent_message", 3, "done")>>
Grown(lines, n) == <<SubSeq(lines, 1, n), lines>>
SmallLines ==
    [h \in {"claude-code", "codex"} |-> [f \in {s, r} |->
        [path |-> IF f = s THEN 1 ELSE 2,
         versions |-> IF h = "codex" THEN Grown(CodexMain, 3)
                      ELSE IF f = s THEN Grown(ClaudeMain, 2) ELSE Grown(ClaudeSide, 1)]]]

-----------------------------------------------------------------------------
(* The readers over every session of three lines, each later than the last *)

Harnesses == {"claude-code", "codex", "pi"}
Malformed == Line("malformed", None, None, None, <<>>)
AnyLine(harness, at) ==
    CASE harness = "claude-code" ->
           {Malformed, Claude("user", at, Block("text", "ask")), Claude("assistant", at, Block("tool_use", "run")),
            Claude("assistant", at, Block("video", "ask"))}
      [] harness = "codex" ->
           {Malformed, Codex("event_msg", "user_message", at, "ask"), Codex("response_item", "message", at, "ask"),
            Codex("response_item", "function_call", at, "run"), Codex("response_item", "picture", at, "ask")}
      [] harness = "pi" ->
           {Malformed, Line("session", at, None, None, <<>>),
            [Line("session", at, None, None, <<>>) EXCEPT !.version = 9],
            Line("message", at, None, "assistant", <<Block("text", "ask"), Block("toolCall", "run")>>),
            Line("mystery", at, None, None, <<>>)}

Sessions(harness) == {<<a, b, c>> : a \in AnyLine(harness, 1), b \in AnyLine(harness, 2), c \in AnyLine(harness, 3)}
ReadLines(harness, lines) ==
    ReadUnit(harness, [id |-> 1, files |-> <<[path |-> 1, jsonl |-> TRUE, corrupt |-> FALSE, lines |-> lines]>>])

\* The turns a session has keep their numbers when it grows at its end, a line
\* cut off where it was archived (readers/common.ts) included
ASSUME GrowthKeepsTurns ==
    \A harness \in Harnesses : \A lines \in Sessions(harness) : \A n \in 1 .. 2 :
        LET before == ReadLines(harness, Append(SubSeq(lines, 1, n), Malformed)).turns
            after  == ReadLines(harness, lines).turns
        IN  SubSeq(after, 1, Len(before)) = before

\* A file is "ok" just when there is nothing to tell of it
ASSUME StatusTellsAll ==
    \A harness \in Harnesses : \A lines \in Sessions(harness) :
        LET read == ReadLines(harness, lines) IN (read.files = <<"ok">>) <=> (read.issues = <<>>)
====
