------------------------------- MODULE Output --------------------------------
(***************************************************************************)
(* The buffer C# is written to (src/src/codegen/output.rs).  Indentation   *)
(* is kept as marks inside the buffer, which finish() replays line by      *)
(* line: a mark may only stand at the start of a line, so one asked for in *)
(* the middle of a line stays pending until a newline is written.          *)
(*                                                                         *)
(* The text is abstracted to how it ends:                                  *)
(*   "empty" nothing was written    "text"  in the middle of a line        *)
(*   "line"  after a newline        "blank" after an empty line            *)
(*   "mark"  after indentation marks at the start of a line                *)
(***************************************************************************)
EXTENDS Integers

\* tail: the end of the text; lines: its newlines, counted up to MaxLines; level: the
\* sum of the marks in the text; indent, pending: the counters of the same names.
MaxLines == 3
Code == [tail : {"empty", "text", "line", "blank", "mark"}, lines : 0 .. MaxLines,
         level : Int, indent : Int, pending : Int]

NewCode == [tail |-> "empty", lines |-> 0, level |-> 0, indent |-> 0, pending |-> 0]

Capped(n) == IF n > MaxLines THEN MaxLines ELSE n

AtLineStart(c) == c.tail \in {"line", "blank", "mark"}

\* A mark for indent() (by = 1) or dedent() (by = -1).
Mark(c, by) ==
  IF AtLineStart(c)
  THEN [c EXCEPT !.tail = "mark", !.level = @ + by, !.indent = @ + by]
  ELSE [c EXCEPT !.pending = @ + by, !.indent = @ + by]

Indent(c) == Mark(c, 1)
Dedent(c) == Mark(c, -1)

\* w(s) for an s without a newline.
Text(c) == [c EXCEPT !.tail = "text"]

AfterNewline(tail) == IF tail \in {"line", "blank"} THEN "blank" ELSE "line"

\* write!/writeln! on a Code take the inherent write_fmt: they reach the text
\* without a look at the pending marks.
RawNewline(c) == [c EXCEPT !.tail = AfterNewline(@), !.lines = Capped(@ + 1)]

\* w("\n"): the pending marks follow the newline.
Newline(c) ==
  IF c.pending = 0
  THEN RawNewline(c)
  ELSE [c EXCEPT !.tail = "mark", !.lines = Capped(@ + 1), !.level = @ + c.pending, !.pending = 0]

Wln(c) == Newline(Text(c))
RawWln(c) == RawNewline(Text(c))

BlankLine(c) == IF c.tail = "blank" THEN c ELSE Newline(c)

OpenBrace(c) == Indent(Wln(c))
CloseBrace(c) == Wln(Dedent(c))

\* The end of a text whose first newline gets marks: they may be the last thing in
\* it, and an empty line right behind them does not show as one.
MarkedTail(inner) ==
  CASE inner.tail = "line" /\ inner.lines = 1  -> "mark"
    [] inner.tail = "blank" /\ inner.lines = 2 -> "line"
    [] OTHER -> inner.tail

\* w(inner) for another buffer, which the code asserts to have indent 0; it begins
\* with text, if it is not empty.  What is pending here goes behind its first
\* newline; what is pending in it is lost.
Append_(c, inner) ==
  CASE inner.tail = "empty" -> c
    [] inner.tail # "empty" /\ (c.pending = 0 \/ inner.lines = 0) ->
         [c EXCEPT !.tail = inner.tail, !.lines = Capped(@ + inner.lines), !.level = @ + inner.level]
    [] OTHER ->
         [c EXCEPT !.tail = MarkedTail(inner), !.lines = Capped(@ + inner.lines),
                   !.level = @ + c.pending + inner.level, !.pending = 0]

--------------------------------------------------------------------------------
\* Every mark asked for is in the text or pending.
Kept(c) == c.indent = c.level + c.pending

\* Between two lines, with d braces open.
Settled(c, d) == c.level = d /\ c.indent = d /\ c.pending = 0 /\ AtLineStart(c)
================================================================================
