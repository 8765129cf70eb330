-------------------------------- MODULE ShellScan --------------------------------
(***************************************************************************)
(* The scanner of scripts/check-probes.py, one symbol of preflight.sh at a *)
(* time: strip_code removes quoted spans, comments and heredoc openers,    *)
(* executable_lines drops heredoc bodies and joins continued lines, and    *)
(* CALL_RE looks for an outcome call in what is left.  One id is followed. *)
(*                                                                         *)
(* A symbol is what the three of them tell apart: a character, or a word   *)
(* of a kind.  CALL_RE runs along as the set of places it can be at.       *)
(***************************************************************************)
EXTENDS Naturals, Sequences

\* The parts of the scanner that are broken: none in the source.  The others are what
\* scripts/test-probe-gate.py guards against.
CONSTANT Off

Works(part) == part \notin Off

Blanks == {"sp", "tab"}
Quotes == {"dq", "sq", "ansi"}                              \* "  '  $'
\* A keyword, `!` or `time`; a lone `{`; NAME=; pass, fail or waive; the id; any
\* other word; the word that terminates a heredoc.
Words == {"lead", "brace", "eq", "verb", "id", "word", "T"}
\* A heredoc opener with the terminator T: <<T, <<'T', <<\T, <<-T, <<-'T', and with a T
\* that starts with a digit or holds a dot.
Openers == {"bare", "quoted", "escaped", "dash", "dash_quoted", "digit", "dotted"}
DashForms == {"dash", "dash_quoted"}
\* `op` is one of ; & | ( ), `hstr` is <<<, `bs` a backslash.
Symbols == Blanks \cup Quotes \cup Words \cup Openers \cup {"nl", "bs", "hash", "op", "hstr"}

--------------------------------------------------------------------------------
(* A raw line, as far as the comparison with a terminator looks at it. *)
RawNext(raw, c) ==
  CASE c = "tab" /\ raw \in {"start", "tabs"} -> "tabs"
    [] c \in Blanks /\ raw # "other" /\ (c = "sp" \/ raw = "blanks") -> "blanks"
    [] c = "T" /\ raw = "start" -> "T"
    [] c = "T" /\ raw = "tabs" -> "tabs_T"
    [] c = "T" /\ raw = "blanks" -> "blanks_T"
    [] OTHER -> "other"

\* Only <<- allows leading tabs before the terminator, and nothing allows other blanks.
Terminates(raw, opener) == raw = "T" \/ (raw = "tabs_T" /\ opener \in DashForms)

--------------------------------------------------------------------------------
(* CALL_RE: its places, and how a symbol that is left in the line moves it. *)
LeadMoves ==
  {<<"cmd", "lead", "lead">>, <<"cmd", "brace", "lead">>, <<"lead", "sp", "cmd">>,
   <<"cmd", "eq", "assign">>, <<"assign", "sp", "cmd">>}
CallMoves ==
  {<<"cmd", "sp", "cmd">>, <<"cmd", "verb", "verb">>, <<"verb", "sp", "arg">>,
   <<"arg", "sp", "arg">>, <<"arg", "id", "id">>, <<"id", "sp", "hit">>}
Moves == CallMoves \cup (IF Works("lead_chain") THEN LeadMoves ELSE {})

\* Seeded fault: a command begins after any blank, as in the first version.
BeginsAfterBlank(e) == e \in {"op", "sp"}

\* Where a match may begin: `^`, which is CodeLine's, or a separator.
Begins(e) ==
  \/ e = "op"
  \/ e = "sp" /\ ~Works("command_position")
  \/ e = "brace" /\ ~Works("brace_is_a_word")

\* \S* of an assignment goes over anything but a blank, separators included.
Match(rx, e) ==
  {m[3] : m \in {m \in Moves : m[1] \in rx /\ m[2] = e}}
    \cup (IF Begins(e) THEN {"cmd"} ELSE {})
    \cup (IF e = "lead" /\ ~Works("keyword_position") THEN {"lead"} ELSE {})
    \cup (IF e = "id" /\ ~Works("verb_anchor") THEN {"id"} ELSE {})
    \cup (IF e = "id" /\ "arg" \in rx /\ ~Works("id_boundary") THEN {"hit"} ELSE {})
    \cup (IF e # "sp" THEN rx \cap {"assign"} ELSE {})
    \cup (rx \cap {"hit"})

\* (?=\s|$) at the end of a logical line, and `^` at the start of the next.
MatchEnd(rx) == {"cmd"} \cup (IF rx \cap {"id", "hit"} # {} THEN {"hit"} ELSE {})

--------------------------------------------------------------------------------
ScanInit ==
  [quote |-> "none", skip |-> FALSE, comment |-> FALSE, last |-> "start",
   rx |-> {"cmd"}, resume |-> <<>>, pending |-> <<>>, body |-> FALSE, raw |-> "start"]

\* out.append.  `resume` is where CALL_RE was before a trailing backslash, for the
\* rstrip() and endswith("\\") of executable_lines; two backslashes continue nothing.
Emit(s, e) ==
  [s EXCEPT
     !.last = e,
     !.rx = Match(s.rx, e),
     !.resume = IF e = "bs" THEN (IF s.last = "bs" /\ Works("two_backslashes") THEN <<>> ELSE <<s.rx>>)
                ELSE IF e = "sp" THEN @ ELSE <<>>]

\* The QUOTED sentinel, which is no blank and in no id.
Removed(s) == Emit(s, IF Works("sentinel") THEN "NUL" ELSE "sp")

\* Seeded fault: a backslash escapes in '...' too.
EscapesEverywhere(quote) == TRUE

\* Inside a quoted span nothing is left, and only "..." and $'...' have escapes.
Escapes(quote) ==
  (quote = "dq" /\ Works("dq_escape")) \/ (quote = "ansi" /\ Works("ansi_escape"))

InQuote(s, c) ==
  IF c = "bs" /\ ~s.skip /\ Escapes(s.quote) THEN [s EXCEPT !.skip = TRUE]
  ELSE IF \/ c = "dq" /\ s.quote = "dq" /\ ~s.skip
          \/ c = "sq" /\ s.quote \in {"sq", "ansi"} /\ ~s.skip
          \/ c = "ansi" /\ s.quote \in {"sq", "ansi"}     \* the ' after a $
    THEN [s EXCEPT !.quote = "none", !.skip = FALSE]
    ELSE [s EXCEPT !.skip = FALSE]

\* HEREDOC_RE.
Opens(c) ==
  \/ c \in Openers /\ Works(c) /\ Works("heredocs")
  \/ c = "hstr" /\ ~Works("herestring")

Outside(s, c) ==
  CASE c \in Quotes /\ Works("quotes") -> [Removed(s) EXCEPT !.quote = c]
    [] c = "hash" /\ s.last \in {"start", "sp"} /\ Works("comments") -> [s EXCEPT !.comment = TRUE]
    [] Opens(c) ->
         [Removed(s) EXCEPT !.pending = IF Works("queue") \/ @ = <<>> THEN Append(@, c) ELSE @]
    [] c \in Blanks -> Emit(s, "sp")
    [] OTHER -> Emit(s, c)

\* strip_code, one symbol.
StripCode(s, c) ==
  CASE s.comment -> s
    [] ~s.comment /\ s.quote # "none" -> InQuote(s, c)
    [] OTHER -> Outside(s, c)

\* Seeded fault: the line is compared without its indentation.
EndsBodyIndented(s) == s.raw \in {"T", "tabs_T", "blanks_T"}

\* executable_lines, the end of a raw line: of a heredoc's body, or of code.
EndsBody(s) ==
  CASE ~Works("exact_terminator") -> s.raw \in {"T", "tabs_T", "blanks_T"}
    [] Works("exact_terminator") /\ ~Works("dash_tabs") -> s.raw = "T"
    [] OTHER -> Terminates(s.raw, Head(s.pending))

BodyLine(s) ==
  LET left == IF EndsBody(s) THEN Tail(s.pending) ELSE s.pending
  IN  [s EXCEPT !.pending = left, !.body = left # <<>>, !.raw = "start"]

\* Seeded fault: a comment goes on over the end of its line.
CodeLineKeepsComment(s) ==
  [s EXCEPT !.rx = MatchEnd(s.rx), !.resume = <<>>, !.last = "start",
            !.body = s.pending # <<>>, !.raw = "start"]

CodeLine(s) ==
  [s EXCEPT
     !.rx = IF s.resume # <<>> /\ Works("continuation") THEN Head(s.resume) ELSE MatchEnd(s.rx),
     !.quote = IF Works("quote_carry") THEN @ ELSE "none",
     !.resume = <<>>, !.comment = FALSE, !.skip = FALSE, !.last = "start",
     !.body = s.pending # <<>>, !.raw = "start"]

Scan(s, c) ==
  CASE c = "nl" /\ s.body -> BodyLine(s)
    [] c = "nl" /\ ~s.body -> CodeLine(s)
    [] c # "nl" /\ s.body -> [s EXCEPT !.raw = RawNext(@, c)]
    [] OTHER -> StripCode(s, c)

\* found_ids() has the id.
Counted(s) == "hit" \in s.rx
================================================================================
