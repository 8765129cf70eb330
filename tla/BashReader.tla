------------------------------- MODULE BashReader -------------------------------
(***************************************************************************)
(* What bash makes of the same symbols: which words are commands, which    *)
(* are data, and where a heredoc ends.  Written from bash's manual, for    *)
(* the constructs check-probes.py names; `$( )` and backticks are left out.*)
(***************************************************************************)
EXTENDS ShellScan

\* mode: the quotes the cursor is in; esc: behind a backslash; tok: the word that is
\* being read; bw: what the next word is (cmd; assigned, after NAME=x; arg; probe, the
\* first argument of an outcome call); redir: it is the operand of <<<.
BashInit ==
  [mode |-> "none", esc |-> FALSE, comment |-> FALSE, tok |-> "none", bw |-> "cmd",
   redir |-> FALSE, pending |-> <<>>, body |-> FALSE, raw |-> "start", ran |-> {}]

\* The word that was being read ends.
NextWord(bw, tok) ==
  CASE bw = "cmd" /\ tok \in {"lead", "brace"} -> "cmd"
    [] bw \in {"cmd", "assigned"} /\ tok = "eq" -> "assigned"
    [] bw \in {"cmd", "assigned"} /\ tok = "verb" -> "probe"
    [] OTHER -> "arg"

\* `how`: a blank ends the word, or an operator that is glued to it.
EndWord(h, how) ==
  IF h.tok = "none" THEN h
  ELSE IF h.redir THEN [h EXCEPT !.tok = "none", !.redir = FALSE]
  ELSE [h EXCEPT !.tok = "none",
                 !.bw = NextWord(h.bw, h.tok),
                 !.ran = IF h.bw = "probe" /\ h.tok = "id" THEN @ \cup {how} ELSE @]

AddToWord(h, c) ==
  [h EXCEPT !.tok = IF @ = "none" /\ c \in Words THEN c ELSE IF @ = "eq" THEN @ ELSE "word"]

BashInQuote(h, c) ==
  IF c = "bs" /\ ~h.esc /\ h.mode \in {"dq", "ansi"} THEN [h EXCEPT !.esc = TRUE]
  ELSE IF \/ c = "dq" /\ h.mode = "dq" /\ ~h.esc
          \/ c = "sq" /\ h.mode \in {"sq", "ansi"} /\ ~h.esc
          \/ c = "ansi" /\ h.mode \in {"sq", "ansi"}
    THEN [h EXCEPT !.mode = "none", !.esc = FALSE]
    ELSE [h EXCEPT !.esc = FALSE]

BashOutside(h, c) ==
  CASE h.esc -> [AddToWord(h, "escaped") EXCEPT !.esc = FALSE]
    [] ~h.esc /\ c = "bs" -> [h EXCEPT !.esc = TRUE]
    [] ~h.esc /\ c = "hash" ->
         IF h.tok = "none" THEN [h EXCEPT !.comment = TRUE] ELSE AddToWord(h, c)
    [] ~h.esc /\ c \in Quotes -> [AddToWord(h, "quoted") EXCEPT !.mode = c]
    [] ~h.esc /\ c \in Blanks -> EndWord(h, "blank")
    [] ~h.esc /\ c = "op" -> [EndWord(h, "glued") EXCEPT !.bw = "cmd", !.redir = FALSE]
    [] ~h.esc /\ c \in Openers -> [EndWord(h, "glued") EXCEPT !.pending = Append(@, c)]
    [] ~h.esc /\ c = "hstr" -> [EndWord(h, "glued") EXCEPT !.redir = TRUE]
    [] OTHER -> AddToWord(h, c)

\* The forms whose body bash expands.
JoiningForms == {"bare", "dash"}

\* In the body of a heredoc that was opened unquoted, a backslash joins two lines.
BashInBody(h, c) ==
  CASE c = "nl" /\ h.esc /\ Head(h.pending) \in JoiningForms -> [h EXCEPT !.esc = FALSE]
    [] c = "nl" /\ ~(h.esc /\ Head(h.pending) \in JoiningForms) ->
         LET raw == IF h.esc THEN "other" ELSE h.raw
             left == IF Terminates(raw, Head(h.pending)) THEN Tail(h.pending) ELSE h.pending
         IN  [h EXCEPT !.pending = left, !.body = left # <<>>, !.raw = "start", !.esc = FALSE]
    [] c = "bs" ->
         IF h.esc THEN [h EXCEPT !.esc = FALSE, !.raw = "other"] ELSE [h EXCEPT !.esc = TRUE]
    [] OTHER ->
         [h EXCEPT !.esc = FALSE, !.raw = IF h.esc THEN "other" ELSE RawNext(@, c)]

BashLine(h) ==
  CASE h.mode # "none" -> [h EXCEPT !.esc = FALSE]
    [] h.mode = "none" /\ h.esc -> [h EXCEPT !.esc = FALSE]
    [] OTHER -> [EndWord(h, "blank") EXCEPT !.bw = "cmd", !.redir = FALSE, !.comment = FALSE,
                                          !.body = h.pending # <<>>, !.raw = "start"]

Bash(h, c) ==
  CASE h.body -> BashInBody(h, c)
    [] ~h.body /\ c = "nl" -> BashLine(h)
    [] ~h.body /\ c # "nl" /\ h.comment -> h
    [] ~h.body /\ c # "nl" /\ ~h.comment /\ h.mode # "none" -> BashInQuote(h, c)
    [] OTHER -> BashOutside(h, c)
================================================================================
