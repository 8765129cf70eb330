------------------------------- MODULE ProbeShapes -------------------------------
(***************************************************************************)
(* check-probes.py and bash read one script side by side, typed symbol by  *)
(* symbol and of any length: a probe id the scanner counts is the first    *)
(* argument of an outcome call in bash, and the other way round.           *)
(*                                                                         *)
(* "This is not a shell parser" (check-probes.py): the constructs that do  *)
(* mislead it are named here.  Excluded takes them out of the script, and  *)
(* without any one of them TLC finds a script that is judged wrongly.      *)
(***************************************************************************)
EXTENDS BashReader

CONSTANTS
  MaxPending,   \* bound: heredocs that wait for their bodies
  Excluded      \* constructs no script holds

ASSUME ProbeShapesAssumption ==
  /\ Off = {}
  /\ MaxPending \in Nat
  /\ Excluded \subseteq
       {"escape", "assignment", "keyword", "heredoc", "hash", "redirect", "join"}

VARIABLES
  scan,   \* the scanner's state
  bash,   \* bash's
  prev,   \* the symbol typed last
  split   \* in this command a quoted string ran over the end of a line

vars == <<scan, bash, prev, split>>

Init ==
  /\ scan = ScanInit
  /\ bash = BashInit
  /\ prev = "nl"
  /\ split = FALSE

Places == {"cmd", "lead", "assign", "verb", "arg", "id", "hit"}

TypeOK ==
  /\ scan.quote \in Quotes \cup {"none"}
  /\ scan.rx \subseteq Places
  /\ Len(scan.pending) <= MaxPending /\ Len(bash.pending) <= MaxPending
  /\ scan.body => scan.pending # <<>>
  /\ scan.comment => scan.quote = "none" /\ prev # "nl"
  /\ bash.ran \subseteq {"blank", "glued"}
  /\ prev \in Symbols /\ split \in BOOLEAN

--------------------------------------------------------------------------------
\* bash reads code here, neither a quoted span nor a comment nor a body.
InCode == ~bash.body /\ bash.mode = "none" /\ ~bash.comment

\* What c may follow: two words next to each other would be a third, the terminator
\* of a heredoc is a word of its own, and a backslash escapes a single character.
Spelled(c) ==
  /\ c \in Words => prev \notin Openers /\ (prev \in Words => prev = "eq")
  /\ prev \in Openers => c \in Blanks \cup {"nl", "op"}
  /\ prev = "hstr" => c \notin {"hash", "hstr", "op"} \cup Openers
  /\ bash.mode = "none" /\ bash.esc => c \in {"nl", "sp", "bs", "dq", "sq", "op", "hash"}
  /\ c \in Openers => Len(scan.pending) < MaxPending /\ Len(bash.pending) < MaxPending

\* The constructs that mislead the scanner, where c completes one.
Misleads(construct, c) ==
  CASE construct = "escape" ->       \* \x outside quotes: echo \; pass a:b
         InCode /\ bash.esc /\ c # "nl"
    [] construct = "assignment" ->   \* A=1;echo pass a:b, which \S* goes over
         InCode /\ (bash.tok = "eq" \/ "assign" \in scan.rx) /\ c \in {"op", "hstr"}
    [] construct = "keyword" ->      \* A=1 then pass a:b: `then` is no keyword there
         InCode /\ bash.bw = "assigned" /\ bash.tok = "none" /\ c \in {"lead", "brace"}
    [] construct = "heredoc" ->      \* the body does not start on the next raw line
         bash.pending # <<>> /\ IF c = "bs" THEN InCode ELSE c = "nl" /\ bash.mode # "none"
    [] construct = "hash" ->         \* x;# and "x<newline>"#: a comment to one of them
         InCode /\ c = "hash" /\ (prev = "op" \/ (scan.last = "start" /\ bash.tok # "none"))
    [] construct = "redirect" ->     \* <<<x pass a:b: the command comes after it
         InCode /\ bash.bw # "arg" /\ c \in Openers \cup {"hstr"}
    [] construct = "join" ->         \* x\ in the body of <<T hides the T below it
         bash.body /\ bash.esc /\ c = "nl"

\* A line that starts a command: both begin anew, or none does.
StartsCommand == prev = "nl" /\ bash.mode = "none" /\ bash.tok = "none" /\ bash.bw = "cmd"

Runs(c) == c = "nl" /\ bash.mode # "none"

\* The verdicts are about the id that was typed last, in this command.
Forget(s) == [s EXCEPT !.rx = @ \ {"hit"}, !.resume = [i \in DOMAIN @ |-> @[i] \ {"hit"}]]

Type(c) ==
  LET anew == c = "id" \/ StartsCommand IN
  /\ Spelled(c)
  /\ \A construct \in Excluded : ~Misleads(construct, c)
  /\ scan' = Scan(IF anew THEN Forget(scan) ELSE scan, c)
  /\ bash' = Bash(IF anew THEN [bash EXCEPT !.ran = {}] ELSE bash, c)
  /\ prev' = c
  /\ split' = (Runs(c) \/ (split /\ ~StartsCommand))

Next == \E c \in Symbols : Type(c)

Spec == Init /\ [][Next]_vars

--------------------------------------------------------------------------------
\* "Parsed as the data they are" (check-probes.py, of heredocs and strings): the scanner
\* takes for data what bash takes for data, symbol by symbol and in every command.
SpansAgree ==
  /\ scan.quote = bash.mode
  /\ scan.comment = bash.comment
  /\ scan.body = bash.body
  /\ scan.pending = bash.pending

\* "A false PASS is the failure this file exists to prevent" (check-probes.py): an id
\* that is counted is one that bash hands to pass, fail or waive.
NoFalsePass == ~split /\ Counted(scan) => bash.ran # {}

\* The shapes bash genuinely runs are found (the `keeps` of test-probe-gate.py): an id
\* that is handed to an outcome call, with a blank or the end of the line behind it, is
\* counted.
RealProbesFound == ~split /\ bash.ran = {"blank"} => Counted(scan)

\* A string that spans lines, a heredoc or a comment costs the scanner no more than its
\* own command: where bash starts another one, the scanner does, outside of quotes and
\* with the same bodies to come.
StartInStep ==
  StartsCommand =>
    /\ scan.rx \ {"hit"} = {"cmd"}
    /\ scan.quote = "none"
    /\ scan.pending = bash.pending /\ scan.body = bash.body /\ scan.raw = bash.raw
================================================================================
