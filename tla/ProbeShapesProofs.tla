--------------------------- MODULE ProbeShapesProofs ---------------------------
(***************************************************************************)
(* Proofs about ProbeShapes, for scripts of any length with any number of  *)
(* heredocs in waiting.  What is true of both readers at once is stated of *)
(* a scanner's state s, a state h of bash, and the symbol p typed last.    *)
(***************************************************************************)
EXTENDS ProbeShapes, TLAPS

Raws == {"start", "tabs", "blanks", "T", "tabs_T", "blanks_T", "other"}
Resumes == {<<>>} \cup {<<rx>> : rx \in SUBSET Places}

ScanStates ==
  [quote : Quotes \cup {"none"}, skip : BOOLEAN, comment : BOOLEAN,
   last : Symbols \cup {"start", "NUL"}, rx : SUBSET Places, resume : Resumes,
   pending : Seq(Openers), body : BOOLEAN, raw : Raws]

BashStates ==
  [mode : Quotes \cup {"none"}, esc : BOOLEAN, comment : BOOLEAN,
   tok : Words \cup {"none"}, bw : {"cmd", "assigned", "arg", "probe"}, redir : BOOLEAN,
   pending : Seq(Openers), body : BOOLEAN, raw : Raws, ran : SUBSET {"blank", "glued"}]

--------------------------------------------------------------------------------
LEMMA AllWork == \A part : Works(part)
BY ProbeShapesAssumption DEF Works

\* CALL_RE, place by place.
LEMMA MatchPlaces ==
  ASSUME NEW rx, NEW e
  PROVE  /\ "cmd" \in Match(rx, e) <=>
              e = "op" \/ (e = "sp" /\ ("cmd" \in rx \/ "lead" \in rx \/ "assign" \in rx))
         /\ "lead" \in Match(rx, e) <=> e \in {"lead", "brace"} /\ "cmd" \in rx
         /\ "assign" \in Match(rx, e) <=>
              (e = "eq" /\ "cmd" \in rx) \/ (e # "sp" /\ "assign" \in rx)
         /\ "verb" \in Match(rx, e) <=> e = "verb" /\ "cmd" \in rx
         /\ "arg" \in Match(rx, e) <=> e = "sp" /\ ("verb" \in rx \/ "arg" \in rx)
         /\ "id" \in Match(rx, e) <=> e = "id" /\ "arg" \in rx
         /\ "hit" \in Match(rx, e) <=> "hit" \in rx \/ (e = "sp" /\ "id" \in rx)
         /\ Match(rx, e) \subseteq Places
<1>1. Moves = CallMoves \cup LeadMoves
  BY AllWork DEF Moves
<1> DEFINE moved == {m[3] : m \in {m \in Moves : m[1] \in rx /\ m[2] = e}}
<1>2. Match(rx, e) = moved \cup (IF e = "op" THEN {"cmd"} ELSE {})
                       \cup (IF e # "sp" THEN rx \cap {"assign"} ELSE {}) \cup (rx \cap {"hit"})
  BY AllWork DEF Match, Begins
<1> DEFINE Step(q) ==
        \/ e = "lead" /\ "cmd" \in rx /\ q = "lead"
        \/ e = "brace" /\ "cmd" \in rx /\ q = "lead"
        \/ e = "sp" /\ "lead" \in rx /\ q = "cmd"
        \/ e = "eq" /\ "cmd" \in rx /\ q = "assign"
        \/ e = "sp" /\ "assign" \in rx /\ q = "cmd"
        \/ e = "sp" /\ "cmd" \in rx /\ q = "cmd"
        \/ e = "verb" /\ "cmd" \in rx /\ q = "verb"
        \/ e = "sp" /\ "verb" \in rx /\ q = "arg"
        \/ e = "sp" /\ "arg" \in rx /\ q = "arg"
        \/ e = "id" /\ "arg" \in rx /\ q = "id"
        \/ e = "sp" /\ "id" \in rx /\ q = "hit"
<1>3. \A q : q \in moved <=> Step(q)
  <2>1. \A q : q \in moved <=> \E m \in Moves : m[1] \in rx /\ m[2] = e /\ m[3] = q
    OBVIOUS
  <2>2. \A m \in Moves : m[1] \in rx /\ m[2] = e => Step(m[3])
    BY <1>1 DEF CallMoves, LeadMoves
  <2>3. \A f, d, q : <<f, d, q>> \in Moves /\ f \in rx /\ d = e => q \in moved
    <3> SUFFICES ASSUME NEW f, NEW d, NEW q, <<f, d, q>> \in Moves, f \in rx, d = e
                 PROVE  q \in moved
      OBVIOUS
    <3>1. <<f, d, q>>[1] = f /\ <<f, d, q>>[2] = d /\ <<f, d, q>>[3] = q
      OBVIOUS
    <3> QED BY <3>1, <2>1
  <2>4. /\ <<"cmd", "lead", "lead">> \in Moves /\ <<"cmd", "brace", "lead">> \in Moves
        /\ <<"lead", "sp", "cmd">> \in Moves /\ <<"cmd", "eq", "assign">> \in Moves
        /\ <<"assign", "sp", "cmd">> \in Moves /\ <<"cmd", "sp", "cmd">> \in Moves
        /\ <<"cmd", "verb", "verb">> \in Moves /\ <<"verb", "sp", "arg">> \in Moves
        /\ <<"arg", "sp", "arg">> \in Moves /\ <<"arg", "id", "id">> \in Moves
        /\ <<"id", "sp", "hit">> \in Moves
    BY <1>1 DEF CallMoves, LeadMoves
  <2>5. \A q : Step(q) => q \in moved
    BY <2>3, <2>4
  <2> QED BY <2>1, <2>2, <2>5
<1> HIDE DEF moved
<1> QED BY <1>2, <1>3 DEF Places

LEMMA MatchEndPlaces ==
  ASSUME NEW rx
  PROVE  \A q : q \in MatchEnd(rx) <=> q = "cmd" \/ (q = "hit" /\ ("id" \in rx \/ "hit" \in rx))
BY DEF MatchEnd

LEMMA ResumesOne ==
  /\ \A rx \in SUBSET Places : <<rx>> \in Resumes /\ <<rx>> # <<>> /\ Head(<<rx>>) = rx
  /\ <<>> \in Resumes
  /\ \A r \in Resumes : r # <<>> => r = <<Head(r)>> /\ Head(r) \in SUBSET Places
BY DEF Resumes

LEMMA ForgetFields ==
  ASSUME NEW s \in ScanStates
  PROVE  /\ Forget(s) \in ScanStates
         /\ s.resume = <<>> => Forget(s) = [s EXCEPT !.rx = s.rx \ {"hit"}]
<1>1. CASE s.resume = <<>>
  <2>1. [i \in DOMAIN s.resume |-> s.resume[i] \ {"hit"}] = <<>>
    BY <1>1
  <2>2. Forget(s) = [s EXCEPT !.rx = s.rx \ {"hit"}]
    BY <1>1, <2>1 DEF Forget, ScanStates
  <2> QED BY <2>2 DEF ScanStates
<1>2. CASE s.resume # <<>>
  <2>1. PICK rx \in SUBSET Places : s.resume = <<rx>>
    BY <1>2 DEF ScanStates, Resumes
  <2>2. [i \in DOMAIN s.resume |-> s.resume[i] \ {"hit"}] = <<rx \ {"hit"}>>
    BY <2>1
  <2>3. <<rx \ {"hit"}>> \in Resumes
    BY ResumesOne
  <2>4. Forget(s) = [s EXCEPT !.rx = s.rx \ {"hit"}, !.resume = <<rx \ {"hit"}>>]
    BY <2>1, <2>2 DEF Forget, ScanStates
  <2> QED BY <1>2, <2>3, <2>4 DEF ScanStates
<1> QED BY <1>1, <1>2

--------------------------------------------------------------------------------
(***************************************************************************)
(* What each reader does with a symbol, case by case.                      *)
(***************************************************************************)
ScanInCode(s) == ~s.body /\ ~s.comment /\ s.quote = "none"

LEMMA ScanCases ==
  ASSUME NEW s \in ScanStates, NEW c \in Symbols
  PROVE  /\ s.body /\ c = "nl" => Scan(s, c) = BodyLine(s)
         /\ s.body /\ c # "nl" => Scan(s, c) = [s EXCEPT !.raw = RawNext(s.raw, c)]
         /\ ~s.body /\ c = "nl" => Scan(s, c) = CodeLine(s)
         /\ ~s.body /\ c # "nl" /\ s.comment => Scan(s, c) = s
         /\ ~s.body /\ c # "nl" /\ ~s.comment /\ s.quote # "none" => Scan(s, c) = InQuote(s, c)
         /\ ScanInCode(s) /\ c # "nl" => Scan(s, c) = Outside(s, c)
BY DEF Scan, StripCode, ScanInCode, ScanStates

LEMMA OutsideCases ==
  ASSUME NEW s \in ScanStates, NEW c \in Symbols \ {"nl"}
  PROVE  /\ c \in Quotes => Outside(s, c) = [Emit(s, "NUL") EXCEPT !.quote = c]
         /\ c = "hash" /\ s.last \in {"start", "sp"} => Outside(s, c) = [s EXCEPT !.comment = TRUE]
         /\ c \in Openers =>
              Outside(s, c) = [Emit(s, "NUL") EXCEPT !.pending = Append(s.pending, c)]
         /\ c \in Blanks => Outside(s, c) = Emit(s, "sp")
         /\ c \in Words \cup {"bs", "op", "hstr"} => Outside(s, c) = Emit(s, c)
         /\ c = "hash" /\ s.last \notin {"start", "sp"} => Outside(s, c) = Emit(s, c)
<1>1. Opens(c) <=> c \in Openers
  BY AllWork DEF Opens
<1>2. Removed(s) = Emit(s, "NUL")
  BY AllWork DEF Removed
<1>3. Emit(s, "NUL").pending = s.pending
  BY DEF Emit, ScanStates
<1> QED
  BY <1>1, <1>2, <1>3, AllWork DEF Outside, Quotes, Openers, Blanks, Words, Symbols

LEMMA EmitFields ==
  ASSUME NEW s \in ScanStates, NEW e \in Symbols \cup {"NUL"}
  PROVE  /\ Emit(s, e) \in ScanStates
         /\ Emit(s, e).last = e
         /\ Emit(s, e).rx = Match(s.rx, e)
         /\ e = "bs" /\ s.last # "bs" => Emit(s, e).resume = <<s.rx>>
         /\ e = "sp" => Emit(s, e).resume = s.resume
         /\ e \notin {"bs", "sp"} => Emit(s, e).resume = <<>>
         /\ Emit(s, e).quote = s.quote /\ Emit(s, e).skip = s.skip
         /\ Emit(s, e).comment = s.comment /\ Emit(s, e).pending = s.pending
         /\ Emit(s, e).body = s.body /\ Emit(s, e).raw = s.raw
<1>1. Match(s.rx, e) \in SUBSET Places
  BY MatchPlaces
<1>2. <<s.rx>> \in Resumes /\ <<>> \in Resumes
  BY ResumesOne DEF ScanStates
<1> QED BY <1>1, <1>2, AllWork DEF Emit, ScanStates

LEMMA RawTyped ==
  ASSUME NEW raw \in Raws, NEW c
  PROVE  RawNext(raw, c) \in Raws
BY DEF RawNext, Raws

LEMMA QueueTyped ==
  ASSUME NEW q \in Seq(Openers)
  PROVE  /\ \A c \in Openers : Append(q, c) \in Seq(Openers) /\ Append(q, c) # <<>> /\ Len(Append(q, c)) = Len(q) + 1
         /\ q # <<>> => Tail(q) \in Seq(Openers) /\ Head(q) \in Openers /\ Len(Tail(q)) = Len(q) - 1
         /\ Len(q) \in Nat
BY DEF Openers

LEMMA InQuoteFields ==
  ASSUME NEW s \in ScanStates, NEW c \in Symbols, s.quote # "none"
  PROVE  /\ InQuote(s, c) \in ScanStates
         /\ InQuote(s, c).quote =
              IF \/ c = "dq" /\ s.quote = "dq" /\ ~s.skip
                 \/ c = "sq" /\ s.quote \in {"sq", "ansi"} /\ ~s.skip
                 \/ c = "ansi" /\ s.quote \in {"sq", "ansi"}
                THEN "none" ELSE s.quote
         /\ InQuote(s, c).skip <=> c = "bs" /\ ~s.skip /\ s.quote \in {"dq", "ansi"}
         /\ InQuote(s, c).comment = s.comment /\ InQuote(s, c).last = s.last /\ InQuote(s, c).rx = s.rx
         /\ InQuote(s, c).resume = s.resume /\ InQuote(s, c).pending = s.pending /\ InQuote(s, c).body = s.body
         /\ InQuote(s, c).raw = s.raw
BY AllWork DEF InQuote, Escapes, ScanStates, Quotes

LEMMA BodyLineFields ==
  ASSUME NEW s \in ScanStates, s.pending # <<>>
  PROVE  LET left == IF Terminates(s.raw, Head(s.pending)) THEN Tail(s.pending) ELSE s.pending
         IN  /\ BodyLine(s) \in ScanStates
             /\ BodyLine(s) = [s EXCEPT !.pending = left, !.body = left # <<>>, !.raw = "start"]
<1>1. EndsBody(s) = Terminates(s.raw, Head(s.pending))
  BY AllWork DEF EndsBody
<1>2. Tail(s.pending) \in Seq(Openers)
  BY QueueTyped DEF ScanStates
<1> QED BY <1>1, <1>2 DEF BodyLine, ScanStates, Raws

LEMMA CodeLineFields ==
  ASSUME NEW s \in ScanStates
  PROVE  /\ CodeLine(s) \in ScanStates
         /\ CodeLine(s).rx = IF s.resume # <<>> THEN Head(s.resume) ELSE MatchEnd(s.rx)
         /\ CodeLine(s).quote = s.quote
         /\ CodeLine(s).pending = s.pending
         /\ CodeLine(s).resume = <<>> /\ ~CodeLine(s).comment /\ ~CodeLine(s).skip
         /\ CodeLine(s).last = "start" /\ CodeLine(s).raw = "start"
         /\ CodeLine(s).body = (s.pending # <<>>)
<1>1. MatchEnd(s.rx) \in SUBSET Places
  BY MatchEndPlaces DEF Places
<1>2. s.resume # <<>> => Head(s.resume) \in SUBSET Places
  BY ResumesOne DEF ScanStates
<1>3. <<>> \in Resumes
  BY ResumesOne
<1> QED BY <1>1, <1>2, <1>3, AllWork DEF CodeLine, ScanStates, Raws

BashInCode(h) == ~h.body /\ ~h.comment /\ h.mode = "none"

LEMMA BashCases ==
  ASSUME NEW h \in BashStates, NEW c \in Symbols
  PROVE  /\ h.body => Bash(h, c) = BashInBody(h, c)
         /\ ~h.body /\ c = "nl" => Bash(h, c) = BashLine(h)
         /\ ~h.body /\ c # "nl" /\ h.comment => Bash(h, c) = h
         /\ ~h.body /\ c # "nl" /\ ~h.comment /\ h.mode # "none" =>
              Bash(h, c) = BashInQuote(h, c)
         /\ BashInCode(h) /\ c # "nl" => Bash(h, c) = BashOutside(h, c)
BY DEF Bash, BashInCode, BashStates

\* EndWord, however the word ended.
LEMMA EndWordFields ==
  ASSUME NEW h \in BashStates, NEW how \in {"blank", "glued"}
  PROVE  /\ EndWord(h, how) \in BashStates
         /\ EndWord(h, how).tok = "none"
         /\ EndWord(h, how).redir <=> h.redir /\ h.tok = "none"
         /\ EndWord(h, how).bw =
              IF h.tok = "none" \/ h.redir THEN h.bw ELSE NextWord(h.bw, h.tok)
         /\ EndWord(h, how).ran =
              IF ~h.redir /\ h.bw = "probe" /\ h.tok = "id" THEN h.ran \cup {how} ELSE h.ran
         /\ EndWord(h, how).mode = h.mode /\ EndWord(h, how).esc = h.esc /\ EndWord(h, how).comment = h.comment
         /\ EndWord(h, how).pending = h.pending /\ EndWord(h, how).body = h.body /\ EndWord(h, how).raw = h.raw
<1>1. NextWord(h.bw, h.tok) \in {"cmd", "assigned", "arg", "probe"}
  BY DEF NextWord
<1>2. CASE h.tok = "none"
  BY <1>2 DEF EndWord, BashStates
<1>3. CASE h.tok # "none" /\ h.redir
  BY <1>3 DEF EndWord, BashStates
<1>4. CASE h.tok # "none" /\ ~h.redir
  <2> DEFINE seen == IF h.bw = "probe" /\ h.tok = "id" THEN h.ran \cup {how} ELSE h.ran
  <2>1. EndWord(h, how) = [h EXCEPT !.tok = "none", !.bw = NextWord(h.bw, h.tok), !.ran = seen]
    BY <1>4 DEF EndWord, BashStates
  <2>2. seen \in SUBSET {"blank", "glued"}
    BY DEF BashStates
  <2> HIDE DEF seen
  <2>3. /\ EndWord(h, how) \in BashStates /\ EndWord(h, how).ran = seen
        /\ EndWord(h, how).tok = "none" /\ EndWord(h, how).bw = NextWord(h.bw, h.tok)
        /\ EndWord(h, how).redir = h.redir /\ EndWord(h, how).mode = h.mode
        /\ EndWord(h, how).esc = h.esc /\ EndWord(h, how).comment = h.comment
        /\ EndWord(h, how).pending = h.pending /\ EndWord(h, how).body = h.body
        /\ EndWord(h, how).raw = h.raw
    BY <1>1, <2>1, <2>2 DEF BashStates
  <2> QED BY <1>4, <2>3 DEF seen
<1> QED BY <1>2, <1>3, <1>4

LEMMA AddToWordFields ==
  ASSUME NEW h \in BashStates, NEW c
  PROVE  /\ AddToWord(h, c) \in BashStates
         /\ AddToWord(h, c) =
              [h EXCEPT !.tok = IF h.tok = "none" /\ c \in Words THEN c
                                ELSE IF h.tok = "eq" THEN "eq" ELSE "word"]
BY DEF AddToWord, BashStates, Words

LEMMA BashOutsideCases ==
  ASSUME NEW h \in BashStates, NEW c \in Symbols \ {"nl"}, ~h.esc
  PROVE  /\ c = "bs" => BashOutside(h, c) = [h EXCEPT !.esc = TRUE]
         /\ c = "hash" /\ h.tok = "none" => BashOutside(h, c) = [h EXCEPT !.comment = TRUE]
         /\ c = "hash" /\ h.tok # "none" => BashOutside(h, c) = AddToWord(h, c)
         /\ c \in Quotes => BashOutside(h, c) = [AddToWord(h, "quoted") EXCEPT !.mode = c]
         /\ c \in Blanks => BashOutside(h, c) = EndWord(h, "blank")
         /\ c = "op" => BashOutside(h, c) = [EndWord(h, "glued") EXCEPT !.bw = "cmd", !.redir = FALSE]
         /\ c \in Openers =>
              BashOutside(h, c) = [EndWord(h, "glued") EXCEPT !.pending = Append(h.pending, c)]
         /\ c = "hstr" => BashOutside(h, c) = [EndWord(h, "glued") EXCEPT !.redir = TRUE]
         /\ c \in Words => BashOutside(h, c) = AddToWord(h, c)
<1>1. EndWord(h, "glued").pending = h.pending
  BY EndWordFields
<1> QED BY <1>1 DEF BashOutside, Quotes, Blanks, Openers, Words, Symbols

LEMMA BashInQuoteFields ==
  ASSUME NEW h \in BashStates, NEW c \in Symbols, h.mode # "none"
  PROVE  /\ BashInQuote(h, c) \in BashStates
         /\ BashInQuote(h, c).mode =
              IF \/ c = "dq" /\ h.mode = "dq" /\ ~h.esc
                 \/ c = "sq" /\ h.mode \in {"sq", "ansi"} /\ ~h.esc
                 \/ c = "ansi" /\ h.mode \in {"sq", "ansi"}
                THEN "none" ELSE h.mode
         /\ BashInQuote(h, c).esc <=> c = "bs" /\ ~h.esc /\ h.mode \in {"dq", "ansi"}
         /\ BashInQuote(h, c).comment = h.comment /\ BashInQuote(h, c).tok = h.tok /\ BashInQuote(h, c).bw = h.bw
         /\ BashInQuote(h, c).redir = h.redir /\ BashInQuote(h, c).pending = h.pending /\ BashInQuote(h, c).body = h.body
         /\ BashInQuote(h, c).raw = h.raw /\ BashInQuote(h, c).ran = h.ran
BY DEF BashInQuote, BashStates, Quotes

\* A body: the end of a line that ends in no backslash, and any other symbol.
LEMMA BashBodyLine ==
  ASSUME NEW h \in BashStates, h.pending # <<>>, ~h.esc
  PROVE  /\ BashInBody(h, "nl") \in BashStates
         /\ BashInBody(h, "nl") =
              [h EXCEPT
                 !.pending = IF Terminates(h.raw, Head(h.pending)) THEN Tail(h.pending) ELSE h.pending,
                 !.body = (IF Terminates(h.raw, Head(h.pending)) THEN Tail(h.pending)
                           ELSE h.pending) # <<>>,
                 !.raw = "start", !.esc = FALSE]
<1>1. Tail(h.pending) \in Seq(Openers)
  BY QueueTyped DEF BashStates
<1> QED BY <1>1 DEF BashInBody, BashStates, Raws

LEMMA BashBodySymbol ==
  ASSUME NEW h \in BashStates, NEW c \in Symbols \ {"nl"}
  PROVE  /\ BashInBody(h, c) \in BashStates
         /\ BashInBody(h, c).esc <=> c = "bs" /\ ~h.esc
         /\ BashInBody(h, c).raw =
              IF h.esc THEN "other" ELSE IF c = "bs" THEN h.raw ELSE RawNext(h.raw, c)
         /\ BashInBody(h, c).mode = h.mode /\ BashInBody(h, c).comment = h.comment
         /\ BashInBody(h, c).tok = h.tok /\ BashInBody(h, c).bw = h.bw
         /\ BashInBody(h, c).redir = h.redir /\ BashInBody(h, c).pending = h.pending
         /\ BashInBody(h, c).body = h.body /\ BashInBody(h, c).ran = h.ran
<1>1. RawNext(h.raw, c) \in Raws
  BY RawTyped DEF BashStates
<1> QED BY <1>1 DEF BashInBody, BashStates, Raws

LEMMA BashLineFields ==
  ASSUME NEW h \in BashStates
  PROVE  /\ BashLine(h) \in BashStates
         /\ h.mode # "none" \/ h.esc => BashLine(h) = [h EXCEPT !.esc = FALSE]
         /\ h.mode = "none" /\ ~h.esc =>
              BashLine(h) =
                [EndWord(h, "blank") EXCEPT !.bw = "cmd", !.redir = FALSE, !.comment = FALSE,
                                           !.body = h.pending # <<>>, !.raw = "start"]
<1>1. EndWord(h, "blank") \in BashStates /\ EndWord(h, "blank").pending = h.pending
  BY EndWordFields
<1>2. CASE h.mode # "none" \/ h.esc
  <2>1. BashLine(h) = [h EXCEPT !.esc = FALSE]
    BY <1>2 DEF BashLine
  <2> QED BY <1>2, <2>1 DEF BashStates
<1>3. CASE h.mode = "none" /\ ~h.esc
  <2> DEFINE ended == EndWord(h, "blank")
  <2>1. BashLine(h) =
          [ended EXCEPT !.bw = "cmd", !.redir = FALSE, !.comment = FALSE,
                        !.body = h.pending # <<>>, !.raw = "start"]
    BY <1>3 DEF BashLine
  <2> HIDE DEF ended
  <2>2. [ended EXCEPT !.bw = "cmd", !.redir = FALSE, !.comment = FALSE,
                      !.body = h.pending # <<>>, !.raw = "start"] \in BashStates
    <3>1. \A e \in BashStates, b \in BOOLEAN :
            [e EXCEPT !.bw = "cmd", !.redir = FALSE, !.comment = FALSE,
                      !.body = b, !.raw = "start"] \in BashStates
      BY DEF BashStates, Raws
    <3>2. (h.pending # <<>>) \in BOOLEAN
      OBVIOUS
    <3> QED BY <1>1, <3>1, <3>2 DEF ended
  <2> QED BY <1>3, <2>1, <2>2 DEF ended
<1> QED BY <1>2, <1>3 DEF BashStates

--------------------------------------------------------------------------------
(***************************************************************************)
(* Types.                                                                  *)
(***************************************************************************)
ScanTyped(s) ==
  /\ s \in ScanStates
  /\ Len(s.pending) <= MaxPending
  /\ s.body => s.pending # <<>> /\ ~s.comment
  /\ s.comment => s.quote = "none"

BashTyped(h) ==
  /\ h \in BashStates
  /\ Len(h.pending) <= MaxPending
  /\ h.body => h.pending # <<>>

Typed ==
  /\ ScanTyped(scan) /\ BashTyped(bash)
  /\ scan.comment => prev # "nl"
  /\ prev \in Symbols /\ split \in BOOLEAN

LEMMA ScanKeepsType ==
  ASSUME NEW s, ScanTyped(s), NEW c \in Symbols, c \in Openers => Len(s.pending) < MaxPending
  PROVE  ScanTyped(Scan(s, c)) /\ (c = "nl" => ~Scan(s, c).comment)
<1> USE DEF ScanTyped
<1>1. s \in ScanStates /\ Len(s.pending) \in Nat /\ MaxPending \in Nat
  BY QueueTyped, ProbeShapesAssumption DEF ScanStates
<1>2. CASE s.body /\ c = "nl"
  <2>1. s.pending # <<>> /\ Len(Tail(s.pending)) = Len(s.pending) - 1
    BY <1>2, QueueTyped DEF ScanStates
  <2> DEFINE left == IF Terminates(s.raw, Head(s.pending)) THEN Tail(s.pending) ELSE s.pending
  <2>2. Len(left) <= MaxPending
    BY <1>1, <2>1
  <2> HIDE DEF left
  <2>3. /\ BodyLine(s) \in ScanStates /\ BodyLine(s).pending = left
        /\ BodyLine(s).body <=> left # <<>>
        /\ BodyLine(s).comment = s.comment /\ BodyLine(s).quote = s.quote
    <3>1. BodyLine(s) = [s EXCEPT !.pending = left, !.body = left # <<>>, !.raw = "start"]
      BY <2>1, BodyLineFields DEF left
    <3>2. BodyLine(s) \in ScanStates
      BY <2>1, BodyLineFields
    <3> QED BY <3>1, <3>2 DEF ScanStates
  <2>4. Scan(s, c) = BodyLine(s)
    BY <1>2, ScanCases
  <2> QED BY <1>2, <2>2, <2>3, <2>4 DEF ScanStates
<1>3. CASE s.body /\ c # "nl"
  BY <1>3, ScanCases, RawTyped DEF ScanStates
<1>4. CASE ~s.body /\ c = "nl"
  <2>1. Scan(s, c) = CodeLine(s)
    BY <1>4, ScanCases
  <2>2. /\ CodeLine(s) \in ScanStates /\ ~CodeLine(s).comment
        /\ CodeLine(s).pending = s.pending /\ CodeLine(s).body = (s.pending # <<>>)
    BY CodeLineFields
  <2> QED BY <2>1, <2>2
<1>5. CASE ~s.body /\ c # "nl" /\ s.comment
  BY <1>5, ScanCases
<1>6. CASE ~s.body /\ c # "nl" /\ ~s.comment /\ s.quote # "none"
  BY <1>6, ScanCases, InQuoteFields
<1>7. CASE ScanInCode(s) /\ c # "nl"
  <2>1. Scan(s, c) = Outside(s, c) /\ ~s.body /\ ~s.comment /\ s.quote = "none"
    BY <1>7, ScanCases DEF ScanInCode
  <2>2. CASE c \in Quotes
    <3>1. Scan(s, c) = [Emit(s, "NUL") EXCEPT !.quote = c]
      BY <1>7, <2>1, <2>2, OutsideCases
    <3> QED BY <1>7, <2>1, <2>2, <3>1, EmitFields DEF ScanStates
  <2>3. CASE c = "hash" /\ s.last \in {"start", "sp"}
    <3>1. Scan(s, c) = [s EXCEPT !.comment = TRUE]
      BY <1>7, <2>1, <2>3, OutsideCases
    <3> QED BY <1>7, <2>1, <3>1 DEF ScanStates
  <2>4. CASE c \in Openers
    <3>1. Scan(s, c) = [Emit(s, "NUL") EXCEPT !.pending = Append(s.pending, c)]
      BY <1>7, <2>1, <2>4, OutsideCases
    <3>2. Append(s.pending, c) \in Seq(Openers) /\ Len(Append(s.pending, c)) <= MaxPending
      BY <1>1, <2>4, QueueTyped DEF ScanStates
    <3>3. /\ Emit(s, "NUL") \in ScanStates /\ Emit(s, "NUL").body = s.body
          /\ Emit(s, "NUL").comment = s.comment
      BY EmitFields
    <3>4. Append(s.pending, c) # <<>>
      BY <2>4, QueueTyped DEF ScanStates
    <3> HIDE DEF ScanTyped
    <3> QED BY <1>7, <2>1, <3>1, <3>2, <3>3, <3>4 DEF ScanStates, ScanTyped
  <2>5. CASE c \in Blanks
    BY <1>7, <2>1, <2>5, OutsideCases, EmitFields DEF Blanks, Symbols
  <2>6. CASE c \in Words \cup {"bs", "op", "hstr"} \/ (c = "hash" /\ s.last \notin {"start", "sp"})
    BY <1>7, <2>1, <2>6, OutsideCases, EmitFields
  <2> QED BY <1>7, <2>2, <2>3, <2>4, <2>5, <2>6 DEF Symbols
<1> QED BY <1>2, <1>3, <1>4, <1>5, <1>6, <1>7 DEF ScanInCode

LEMMA BashKeepsType ==
  ASSUME NEW h, BashTyped(h), NEW c \in Symbols, c \in Openers => Len(h.pending) < MaxPending
  PROVE  BashTyped(Bash(h, c))
<1> USE DEF BashTyped
<1>1. h \in BashStates /\ Len(h.pending) \in Nat /\ MaxPending \in Nat
  BY QueueTyped, ProbeShapesAssumption DEF BashStates
<1>2. CASE h.body /\ ~(c = "nl" /\ h.esc)
  <2>1. h.pending # <<>> /\ Len(Tail(h.pending)) = Len(h.pending) - 1
    BY <1>2, QueueTyped DEF BashStates
  <2> DEFINE left == IF Terminates(h.raw, Head(h.pending)) THEN Tail(h.pending) ELSE h.pending
  <2>2. Len(left) <= MaxPending
    BY <1>1, <2>1
  <2>3. Bash(h, c) = BashInBody(h, c) /\ BashInBody(h, c) \in BashStates
    <3>1. Bash(h, c) = BashInBody(h, c)
      BY <1>2, BashCases
    <3>2. BashInBody(h, c) \in BashStates
      BY <1>2, <2>1, BashBodyLine, BashBodySymbol
    <3> QED BY <3>1, <3>2
  <2>4. CASE c = "nl"
    <3>1. Bash(h, c) = [h EXCEPT !.pending = left, !.body = left # <<>>, !.raw = "start", !.esc = FALSE]
      BY <1>2, <2>1, <2>3, <2>4, BashBodyLine
    <3> HIDE DEF left
    <3> QED BY <2>2, <2>3, <3>1 DEF BashStates
  <2>5. CASE c # "nl"
    <3>1. BashInBody(h, c).pending = h.pending /\ BashInBody(h, c).body = h.body
      BY <1>2, <2>1, <2>5, BashBodySymbol
    <3> QED BY <2>1, <2>3, <3>1
  <2> QED BY <2>4, <2>5
<1>3. CASE h.body /\ c = "nl" /\ h.esc
  <2>1. h.pending # <<>> /\ Len(Tail(h.pending)) = Len(h.pending) - 1 /\ Tail(h.pending) \in Seq(Openers)
    BY <1>3, QueueTyped DEF BashStates
  <2> DEFINE left == IF Terminates("other", Head(h.pending)) THEN Tail(h.pending) ELSE h.pending
  <2>2. Len(left) <= MaxPending /\ left \in Seq(Openers)
    BY <1>1, <2>1 DEF BashStates
  <2>3. \/ Bash(h, c) = [h EXCEPT !.esc = FALSE]
        \/ Bash(h, c) = [h EXCEPT !.pending = left, !.body = left # <<>>, !.raw = "start", !.esc = FALSE]
    BY <1>3, BashCases DEF BashInBody
  <2> HIDE DEF left
  <2> QED BY <2>1, <2>2, <2>3 DEF BashStates, Raws
<1>4. CASE ~h.body /\ c = "nl"
  <2>1. CASE h.mode # "none" \/ h.esc
    <3>1. Bash(h, c) = [h EXCEPT !.esc = FALSE]
      BY <1>4, <2>1, BashCases, BashLineFields
    <3> QED BY <1>4, <3>1 DEF BashStates
  <2>2. CASE h.mode = "none" /\ ~h.esc
    <3> DEFINE ended == EndWord(h, "blank")
    <3>1. ended \in BashStates /\ ended.pending = h.pending
      BY EndWordFields
    <3> HIDE DEF ended
    <3>2. Bash(h, c) = [ended EXCEPT !.bw = "cmd", !.redir = FALSE, !.comment = FALSE,
                                     !.body = h.pending # <<>>, !.raw = "start"]
      BY <1>4, <2>2, BashCases, BashLineFields DEF ended
    <3>3. Bash(h, c) \in BashStates
      BY <1>4, BashCases, BashLineFields
    <3>4. Bash(h, c).pending = h.pending /\ (Bash(h, c).body <=> h.pending # <<>>)
      BY <3>1, <3>2 DEF BashStates
    <3> QED BY <1>1, <3>3, <3>4
  <2> QED BY <2>1, <2>2 DEF BashStates
<1>5. CASE ~h.body /\ c # "nl" /\ h.comment
  BY <1>5, BashCases
<1>6. CASE ~h.body /\ c # "nl" /\ ~h.comment /\ h.mode # "none"
  BY <1>6, BashCases, BashInQuoteFields
<1>7. CASE BashInCode(h) /\ c # "nl"
  <2>1. Bash(h, c) = BashOutside(h, c) /\ ~h.body
    BY <1>7, BashCases DEF BashInCode
  <2>2. CASE h.esc
    <3>1. Bash(h, c) = [AddToWord(h, "escaped") EXCEPT !.esc = FALSE]
      BY <2>1, <2>2 DEF BashOutside
    <3>2. AddToWord(h, "escaped") \in BashStates /\ AddToWord(h, "escaped").pending = h.pending /\ AddToWord(h, "escaped").body = h.body
      BY AddToWordFields DEF BashStates
    <3> QED BY <2>1, <3>1, <3>2 DEF BashStates
  <2> SUFFICES ASSUME ~h.esc PROVE BashTyped(Bash(h, c))
    BY <2>2
  <2>3. CASE c \in {"bs", "hash"} \cup Words
    <3>1. AddToWord(h, c) \in BashStates /\ AddToWord(h, c).pending = h.pending /\ AddToWord(h, c).body = h.body
      BY AddToWordFields DEF BashStates
    <3>2. \/ Bash(h, c) = AddToWord(h, c)
          \/ Bash(h, c) = [h EXCEPT !.esc = TRUE] \/ Bash(h, c) = [h EXCEPT !.comment = TRUE]
      BY <1>7, <2>1, <2>3, BashOutsideCases
    <3> QED BY <2>1, <3>1, <3>2 DEF BashStates
  <2>4. CASE c \in Quotes
    <3>1. Bash(h, c) = [AddToWord(h, "quoted") EXCEPT !.mode = c]
      BY <1>7, <2>1, <2>4, BashOutsideCases
    <3> QED BY <2>1, <2>4, <3>1, AddToWordFields DEF BashStates
  <2>5. CASE c \in Blanks
    <3>1. Bash(h, c) = EndWord(h, "blank")
      BY <1>7, <2>1, <2>5, BashOutsideCases
    <3>2. EndWord(h, "blank") \in BashStates /\ EndWord(h, "blank").pending = h.pending /\ EndWord(h, "blank").body = h.body
      BY EndWordFields
    <3> QED BY <2>1, <3>1, <3>2
  <2> DEFINE ended == EndWord(h, "glued")
  <2>6. ended \in BashStates /\ ended.pending = h.pending /\ ended.body = h.body
    BY EndWordFields
  <2> HIDE DEF ended
  <2>7. CASE c = "op"
    <3>1. Bash(h, c) = [ended EXCEPT !.bw = "cmd", !.redir = FALSE]
      BY <1>7, <2>1, <2>7, BashOutsideCases DEF ended
    <3> QED BY <2>1, <2>6, <3>1 DEF BashStates
  <2>8. CASE c \in Openers
    <3>1. Bash(h, c) = [ended EXCEPT !.pending = Append(h.pending, c)]
      BY <1>7, <2>1, <2>8, BashOutsideCases DEF ended
    <3>2. Append(h.pending, c) \in Seq(Openers) /\ Len(Append(h.pending, c)) <= MaxPending
      BY <1>1, <2>8, QueueTyped DEF BashStates
    <3> QED BY <2>1, <2>6, <3>1, <3>2 DEF BashStates
  <2>9. CASE c = "hstr"
    <3>1. Bash(h, c) = [ended EXCEPT !.redir = TRUE]
      BY <1>7, <2>1, <2>9, BashOutsideCases DEF ended
    <3> QED BY <2>1, <2>6, <3>1 DEF BashStates
  <2> QED BY <1>7, <2>3, <2>4, <2>5, <2>7, <2>8, <2>9 DEF Symbols
<1> QED BY <1>2, <1>3, <1>4, <1>5, <1>6, <1>7 DEF BashInCode

--------------------------------------------------------------------------------
(***************************************************************************)
(* Data: strings, comments and bodies begin and end for both at the same   *)
(* symbol, whatever commands are around them.                              *)
(***************************************************************************)
SameSpans(s, h) ==
  /\ s.quote = h.mode /\ s.comment = h.comment
  /\ s.body = h.body /\ s.pending = h.pending

\* A body and a comment are read outside of quotes and of each other; a line of a body
\* looks the same to both, except that bash waits for what follows a backslash.
BodiesInStep(s, h) ==
  /\ s.raw = IF h.body /\ h.esc THEN "other" ELSE h.raw
  /\ ~h.body => h.raw = "start"
  /\ h.body => h.mode = "none" /\ ~h.comment /\ h.tok = "none" /\ h.bw = "cmd" /\ s.last = "start"
  /\ h.comment => h.mode = "none" /\ ~h.esc

\* Where CALL_RE is, or will be again once the next line is joined to this one.
Here(s) == IF s.resume = <<>> THEN s.rx ELSE Head(s.resume)

EscapesInStep(s, h, p) ==
  /\ s.skip <=> h.esc /\ h.mode # "none"
  /\ h.esc => p = "bs"
  /\ BashInCode(h) /\ h.esc => h.pending = <<>>
  /\ s.last = "bs" => BashInCode(h) /\ h.esc
  /\ s.resume # <<>> <=> BashInCode(h) /\ h.esc
  /\ "hit" \in Here(s) <=> "hit" \in s.rx

\* Where a comment may begin.
WordsInStep(s, h, p) ==
  /\ h.mode # "none" => h.tok \in {"word", "eq"} /\ s.last # "sp"
  /\ BashInCode(h) /\ s.last = "sp" => h.tok = "none"
  /\ BashInCode(h) /\ ~h.esc /\ h.tok = "none" /\ s.last \notin {"start", "sp"} =>
       p \in {"op", "hstr"} \cup Openers

Spans(s, h, p) ==
  SameSpans(s, h) /\ BodiesInStep(s, h) /\ EscapesInStep(s, h, p) /\ WordsInStep(s, h, p)

\* The scripts without the four constructs that mislead the scanner about spans.
SpanConstructs == {"escape", "heredoc", "hash", "join"}

Clean(s, h, p, c) ==
  /\ BashInCode(h) /\ h.esc => c = "nl"
  /\ h.body /\ h.esc => c # "nl"
  /\ h.pending # <<>> => ~(c = "bs" /\ BashInCode(h)) /\ ~(c = "nl" /\ h.mode # "none")
  /\ BashInCode(h) /\ c = "hash" =>
       p \notin {"op", "hstr"} \cup Openers /\ (s.last = "start" => h.tok = "none")

Ready(s, h, p, c) == ScanTyped(s) /\ BashTyped(h) /\ Spans(s, h, p) /\ Clean(s, h, p, c)

(* What a symbol does to the words of bash, t and g being the next states. *)

\* Nothing: it is data, or joins two lines.
Quiet(s, h, t, g) ==
  Here(t) = Here(s) /\ g.tok = h.tok /\ g.bw = h.bw /\ g.redir = h.redir /\ g.ran = h.ran

\* The end of a line, inside a string or not.
LineRuns(s, h, t, g) ==
  /\ Here(t) = MatchEnd(Here(s))
  /\ g.tok = h.tok /\ g.bw = h.bw /\ g.redir = h.redir /\ g.ran = h.ran
Ran(h, how) == IF ~h.redir /\ h.bw = "probe" /\ h.tok = "id" THEN h.ran \cup {how} ELSE h.ran
LineEnds(s, h, t, g) ==
  /\ Here(t) = MatchEnd(Here(s))
  /\ g.tok = "none" /\ g.bw = "cmd" /\ ~g.redir /\ g.ran = Ran(h, "blank")

\* A word begins, or goes on, with e.
WordGrows(s, h, t, g, e) ==
  /\ Here(t) = Match(Here(s), e)
  /\ g.tok = IF h.tok = "none" /\ e \in Words THEN e ELSE IF h.tok = "eq" THEN "eq" ELSE "word"
  /\ g.bw = h.bw /\ g.redir = h.redir /\ g.ran = h.ran

NextBw(h) == IF h.tok = "none" \/ h.redir THEN h.bw ELSE NextWord(h.bw, h.tok)
BlankEnds(s, h, t, g) ==
  /\ Here(t) = Match(Here(s), "sp")
  /\ g.tok = "none" /\ g.bw = NextBw(h) /\ (g.redir <=> h.redir /\ h.tok = "none")
  /\ g.ran = Ran(h, "blank")
OpEnds(s, h, t, g) ==
  /\ Here(t) = Match(Here(s), "op")
  /\ g.tok = "none" /\ g.bw = "cmd" /\ ~g.redir /\ g.ran = Ran(h, "glued")
RedirectEnds(s, h, t, g, e) ==
  /\ Here(t) = Match(Here(s), e)
  /\ g.tok = "none" /\ g.bw = NextBw(h) /\ g.ran = Ran(h, "glued")

LEMMA BodyStep ==
  ASSUME NEW s, NEW h, NEW p, NEW c \in Symbols, Ready(s, h, p, c), h.body
  PROVE  Spans(Scan(s, c), Bash(h, c), c) /\ Quiet(s, h, Scan(s, c), Bash(h, c))
<1> DEFINE t == Scan(s, c)
           g == Bash(h, c)
<1>1. /\ s \in ScanStates /\ h \in BashStates /\ s.body /\ s.pending = h.pending /\ h.pending # <<>>
      /\ h.mode = "none" /\ ~h.comment /\ h.tok = "none" /\ s.quote = "none" /\ ~s.comment
      /\ c = "nl" => ~h.esc
  BY DEF Ready, ScanTyped, BashTyped, Spans, SameSpans, BodiesInStep, Clean
<1>2. CASE c = "nl"
  <2> DEFINE left == IF Terminates(h.raw, Head(h.pending)) THEN Tail(h.pending) ELSE h.pending
  <2>1. s.raw = h.raw
    BY <1>1, <1>2 DEF Ready, Spans, BodiesInStep
  <2>2. t = [s EXCEPT !.pending = left, !.body = left # <<>>, !.raw = "start"]
    BY <1>1, <1>2, <2>1, ScanCases, BodyLineFields
  <2>3. g = [h EXCEPT !.pending = left, !.body = left # <<>>, !.raw = "start", !.esc = FALSE]
    BY <1>1, <1>2, BashCases, BashBodyLine
  <2> HIDE DEF left
  <2>4. /\ t.quote = s.quote /\ t.comment = s.comment /\ (t.body <=> left # <<>>)
        /\ t.pending = left /\ t.raw = "start" /\ t.skip = s.skip /\ t.last = s.last
        /\ t.rx = s.rx /\ t.resume = s.resume
    BY <1>1, <2>2 DEF ScanStates
  <2>5. /\ g.mode = h.mode /\ g.comment = h.comment /\ (g.body <=> left # <<>>)
        /\ g.pending = left /\ g.raw = "start" /\ ~g.esc /\ g.tok = h.tok /\ g.bw = h.bw
        /\ g.redir = h.redir /\ g.ran = h.ran
    BY <1>1, <2>3 DEF BashStates
  <2>6. t.body \in BOOLEAN /\ g.body \in BOOLEAN
    BY <2>2, <2>3, <1>1 DEF ScanStates, BashStates
  <2> HIDE DEF t, g
  <2>7. SameSpans(t, g) /\ BodiesInStep(t, g)
    BY <1>1, <1>2, <2>4, <2>5, <2>6 DEF Ready, Spans, SameSpans, BodiesInStep
  <2>8. EscapesInStep(t, g, c) /\ WordsInStep(t, g, c)
    BY <1>1, <1>2, <2>4, <2>5 DEF Ready, Spans, EscapesInStep, WordsInStep, BodiesInStep, BashInCode, Here
  <2> QED BY <2>4, <2>5, <2>7, <2>8 DEF Spans, Quiet, Here, t, g
<1>3. CASE c # "nl"
  <2>1. t = [s EXCEPT !.raw = RawNext(s.raw, c)]
    BY <1>1, <1>3, ScanCases
  <2>2. /\ t.quote = s.quote /\ t.comment = s.comment /\ t.body = s.body
        /\ t.pending = s.pending /\ t.raw = RawNext(s.raw, c) /\ t.skip = s.skip /\ t.last = s.last
        /\ t.rx = s.rx /\ t.resume = s.resume
    BY <1>1, <2>1 DEF ScanStates
  <2>3. g = BashInBody(h, c)
    BY <1>1, BashCases
  <2>4. /\ g.mode = h.mode /\ g.comment = h.comment /\ g.body = h.body
        /\ g.pending = h.pending /\ g.tok = h.tok /\ g.bw = h.bw
        /\ g.redir = h.redir /\ g.ran = h.ran
        /\ g.esc <=> c = "bs" /\ ~h.esc
        /\ g.raw = IF h.esc THEN "other" ELSE IF c = "bs" THEN h.raw ELSE RawNext(h.raw, c)
    <3>1. h \in BashStates /\ c \in Symbols \ {"nl"}
      BY <1>1, <1>3
    <3> HIDE DEF t, g
    <3> QED BY <2>3, <3>1, BashBodySymbol
  <2>5. RawNext("other", c) = "other" /\ RawNext(h.raw, "bs") = "other"
    BY DEF RawNext, Blanks
  <2> HIDE DEF t, g
  <2>6. SameSpans(t, g) /\ BodiesInStep(t, g)
    BY <1>1, <1>3, <2>2, <2>4, <2>5 DEF Ready, Spans, SameSpans, BodiesInStep
  <2>7. EscapesInStep(t, g, c) /\ WordsInStep(t, g, c)
    BY <1>1, <1>3, <2>2, <2>4 DEF Ready, Spans, EscapesInStep, WordsInStep, BashInCode, Here
  <2> QED BY <2>2, <2>4, <2>6, <2>7 DEF Spans, Quiet, Here, t, g
<1> QED BY <1>2, <1>3

LEMMA CommentStep ==
  ASSUME NEW s, NEW h, NEW p, NEW c \in Symbols, Ready(s, h, p, c), ~h.body, h.comment, c # "nl"
  PROVE  Spans(Scan(s, c), Bash(h, c), c) /\ Quiet(s, h, Scan(s, c), Bash(h, c))
<1>1. s \in ScanStates /\ h \in BashStates /\ ~s.body /\ s.comment /\ h.mode = "none" /\ ~h.esc
  BY DEF Ready, ScanTyped, BashTyped, Spans, SameSpans, BodiesInStep
<1>2. Scan(s, c) = s /\ Bash(h, c) = h
  BY <1>1, ScanCases, BashCases
<1>3. Spans(s, h, c)
  BY <1>1 DEF Ready, Spans, EscapesInStep, WordsInStep, BashInCode
<1> QED BY <1>2, <1>3 DEF Quiet

LEMMA QuoteStep ==
  ASSUME NEW s, NEW h, NEW p, NEW c \in Symbols, Ready(s, h, p, c), h.mode # "none", c # "nl"
  PROVE  Spans(Scan(s, c), Bash(h, c), c) /\ Quiet(s, h, Scan(s, c), Bash(h, c))
<1> DEFINE t == Scan(s, c)
           g == Bash(h, c)
<1>1. /\ s \in ScanStates /\ h \in BashStates /\ ~h.body /\ ~h.comment /\ ~s.body /\ ~s.comment
      /\ s.quote = h.mode /\ s.pending = h.pending /\ (s.skip <=> h.esc)
  BY DEF Ready, ScanTyped, BashTyped, Spans, SameSpans, BodiesInStep, EscapesInStep
<1>2. t = InQuote(s, c) /\ g = BashInQuote(h, c)
  BY <1>1, ScanCases, BashCases
<1> HIDE DEF t, g
<1> DEFINE closes == \/ c = "dq" /\ h.mode = "dq" /\ ~h.esc
                     \/ c = "sq" /\ h.mode \in {"sq", "ansi"} /\ ~h.esc
                     \/ c = "ansi" /\ h.mode \in {"sq", "ansi"}
<1>3. /\ t.quote = IF closes THEN "none" ELSE h.mode
      /\ t.skip <=> c = "bs" /\ ~h.esc /\ h.mode \in {"dq", "ansi"}
      /\ t.comment = s.comment /\ t.last = s.last /\ t.rx = s.rx /\ t.resume = s.resume
      /\ t.pending = s.pending /\ t.body = s.body /\ t.raw = s.raw
  BY <1>1, <1>2, InQuoteFields
<1>4. /\ g.mode = IF closes THEN "none" ELSE h.mode
      /\ g.esc <=> c = "bs" /\ ~h.esc /\ h.mode \in {"dq", "ansi"}
      /\ g.comment = h.comment /\ g.tok = h.tok /\ g.bw = h.bw /\ g.redir = h.redir
      /\ g.pending = h.pending /\ g.body = h.body /\ g.raw = h.raw /\ g.ran = h.ran
  BY <1>1, <1>2, BashInQuoteFields
<1>5. closes => c # "bs"
  OBVIOUS
<1> HIDE DEF closes
<1>6. SameSpans(t, g) /\ BodiesInStep(t, g)
  BY <1>1, <1>3, <1>4 DEF Ready, Spans, SameSpans, BodiesInStep
<1>7. EscapesInStep(t, g, c)
  BY <1>1, <1>3, <1>4, <1>5 DEF Ready, Spans, EscapesInStep, BashInCode, Here
<1>8. WordsInStep(t, g, c)
  BY <1>1, <1>3, <1>4, <1>5 DEF Ready, Spans, WordsInStep, BashInCode
<1> QED BY <1>3, <1>4, <1>6, <1>7, <1>8 DEF Spans, Quiet, Here, t, g

\* A string goes on on the next line.
LEMMA QuoteLine ==
  ASSUME NEW s, NEW h, NEW p, Ready(s, h, p, "nl"), h.mode # "none"
  PROVE  Spans(Scan(s, "nl"), Bash(h, "nl"), "nl") /\ LineRuns(s, h, Scan(s, "nl"), Bash(h, "nl"))
<1> DEFINE t == Scan(s, "nl")
           g == Bash(h, "nl")
<1>1. /\ s \in ScanStates /\ h \in BashStates /\ ~h.body /\ ~h.comment /\ ~s.body /\ ~s.comment
      /\ s.quote = h.mode /\ s.pending = h.pending /\ s.pending = <<>> /\ s.resume = <<>>
      /\ h.tok \in {"word", "eq"} /\ h.raw = "start" /\ "nl" \in Symbols
  BY DEF Ready, ScanTyped, BashTyped, Spans, SameSpans, BodiesInStep, EscapesInStep, WordsInStep,
         Clean, BashInCode, Symbols
<1>2. t = CodeLine(s) /\ g = [h EXCEPT !.esc = FALSE]
  BY <1>1, ScanCases, BashCases, BashLineFields
<1> HIDE DEF t, g
<1>3. /\ t.rx = MatchEnd(s.rx) /\ t.quote = h.mode /\ t.pending = <<>> /\ t.resume = <<>>
      /\ ~t.comment /\ ~t.skip /\ t.last = "start" /\ t.raw = "start" /\ ~t.body
      /\ t.comment \in BOOLEAN /\ t.body \in BOOLEAN
  BY <1>1, <1>2, CodeLineFields DEF ScanStates
<1>4. /\ g.mode = h.mode /\ ~g.esc /\ ~g.comment /\ g.tok = h.tok /\ g.bw = h.bw
      /\ g.redir = h.redir /\ g.pending = <<>> /\ ~g.body /\ g.raw = "start" /\ g.ran = h.ran
      /\ g.comment \in BOOLEAN /\ g.body \in BOOLEAN
  BY <1>1, <1>2 DEF BashStates
<1>5. Here(t) = t.rx /\ Here(s) = s.rx
  BY <1>1, <1>3 DEF Here
<1>6. SameSpans(t, g) /\ BodiesInStep(t, g)
  BY <1>1, <1>3, <1>4 DEF SameSpans, BodiesInStep
<1>7. EscapesInStep(t, g, "nl") /\ WordsInStep(t, g, "nl")
  BY <1>1, <1>3, <1>4, <1>5 DEF EscapesInStep, WordsInStep, BashInCode
<1> QED BY <1>3, <1>4, <1>5, <1>6, <1>7 DEF Spans, LineRuns, t, g

\* A line that is continued.
LEMMA JoinedLine ==
  ASSUME NEW s, NEW h, NEW p, Ready(s, h, p, "nl"), BashInCode(h), h.esc
  PROVE  Spans(Scan(s, "nl"), Bash(h, "nl"), "nl") /\ Quiet(s, h, Scan(s, "nl"), Bash(h, "nl"))
<1> DEFINE t == Scan(s, "nl")
           g == Bash(h, "nl")
<1>1. /\ s \in ScanStates /\ h \in BashStates /\ ~h.body /\ ~h.comment /\ h.mode = "none"
      /\ ~s.body /\ s.quote = "none" /\ s.pending = <<>> /\ h.pending = <<>> /\ s.resume # <<>>
      /\ h.raw = "start" /\ "nl" \in Symbols
  BY DEF Ready, ScanTyped, BashTyped, Spans, SameSpans, BodiesInStep, EscapesInStep, BashInCode, Symbols
<1>2. t = CodeLine(s) /\ g = [h EXCEPT !.esc = FALSE]
  BY <1>1, ScanCases, BashCases, BashLineFields
<1> HIDE DEF t, g
<1>3. /\ t.rx = Head(s.resume) /\ t.quote = "none" /\ t.pending = <<>> /\ t.resume = <<>>
      /\ ~t.comment /\ ~t.skip /\ t.last = "start" /\ t.raw = "start" /\ ~t.body
      /\ t.comment \in BOOLEAN /\ t.body \in BOOLEAN
  BY <1>1, <1>2, CodeLineFields DEF ScanStates
<1>4. /\ g.mode = "none" /\ ~g.esc /\ ~g.comment /\ g.tok = h.tok /\ g.bw = h.bw
      /\ g.redir = h.redir /\ g.pending = <<>> /\ ~g.body /\ g.raw = "start" /\ g.ran = h.ran
      /\ g.comment \in BOOLEAN /\ g.body \in BOOLEAN
  BY <1>1, <1>2 DEF BashStates
<1>5. Here(t) = t.rx /\ Here(s) = Head(s.resume)
  BY <1>1, <1>3 DEF Here
<1>6. SameSpans(t, g) /\ BodiesInStep(t, g)
  BY <1>1, <1>3, <1>4 DEF SameSpans, BodiesInStep
<1>7. EscapesInStep(t, g, "nl") /\ WordsInStep(t, g, "nl")
  BY <1>1, <1>3, <1>4, <1>5 DEF EscapesInStep, WordsInStep, BashInCode
<1> QED BY <1>3, <1>4, <1>5, <1>6, <1>7 DEF Spans, Quiet, t, g

\* The end of a command's line, after a comment or not.
LEMMA CommandLine ==
  ASSUME NEW s, NEW h, NEW p, Ready(s, h, p, "nl"), ~h.body, h.mode = "none", ~h.esc
  PROVE  Spans(Scan(s, "nl"), Bash(h, "nl"), "nl") /\ LineEnds(s, h, Scan(s, "nl"), Bash(h, "nl"))
<1> DEFINE t == Scan(s, "nl")
           g == Bash(h, "nl")
           ended == EndWord(h, "blank")
<1>1. /\ s \in ScanStates /\ h \in BashStates /\ ~s.body /\ s.quote = "none"
      /\ s.pending = h.pending /\ s.resume = <<>> /\ "nl" \in Symbols
  BY DEF Ready, ScanTyped, BashTyped, Spans, SameSpans, EscapesInStep, BashInCode, Symbols
<1>2. t = CodeLine(s)
  BY <1>1, ScanCases
<1>3. g = [ended EXCEPT !.bw = "cmd", !.redir = FALSE, !.comment = FALSE,
                        !.body = h.pending # <<>>, !.raw = "start"]
  BY <1>1, BashCases, BashLineFields
<1>4. /\ ended \in BashStates /\ ended.tok = "none" /\ ended.ran = Ran(h, "blank")
      /\ ended.mode = "none" /\ ~ended.esc /\ ended.pending = h.pending
  BY EndWordFields, <1>1 DEF Ran
<1> HIDE DEF t, g, ended
<1>5. /\ t.rx = MatchEnd(s.rx) /\ t.quote = "none" /\ t.pending = s.pending /\ t.resume = <<>>
      /\ ~t.comment /\ ~t.skip /\ t.last = "start" /\ t.raw = "start" /\ (t.body <=> s.pending # <<>>)
      /\ t.comment \in BOOLEAN /\ t.body \in BOOLEAN
  BY <1>1, <1>2, CodeLineFields DEF ScanStates
<1>6. /\ g.mode = "none" /\ ~g.esc /\ ~g.comment /\ g.tok = "none" /\ g.bw = "cmd"
      /\ ~g.redir /\ g.pending = h.pending /\ (g.body <=> h.pending # <<>>) /\ g.raw = "start"
      /\ g.ran = Ran(h, "blank") /\ g.comment \in BOOLEAN /\ g.body \in BOOLEAN
  BY <1>3, <1>4 DEF BashStates
<1>7. Here(t) = t.rx /\ Here(s) = s.rx
  BY <1>1, <1>5 DEF Here
<1>8. SameSpans(t, g) /\ BodiesInStep(t, g)
  BY <1>1, <1>5, <1>6 DEF SameSpans, BodiesInStep
<1>9. EscapesInStep(t, g, "nl") /\ WordsInStep(t, g, "nl")
  BY <1>1, <1>5, <1>6, <1>7 DEF EscapesInStep, WordsInStep, BashInCode
<1> QED BY <1>5, <1>6, <1>7, <1>8, <1>9 DEF Spans, LineEnds, t, g

(* In the code of a command, where no backslash is waiting. *)
Coding(s, h, p, c) == Ready(s, h, p, c) /\ BashInCode(h) /\ ~h.esc

LEMMA CodingFacts ==
  ASSUME NEW s, NEW h, NEW p, NEW c \in Symbols \ {"nl"}, Coding(s, h, p, c)
  PROVE  /\ s \in ScanStates /\ h \in BashStates /\ c \in Symbols
         /\ ScanInCode(s) /\ ~s.body /\ ~s.comment /\ s.quote = "none" /\ s.resume = <<>>
         /\ ~h.body /\ ~h.comment /\ h.mode = "none" /\ ~h.esc
         /\ s.last # "bs" /\ ~s.skip /\ s.pending = h.pending
         /\ s.raw = "start" /\ h.raw = "start"
         /\ Scan(s, c) = Outside(s, c) /\ Bash(h, c) = BashOutside(h, c)
         /\ Here(s) = s.rx
<1>1. /\ s \in ScanStates /\ h \in BashStates
      /\ ~s.body /\ ~s.comment /\ s.quote = "none" /\ s.resume = <<>>
      /\ ~h.body /\ ~h.comment /\ h.mode = "none" /\ ~h.esc
      /\ s.last # "bs" /\ ~s.skip /\ s.pending = h.pending
      /\ s.raw = "start" /\ h.raw = "start"
  BY DEF Coding, Ready, ScanTyped, BashTyped, Spans, SameSpans, BodiesInStep, EscapesInStep,
         BashInCode
<1>2. ScanInCode(s)
  BY <1>1 DEF ScanInCode
<1>3. Scan(s, c) = Outside(s, c) /\ Bash(h, c) = BashOutside(h, c)
  BY <1>1, <1>2, ScanCases, BashCases DEF Coding
<1> QED BY <1>1, <1>2, <1>3 DEF Here

LEMMA BackslashStep ==
  ASSUME NEW s, NEW h, NEW p, Coding(s, h, p, "bs")
  PROVE  Spans(Scan(s, "bs"), Bash(h, "bs"), "bs") /\ Quiet(s, h, Scan(s, "bs"), Bash(h, "bs"))
<1> DEFINE t == Scan(s, "bs")
           g == Bash(h, "bs")
<1>0. "bs" \in Symbols \ {"nl"}
  BY DEF Symbols
<1>1. /\ s \in ScanStates /\ h \in BashStates
      /\ ~s.body /\ ~s.comment /\ s.quote = "none" /\ s.resume = <<>>
      /\ ~h.body /\ ~h.comment /\ h.mode = "none" /\ ~h.esc
      /\ s.last # "bs" /\ ~s.skip /\ s.pending = h.pending
      /\ s.raw = "start" /\ h.raw = "start" /\ Here(s) = s.rx
  BY <1>0, CodingFacts
<1>2. h.pending = <<>>
  BY DEF Coding, Ready, Clean
<1>3. t = Emit(s, "bs")
  BY <1>0, CodingFacts, OutsideCases
<1>4. g = [h EXCEPT !.esc = TRUE]
  <2>1. g = BashOutside(h, "bs")
    BY <1>0, CodingFacts
  <2> HIDE DEF g
  <2> QED BY <1>0, <1>1, <2>1, BashOutsideCases
<1> HIDE DEF t, g
<1>5. /\ t.last = "bs" /\ t.rx = Match(s.rx, "bs") /\ t.resume = <<s.rx>> /\ t.quote = "none"
      /\ ~t.skip /\ ~t.comment /\ t.pending = <<>> /\ ~t.body /\ t.raw = "start"
      /\ t.comment = s.comment /\ t.body = s.body
  BY <1>0, <1>1, <1>2, <1>3, EmitFields
<1>6. /\ g.mode = "none" /\ g.esc /\ g.comment = h.comment /\ g.tok = h.tok /\ g.bw = h.bw
      /\ g.redir = h.redir /\ g.pending = <<>> /\ g.body = h.body /\ g.raw = "start" /\ g.ran = h.ran
  BY <1>1, <1>2, <1>4 DEF BashStates
<1>7. t.resume # <<>> /\ Here(t) = s.rx
  BY <1>1, <1>5, ResumesOne DEF Here, ScanStates
<1>8. "hit" \in t.rx <=> "hit" \in s.rx
  BY <1>5, MatchPlaces
<1>9. s.comment = h.comment /\ s.body = h.body
  BY DEF Coding, Ready, Spans, SameSpans
<1>10. SameSpans(t, g) /\ BodiesInStep(t, g)
  BY <1>1, <1>5, <1>6, <1>9 DEF SameSpans, BodiesInStep
<1>11. EscapesInStep(t, g, "bs") /\ WordsInStep(t, g, "bs")
  BY <1>1, <1>5, <1>6, <1>7, <1>8 DEF EscapesInStep, WordsInStep, BashInCode
<1> QED BY <1>1, <1>6, <1>7, <1>10, <1>11 DEF Spans, Quiet, t, g

\* `#` where a word may begin.
LEMMA HashStep ==
  ASSUME NEW s, NEW h, NEW p, Coding(s, h, p, "hash")
  PROVE  /\ s.last \in {"start", "sp"} <=> h.tok = "none"
         /\ h.tok = "none" =>
              /\ Spans(Scan(s, "hash"), Bash(h, "hash"), "hash")
              /\ Quiet(s, h, Scan(s, "hash"), Bash(h, "hash"))
<1> DEFINE t == Scan(s, "hash")
           g == Bash(h, "hash")
<1>0. "hash" \in Symbols \ {"nl"}
  BY DEF Symbols
<1>1. /\ s \in ScanStates /\ h \in BashStates
      /\ ~s.body /\ ~s.comment /\ s.quote = "none" /\ s.resume = <<>>
      /\ ~h.body /\ ~h.comment /\ h.mode = "none" /\ ~h.esc
      /\ s.last # "bs" /\ ~s.skip /\ s.pending = h.pending
      /\ s.raw = "start" /\ h.raw = "start" /\ Here(s) = s.rx
  BY <1>0, CodingFacts
<1>2. s.last \in {"start", "sp"} <=> h.tok = "none"
  BY DEF Coding, Ready, Clean, Spans, WordsInStep
<1>3. ASSUME h.tok = "none"
      PROVE  Spans(t, g, "hash") /\ Quiet(s, h, t, g)
  <2>1. t = [s EXCEPT !.comment = TRUE] /\ g = [h EXCEPT !.comment = TRUE]
    <3>1. t = Outside(s, "hash") /\ g = BashOutside(h, "hash")
      BY <1>0, CodingFacts
    <3> HIDE DEF t, g
    <3>2. t = [s EXCEPT !.comment = TRUE]
      BY <1>0, <1>1, <1>2, <1>3, <3>1, OutsideCases
    <3>3. g = [h EXCEPT !.comment = TRUE]
      BY <1>0, <1>1, <1>3, <3>1, BashOutsideCases
    <3> QED BY <3>2, <3>3
  <2> HIDE DEF t, g
  <2>2. /\ t.quote = s.quote /\ t.skip = s.skip /\ t.comment /\ t.last = s.last /\ t.rx = s.rx
        /\ t.resume = s.resume /\ t.pending = s.pending /\ t.body = s.body /\ t.raw = s.raw
        /\ t.comment = TRUE
    BY <1>1, <2>1 DEF ScanStates
  <2>3. /\ g.mode = "none" /\ ~g.esc /\ g.comment = TRUE /\ g.tok = h.tok /\ g.bw = h.bw
        /\ g.redir = h.redir /\ g.pending = h.pending /\ g.body = h.body /\ g.raw = "start"
        /\ g.ran = h.ran
    BY <1>1, <2>1 DEF BashStates
  <2>4. SameSpans(t, g) /\ BodiesInStep(t, g)
    BY <1>1, <2>2, <2>3 DEF Coding, Ready, Spans, SameSpans, BodiesInStep
  <2>5. EscapesInStep(t, g, "hash") /\ WordsInStep(t, g, "hash")
    BY <1>1, <2>2, <2>3 DEF EscapesInStep, WordsInStep, BashInCode, Here
  <2> QED BY <2>2, <2>3, <2>4, <2>5 DEF Spans, Quiet, Here
<1> QED BY <1>2, <1>3

\* A word, a `#` inside of one, or a quote.
Grows(h, c) == c \in Words \cup Quotes \/ (c = "hash" /\ h.tok # "none")
Left(c) == IF c \in Quotes THEN "NUL" ELSE c

LEMMA GrowStep ==
  ASSUME NEW s, NEW h, NEW p, NEW c \in Symbols, Coding(s, h, p, c), Grows(h, c)
  PROVE  /\ Spans(Scan(s, c), Bash(h, c), c)
         /\ WordGrows(s, h, Scan(s, c), Bash(h, c), Left(c))
<1> DEFINE t == Scan(s, c)
           g == Bash(h, c)
           e == Left(c)
           tok == IF h.tok = "none" /\ e \in Words THEN e ELSE IF h.tok = "eq" THEN "eq" ELSE "word"
           quote == IF c \in Quotes THEN c ELSE "none"
<1>0. /\ c \in Symbols \ {"nl"} /\ e \in Symbols \cup {"NUL"} /\ e \notin {"bs", "sp"}
      /\ c \notin {"op", "hstr", "bs"} \cup Openers
  BY DEF Grows, Left, Words, Quotes, Symbols, Openers
<1>1. /\ s \in ScanStates /\ h \in BashStates
      /\ ~s.body /\ ~s.comment /\ s.quote = "none" /\ s.resume = <<>>
      /\ ~h.body /\ ~h.comment /\ h.mode = "none" /\ ~h.esc
      /\ s.last # "bs" /\ ~s.skip /\ s.pending = h.pending
      /\ s.raw = "start" /\ h.raw = "start" /\ Here(s) = s.rx
      /\ t = Outside(s, c) /\ g = BashOutside(h, c)
  BY <1>0, CodingFacts
<1>2. c = "hash" => s.last \notin {"start", "sp"}
  BY HashStep DEF Grows, Words, Quotes
<1>3. t = [Emit(s, e) EXCEPT !.quote = quote]
  <2>1. CASE c \in Quotes
    BY <1>0, <1>1, <2>1, OutsideCases DEF Left
  <2>2. CASE c \notin Quotes
    <3>1. t = Emit(s, c)
      BY <1>0, <1>1, <1>2, <2>2, OutsideCases DEF Grows
    <3>2. Emit(s, c).quote = "none" /\ Emit(s, c) \in ScanStates
      BY <1>1, EmitFields
    <3> QED BY <2>2, <3>1, <3>2 DEF Left, ScanStates
  <2> QED BY <2>1, <2>2
<1>4. g = [h EXCEPT !.tok = tok, !.mode = quote]
  <2>1. CASE c \in Quotes
    <3>1. g = [AddToWord(h, "quoted") EXCEPT !.mode = c]
      BY <1>0, <1>1, <2>1, BashOutsideCases
    <3>2. "quoted" \notin Words /\ e \notin Words
      BY <2>1 DEF Words, Left
    <3>3. AddToWord(h, "quoted") = [h EXCEPT !.tok = tok]
      BY <1>1, <3>2, AddToWordFields
    <3> HIDE DEF tok, g
    <3> QED BY <1>1, <2>1, <3>1, <3>3 DEF BashStates
  <2>2. CASE c \notin Quotes
    <3>1. g = AddToWord(h, c)
      BY <1>0, <1>1, <2>2, BashOutsideCases DEF Grows
    <3>2. g = [h EXCEPT !.tok = tok]
      BY <1>1, <2>2, <3>1, AddToWordFields DEF Left
    <3> HIDE DEF tok, g
    <3> QED BY <1>1, <2>2, <3>2 DEF BashStates
  <2> QED BY <2>1, <2>2
<1>5. /\ tok # "none" /\ (quote # "none" => tok \in {"word", "eq"})
      /\ quote \in Quotes \cup {"none"}
  BY DEF Words, Left, Quotes
<1> HIDE DEF t, g, e, tok, quote
<1>6. /\ t.last = e /\ t.rx = Match(s.rx, e) /\ t.resume = <<>> /\ t.quote = quote
      /\ t.skip = s.skip /\ t.comment = s.comment /\ t.pending = s.pending /\ t.body = s.body
      /\ t.raw = s.raw
  <2>1. /\ Emit(s, e) \in ScanStates /\ Emit(s, e).last = e /\ Emit(s, e).rx = Match(s.rx, e)
        /\ Emit(s, e).resume = <<>> /\ Emit(s, e).skip = s.skip /\ Emit(s, e).comment = s.comment
        /\ Emit(s, e).pending = s.pending /\ Emit(s, e).body = s.body /\ Emit(s, e).raw = s.raw
    BY <1>0, <1>1, EmitFields
  <2> QED BY <1>3, <2>1 DEF ScanStates
<1>7. /\ g.mode = quote /\ g.esc = h.esc /\ g.comment = h.comment /\ g.tok = tok /\ g.bw = h.bw
      /\ g.redir = h.redir /\ g.pending = h.pending /\ g.body = h.body /\ g.raw = h.raw
      /\ g.ran = h.ran
  BY <1>1, <1>4 DEF BashStates
<1>8. SameSpans(t, g) /\ BodiesInStep(t, g)
  BY <1>1, <1>6, <1>7 DEF Coding, Ready, Spans, SameSpans, BodiesInStep
<1>9. EscapesInStep(t, g, c) /\ WordsInStep(t, g, c)
  BY <1>0, <1>1, <1>5, <1>6, <1>7 DEF EscapesInStep, WordsInStep, BashInCode, Here
<1>10. Here(t) = Match(Here(s), e)
  BY <1>1, <1>6 DEF Here
<1> QED BY <1>7, <1>8, <1>9, <1>10 DEF Spans, WordGrows, t, g, e, tok

\* What ends a word of a command: a blank, an operator, or a redirection.
LEMMA BlankStep ==
  ASSUME NEW s, NEW h, NEW p, NEW c \in Blanks, Coding(s, h, p, c)
  PROVE  Spans(Scan(s, c), Bash(h, c), c) /\ BlankEnds(s, h, Scan(s, c), Bash(h, c))
<1> DEFINE t == Scan(s, c)
           g == Bash(h, c)
<1>0. c \in Symbols \ {"nl"} /\ "sp" \in Symbols \cup {"NUL"} /\ c # "bs"
  BY DEF Symbols, Blanks
<1>1. /\ s \in ScanStates /\ h \in BashStates
      /\ ~s.body /\ ~s.comment /\ s.quote = "none" /\ s.resume = <<>>
      /\ ~h.body /\ ~h.comment /\ h.mode = "none" /\ ~h.esc
      /\ s.last # "bs" /\ ~s.skip /\ s.pending = h.pending
      /\ s.raw = "start" /\ h.raw = "start" /\ Here(s) = s.rx
      /\ t = Outside(s, c) /\ g = BashOutside(h, c)
  BY <1>0, CodingFacts
<1>2. t = Emit(s, "sp")
  BY <1>0, <1>1, OutsideCases
<1>3. g = EndWord(h, "blank")
  BY <1>0, <1>1, BashOutsideCases
<1> HIDE DEF t, g
<1>4. /\ t.last = "sp" /\ t.rx = Match(s.rx, "sp") /\ t.resume = <<>> /\ t.quote = s.quote
      /\ t.skip = s.skip /\ t.comment = s.comment /\ t.pending = s.pending /\ t.body = s.body
      /\ t.raw = s.raw
  BY <1>0, <1>1, <1>2, EmitFields
<1>5. /\ g.mode = h.mode /\ g.esc = h.esc /\ g.comment = h.comment /\ g.tok = "none"
      /\ g.bw = NextBw(h) /\ (g.redir <=> h.redir /\ h.tok = "none") /\ g.ran = Ran(h, "blank")
      /\ g.pending = h.pending /\ g.body = h.body /\ g.raw = h.raw
  <2> DEFINE ended == EndWord(h, "blank")
  <2>1. /\ ended.mode = h.mode /\ ended.esc = h.esc /\ ended.comment = h.comment
        /\ ended.pending = h.pending /\ ended.body = h.body /\ ended.raw = h.raw
        /\ ended.tok = "none" /\ (ended.redir <=> h.redir /\ h.tok = "none")
    BY <1>1, EndWordFields
  <2>2. ended.bw = NextBw(h) /\ ended.ran = Ran(h, "blank")
    BY <1>1, EndWordFields DEF NextBw, Ran
  <2> HIDE DEF ended
  <2> QED BY <1>3, <2>1, <2>2 DEF ended
<1>6. SameSpans(t, g) /\ BodiesInStep(t, g)
  BY <1>1, <1>4, <1>5 DEF Coding, Ready, Spans, SameSpans, BodiesInStep
<1>7. EscapesInStep(t, g, c) /\ WordsInStep(t, g, c)
  BY <1>0, <1>1, <1>4, <1>5 DEF EscapesInStep, WordsInStep, BashInCode, Here
<1>8. Here(t) = Match(Here(s), "sp")
  BY <1>1, <1>4 DEF Here
<1> QED BY <1>5, <1>6, <1>7, <1>8 DEF Spans, BlankEnds, t, g

LEMMA OpStep ==
  ASSUME NEW s, NEW h, NEW p, Coding(s, h, p, "op")
  PROVE  Spans(Scan(s, "op"), Bash(h, "op"), "op") /\ OpEnds(s, h, Scan(s, "op"), Bash(h, "op"))
<1> DEFINE t == Scan(s, "op")
           g == Bash(h, "op")
           ended == EndWord(h, "glued")
<1>0. "op" \in Symbols \ {"nl"}
  BY DEF Symbols
<1>1. /\ s \in ScanStates /\ h \in BashStates
      /\ ~s.body /\ ~s.comment /\ s.quote = "none" /\ s.resume = <<>>
      /\ ~h.body /\ ~h.comment /\ h.mode = "none" /\ ~h.esc
      /\ s.last # "bs" /\ ~s.skip /\ s.pending = h.pending
      /\ s.raw = "start" /\ h.raw = "start" /\ Here(s) = s.rx
      /\ t = Outside(s, "op") /\ g = BashOutside(h, "op")
  BY <1>0, CodingFacts
<1>2. t = Emit(s, "op")
  BY <1>0, <1>1, OutsideCases
<1>3. g = [ended EXCEPT !.bw = "cmd", !.redir = FALSE]
  BY <1>0, <1>1, BashOutsideCases
<1>4. /\ ended \in BashStates /\ ended.tok = "none" /\ ended.ran = Ran(h, "glued")
      /\ ended.mode = h.mode /\ ended.esc = h.esc /\ ended.comment = h.comment
      /\ ended.pending = h.pending /\ ended.body = h.body /\ ended.raw = h.raw
  BY <1>1, EndWordFields DEF Ran
<1> HIDE DEF t, g, ended
<1>5. /\ t.last = "op" /\ t.rx = Match(s.rx, "op") /\ t.resume = <<>> /\ t.quote = s.quote
      /\ t.skip = s.skip /\ t.comment = s.comment /\ t.pending = s.pending /\ t.body = s.body
      /\ t.raw = s.raw
  BY <1>0, <1>1, <1>2, EmitFields
<1>6. /\ g.mode = h.mode /\ g.esc = h.esc /\ g.comment = h.comment /\ g.tok = "none"
      /\ g.bw = "cmd" /\ ~g.redir /\ g.ran = Ran(h, "glued")
      /\ g.pending = h.pending /\ g.body = h.body /\ g.raw = h.raw
  BY <1>3, <1>4 DEF BashStates
<1>7. SameSpans(t, g) /\ BodiesInStep(t, g)
  BY <1>1, <1>5, <1>6 DEF Coding, Ready, Spans, SameSpans, BodiesInStep
<1>8. EscapesInStep(t, g, "op") /\ WordsInStep(t, g, "op")
  BY <1>1, <1>5, <1>6 DEF EscapesInStep, WordsInStep, BashInCode, Here
<1>9. Here(t) = Match(Here(s), "op")
  BY <1>1, <1>5 DEF Here
<1> QED BY <1>6, <1>7, <1>8, <1>9 DEF Spans, OpEnds, t, g

\* The symbol CALL_RE sees of a redirection.
Redirected(c) == IF c = "hstr" THEN "hstr" ELSE "NUL"

LEMMA RedirectStep ==
  ASSUME NEW s, NEW h, NEW p, NEW c \in Openers \cup {"hstr"}, Coding(s, h, p, c)
  PROVE  /\ Spans(Scan(s, c), Bash(h, c), c)
         /\ RedirectEnds(s, h, Scan(s, c), Bash(h, c), Redirected(c))
<1> DEFINE t == Scan(s, c)
           g == Bash(h, c)
           e == Redirected(c)
           queue == IF c = "hstr" THEN s.pending ELSE Append(s.pending, c)
           ended == EndWord(h, "glued")
<1>0. /\ c \in Symbols \ {"nl"} /\ e \in Symbols \cup {"NUL"} /\ e \notin {"bs", "sp"}
      /\ e \notin {"start", "bs", "sp"} /\ c # "bs" /\ (c # "hstr" => c \in Openers)
  BY DEF Symbols, Openers, Redirected
<1>1. /\ s \in ScanStates /\ h \in BashStates
      /\ ~s.body /\ ~s.comment /\ s.quote = "none" /\ s.resume = <<>>
      /\ ~h.body /\ ~h.comment /\ h.mode = "none" /\ ~h.esc
      /\ s.last # "bs" /\ ~s.skip /\ s.pending = h.pending
      /\ s.raw = "start" /\ h.raw = "start" /\ Here(s) = s.rx
      /\ t = Outside(s, c) /\ g = BashOutside(h, c)
  BY <1>0, CodingFacts
<1>2. /\ Emit(s, e) \in ScanStates /\ Emit(s, e).last = e /\ Emit(s, e).rx = Match(s.rx, e)
      /\ Emit(s, e).resume = <<>> /\ Emit(s, e).skip = s.skip /\ Emit(s, e).comment = s.comment
      /\ Emit(s, e).pending = s.pending /\ Emit(s, e).body = s.body /\ Emit(s, e).raw = s.raw
      /\ Emit(s, e).quote = s.quote
  BY <1>0, <1>1, EmitFields
<1>3. t = IF c = "hstr" THEN Emit(s, e) ELSE [Emit(s, e) EXCEPT !.pending = queue]
  BY <1>0, <1>1, OutsideCases DEF Redirected
<1>4. g = IF c = "hstr" THEN [ended EXCEPT !.redir = TRUE] ELSE [ended EXCEPT !.pending = queue]
  BY <1>0, <1>1, BashOutsideCases
<1>5. /\ ended \in BashStates /\ ended.tok = "none" /\ ended.ran = Ran(h, "glued")
      /\ ended.bw = NextBw(h) /\ ended.mode = h.mode /\ ended.esc = h.esc /\ ended.comment = h.comment
      /\ ended.pending = h.pending /\ ended.body = h.body /\ ended.raw = h.raw
  BY <1>1, EndWordFields DEF Ran, NextBw
<1>6. c = "hstr" => queue = s.pending
  OBVIOUS
<1> HIDE DEF t, g, e, ended, queue
<1>7. /\ t.last = e /\ t.rx = Match(s.rx, e) /\ t.resume = <<>> /\ t.quote = s.quote
      /\ t.skip = s.skip /\ t.comment = s.comment /\ t.pending = queue /\ t.body = s.body
      /\ t.raw = s.raw
  BY <1>2, <1>3, <1>6 DEF ScanStates
<1>8. /\ g.mode = h.mode /\ g.esc = h.esc /\ g.comment = h.comment /\ g.tok = "none"
      /\ g.bw = NextBw(h) /\ g.ran = Ran(h, "glued")
      /\ g.pending = queue /\ g.body = h.body /\ g.raw = h.raw
  BY <1>1, <1>4, <1>5, <1>6 DEF BashStates
<1>9. SameSpans(t, g) /\ BodiesInStep(t, g)
  BY <1>1, <1>7, <1>8 DEF Coding, Ready, Spans, SameSpans, BodiesInStep
<1>10. EscapesInStep(t, g, c) /\ WordsInStep(t, g, c)
  BY <1>0, <1>1, <1>7, <1>8 DEF EscapesInStep, WordsInStep, BashInCode, Here
<1>11. Here(t) = Match(Here(s), e)
  BY <1>1, <1>7 DEF Here
<1> QED BY <1>8, <1>9, <1>10, <1>11 DEF Spans, RedirectEnds, t, g, e

\* Every step keeps the spans in step, and does one of these things to the words.
LEMMA SpansStep ==
  ASSUME NEW s, NEW h, NEW p, NEW c \in Symbols, Ready(s, h, p, c)
  PROVE  /\ Spans(Scan(s, c), Bash(h, c), c)
         /\ \/ Quiet(s, h, Scan(s, c), Bash(h, c))
            \/ h.mode # "none" /\ c = "nl" /\ LineRuns(s, h, Scan(s, c), Bash(h, c))
            \/ h.mode = "none" /\ c = "nl" /\ LineEnds(s, h, Scan(s, c), Bash(h, c))
            \/ Coding(s, h, p, c) /\ Grows(h, c) /\ WordGrows(s, h, Scan(s, c), Bash(h, c), Left(c))
            \/ Coding(s, h, p, c) /\ c \in Blanks /\ BlankEnds(s, h, Scan(s, c), Bash(h, c))
            \/ Coding(s, h, p, c) /\ c = "op" /\ OpEnds(s, h, Scan(s, c), Bash(h, c))
            \/ Coding(s, h, p, c) /\ c \in Openers \cup {"hstr"}
                 /\ RedirectEnds(s, h, Scan(s, c), Bash(h, c), Redirected(c))
<1>1. CASE h.body
  BY <1>1, BodyStep
<1>2. CASE ~h.body /\ c # "nl" /\ h.comment
  BY <1>2, CommentStep
<1>3. CASE h.mode # "none" /\ c # "nl"
  BY <1>3, QuoteStep
<1>4. CASE h.mode # "none" /\ c = "nl"
  BY <1>4, QuoteLine
<1>5. CASE BashInCode(h) /\ h.esc
  <2>1. c = "nl"
    BY <1>5 DEF Ready, Clean
  <2> QED BY <1>5, <2>1, JoinedLine
<1>6. CASE ~h.body /\ h.mode = "none" /\ ~h.esc /\ c = "nl"
  BY <1>6, CommandLine
<1>7. CASE ~h.body /\ h.comment /\ h.esc
  BY <1>7 DEF Ready, Spans, BodiesInStep
<1>8. CASE BashInCode(h) /\ ~h.esc /\ c # "nl"
  <2>1. Coding(s, h, p, c)
    BY <1>8 DEF Coding
  <2>2. CASE c = "bs"
    BY <2>1, <2>2, BackslashStep
  <2>3. CASE c = "hash" /\ h.tok = "none"
    BY <2>1, <2>3, HashStep
  <2>4. CASE Grows(h, c)
    BY <2>1, <2>4, GrowStep
  <2>5. CASE c \in Blanks
    BY <2>1, <2>5, BlankStep
  <2>6. CASE c = "op"
    BY <2>1, <2>6, OpStep
  <2>7. CASE c \in Openers \cup {"hstr"}
    BY <2>1, <2>7, RedirectStep
  <2> QED BY <1>8, <2>2, <2>3, <2>4, <2>5, <2>6, <2>7 DEF Grows, Symbols
<1> QED BY <1>1, <1>2, <1>3, <1>4, <1>5, <1>6, <1>7, <1>8 DEF BashInCode

--------------------------------------------------------------------------------
(***************************************************************************)
(* What Type(c) hands to the two readers.                                  *)
(***************************************************************************)
Anew(c) == c = "id" \/ StartsCommand
ScanFrom(c) == IF Anew(c) THEN Forget(scan) ELSE scan
BashFrom(c) == IF Anew(c) THEN [bash EXCEPT !.ran = {}] ELSE bash

LEMMA TypeSteps ==
  ASSUME NEW c \in Symbols, Type(c)
  PROVE  /\ scan' = Scan(ScanFrom(c), c) /\ bash' = Bash(BashFrom(c), c) /\ prev' = c
         /\ split' = (Runs(c) \/ (split /\ ~StartsCommand))
         /\ c \in Openers => Len(scan.pending) < MaxPending /\ Len(bash.pending) < MaxPending
BY DEF Type, Spelled, ScanFrom, BashFrom, Anew

LEMMA FromTyped ==
  ASSUME Typed, NEW c
  PROVE  /\ ScanTyped(ScanFrom(c)) /\ BashTyped(BashFrom(c))
         /\ ScanFrom(c).pending = scan.pending /\ BashFrom(c).pending = bash.pending
<1>1. scan \in ScanStates /\ bash \in BashStates
  BY DEF Typed, ScanTyped, BashTyped
<1>2. /\ Forget(scan) \in ScanStates /\ Forget(scan).pending = scan.pending
      /\ Forget(scan).body = scan.body /\ Forget(scan).comment = scan.comment
      /\ Forget(scan).quote = scan.quote
  BY <1>1, ForgetFields DEF Forget, ScanStates
<1>3. BashTyped([bash EXCEPT !.ran = {}]) /\ [bash EXCEPT !.ran = {}].pending = bash.pending
  BY <1>1 DEF Typed, BashTyped, BashStates
<1> QED BY <1>2, <1>3 DEF Typed, ScanTyped, ScanFrom, BashFrom

LEMMA InitTyped == Init => Typed
<1>1. /\ <<>> \in Seq(Openers) /\ Len(<<>>) = 0 /\ {"cmd"} \in SUBSET Places /\ <<>> \in Resumes
      /\ {} \in SUBSET {"blank", "glued"} /\ 0 <= MaxPending
  BY ResumesOne, ProbeShapesAssumption DEF Places
<1>2. ScanInit \in ScanStates
  BY <1>1 DEF ScanInit, ScanStates, Raws
<1>3. BashInit \in BashStates
  BY <1>1 DEF BashInit, BashStates, Raws
<1>4. ScanInit.pending = <<>> /\ ~ScanInit.body /\ ~ScanInit.comment
  BY DEF ScanInit
<1>5. BashInit.pending = <<>> /\ ~BashInit.body
  BY DEF BashInit
<1> QED
  BY <1>1, <1>2, <1>3, <1>4, <1>5 DEF Init, Typed, ScanTyped, BashTyped, Symbols

LEMMA NextTyped == Typed /\ [Next]_vars => Typed'
<1> SUFFICES ASSUME Typed, [Next]_vars PROVE Typed'
  OBVIOUS
<1>1. CASE UNCHANGED vars
  BY <1>1 DEF vars, Typed, ScanTyped, BashTyped
<1>2. ASSUME NEW c \in Symbols, Type(c) PROVE Typed'
  <2>1. ScanTyped(Scan(ScanFrom(c), c)) /\ (c = "nl" => ~Scan(ScanFrom(c), c).comment)
    BY <1>2, FromTyped, TypeSteps, ScanKeepsType
  <2>2. BashTyped(Bash(BashFrom(c), c))
    BY <1>2, FromTyped, TypeSteps, BashKeepsType
  <2>3. split' \in BOOLEAN
    BY <1>2, TypeSteps
  <2> QED BY <1>2, <2>1, <2>2, <2>3, TypeSteps DEF Typed, ScanTyped, BashTyped
<1> QED BY <1>1, <1>2 DEF Next

LEMMA TypedMeansTypeOK == Typed => TypeOK
BY DEF Typed, TypeOK, ScanTyped, BashTyped, ScanStates, BashStates

\* Whatever is excluded: types, the bound on heredocs in waiting, and a comment ends with its line.
THEOREM ProbeShapesTypeCorrect == Spec => []TypeOK
<1>1. Spec => []Typed
  BY InitTyped, NextTyped, PTL DEF Spec
<1> QED BY <1>1, TypedMeansTypeOK, PTL

--------------------------------------------------------------------------------
(***************************************************************************)
(* Spans.                                                                  *)
(***************************************************************************)
SpansInv == Typed /\ Spans(scan, bash, prev)

LEMMA InitSpans == Init => Spans(scan, bash, prev)
BY DEF Init, ScanInit, BashInit, Spans, SameSpans, BodiesInStep, EscapesInStep, WordsInStep,
       BashInCode, Here

LEMMA CleanScripts ==
  ASSUME SpanConstructs \subseteq Excluded, NEW c \in Symbols, Type(c)
  PROVE  Clean(scan, bash, prev, c)
<1>1. /\ ~Misleads("escape", c) /\ ~Misleads("heredoc", c) /\ ~Misleads("hash", c)
      /\ ~Misleads("join", c) /\ Spelled(c)
  BY DEF SpanConstructs, Type
<1>2. BashInCode(bash) <=> InCode
  BY DEF BashInCode, InCode
<1>3. BashInCode(bash) /\ bash.esc => c = "nl"
  BY <1>1, <1>2 DEF Misleads
<1>4. bash.body /\ bash.esc => c # "nl"
  BY <1>1 DEF Misleads
<1>5. bash.pending # <<>> => ~(c = "bs" /\ BashInCode(bash)) /\ ~(c = "nl" /\ bash.mode # "none")
  BY <1>1, <1>2 DEF Misleads
<1>6. BashInCode(bash) /\ c = "hash" =>
        prev \notin {"op", "hstr"} \cup Openers /\ (scan.last = "start" => bash.tok = "none")
  <2>1. c = "hash" => prev \notin Openers /\ prev # "hstr"
    BY <1>1 DEF Spelled, Blanks
  <2> QED BY <1>1, <1>2, <2>1 DEF Misleads
<1> QED BY <1>3, <1>4, <1>5, <1>6 DEF Clean

\* An id, or a new command, finds nothing to forget behind a backslash.
LEMMA NothingWaits ==
  ASSUME SpansInv, NEW c, Clean(scan, bash, prev, c), Anew(c)
  PROVE  scan.resume = <<>>
BY DEF SpansInv, Spans, EscapesInStep, Clean, Anew, StartsCommand, BashInCode

LEMMA FromFields ==
  ASSUME SpansInv, NEW c, Clean(scan, bash, prev, c)
  PROVE  /\ ScanFrom(c).rx = IF Anew(c) THEN scan.rx \ {"hit"} ELSE scan.rx
         /\ ScanFrom(c).quote = scan.quote /\ ScanFrom(c).skip = scan.skip
         /\ ScanFrom(c).comment = scan.comment /\ ScanFrom(c).last = scan.last
         /\ ScanFrom(c).resume = scan.resume /\ ScanFrom(c).pending = scan.pending
         /\ ScanFrom(c).body = scan.body /\ ScanFrom(c).raw = scan.raw
         /\ BashFrom(c).ran = IF Anew(c) THEN {} ELSE bash.ran
         /\ BashFrom(c).mode = bash.mode /\ BashFrom(c).esc = bash.esc
         /\ BashFrom(c).comment = bash.comment /\ BashFrom(c).tok = bash.tok
         /\ BashFrom(c).bw = bash.bw /\ BashFrom(c).redir = bash.redir
         /\ BashFrom(c).pending = bash.pending /\ BashFrom(c).body = bash.body
         /\ BashFrom(c).raw = bash.raw
<1>1. scan \in ScanStates /\ bash \in BashStates
  BY DEF SpansInv, Typed, ScanTyped, BashTyped
<1>2. CASE Anew(c)
  <2>1. ScanFrom(c) = [scan EXCEPT !.rx = scan.rx \ {"hit"}]
    BY <1>1, <1>2, NothingWaits, ForgetFields DEF ScanFrom
  <2>2. BashFrom(c) = [bash EXCEPT !.ran = {}]
    BY <1>2 DEF BashFrom
  <2> QED BY <1>1, <1>2, <2>1, <2>2 DEF ScanStates, BashStates
<1>3. CASE ~Anew(c)
  BY <1>3 DEF ScanFrom, BashFrom
<1> QED BY <1>2, <1>3

LEMMA FromReady ==
  ASSUME SpansInv, NEW c, Clean(scan, bash, prev, c)
  PROVE  /\ Ready(ScanFrom(c), BashFrom(c), prev, c)
         /\ Here(ScanFrom(c)) = IF Anew(c) THEN Here(scan) \ {"hit"} ELSE Here(scan)
<1> DEFINE s == ScanFrom(c)
           h == BashFrom(c)
<1>1. /\ s.rx = IF Anew(c) THEN scan.rx \ {"hit"} ELSE scan.rx
      /\ s.quote = scan.quote /\ s.skip = scan.skip /\ s.comment = scan.comment
      /\ s.last = scan.last /\ s.resume = scan.resume /\ s.pending = scan.pending
      /\ s.body = scan.body /\ s.raw = scan.raw
  BY FromFields
<1>2. /\ h.mode = bash.mode /\ h.esc = bash.esc /\ h.comment = bash.comment
      /\ h.tok = bash.tok /\ h.bw = bash.bw /\ h.pending = bash.pending
      /\ h.body = bash.body /\ h.raw = bash.raw
  BY FromFields
<1>3. Anew(c) => scan.resume = <<>>
  BY NothingWaits
<1>4. ScanTyped(s) /\ BashTyped(h)
  BY FromTyped DEF SpansInv
<1> HIDE DEF s, h
<1>5. Here(s) = IF Anew(c) THEN Here(scan) \ {"hit"} ELSE Here(scan)
  BY <1>1, <1>3 DEF Here
<1>6. BashInCode(h) <=> BashInCode(bash)
  BY <1>2 DEF BashInCode
<1>7. SameSpans(s, h) /\ BodiesInStep(s, h)
  BY <1>1, <1>2 DEF SpansInv, Spans, SameSpans, BodiesInStep
<1>8. EscapesInStep(s, h, prev)
  BY <1>1, <1>2, <1>3, <1>5, <1>6 DEF SpansInv, Spans, EscapesInStep, Here
<1>9. WordsInStep(s, h, prev)
  BY <1>1, <1>2, <1>6 DEF SpansInv, Spans, WordsInStep
<1>10. Clean(s, h, prev, c)
  BY <1>1, <1>2, <1>6 DEF Clean
<1> QED BY <1>4, <1>5, <1>7, <1>8, <1>9, <1>10 DEF Ready, Spans, s, h

LEMMA NextSpans ==
  ASSUME SpanConstructs \subseteq Excluded
  PROVE  SpansInv /\ [Next]_vars => SpansInv'
<1> SUFFICES ASSUME SpansInv, [Next]_vars PROVE SpansInv'
  OBVIOUS
<1>1. Typed'
  BY NextTyped DEF SpansInv
<1>2. CASE UNCHANGED vars
  BY <1>1, <1>2 DEF vars, SpansInv, Spans, SameSpans, BodiesInStep, EscapesInStep, WordsInStep, BashInCode, Here
<1>3. ASSUME NEW c \in Symbols, Type(c) PROVE SpansInv'
  <2>1. Ready(ScanFrom(c), BashFrom(c), prev, c)
    BY <1>3, CleanScripts, FromReady
  <2>2. Spans(Scan(ScanFrom(c), c), Bash(BashFrom(c), c), c)
    BY <2>1, SpansStep
  <2> QED BY <1>1, <1>3, <2>2, TypeSteps DEF SpansInv
<1> QED BY <1>2, <1>3 DEF Next

LEMMA SpansAlways == SpanConstructs \subseteq Excluded => (Spec => []SpansInv)
<1>1. ASSUME SpanConstructs \subseteq Excluded PROVE Spec => []SpansInv
  <2>1. Init => SpansInv
    BY InitTyped, InitSpans DEF SpansInv
  <2>2. SpansInv /\ [Next]_vars => SpansInv'
    BY <1>1, NextSpans
  <2> QED BY <2>1, <2>2, PTL DEF Spec
<1> QED BY <1>1

\* Whatever the commands are: in a script without the four constructs that mislead the
\* scanner about spans, it takes for strings, comments and bodies exactly what bash does.
THEOREM SpansAlwaysAgree ==
  ASSUME SpanConstructs \subseteq Excluded
  PROVE  Spec => []SpansAgree
<1>1. SpansInv => SpansAgree
  BY DEF SpansInv, Spans, SameSpans, SpansAgree
<1> QED BY <1>1, SpansAlways, PTL

--------------------------------------------------------------------------------
(***************************************************************************)
(* Words: where CALL_RE is, against what bash's next word will be.         *)
(***************************************************************************)
OnlyAfterArgs(h, c) == BashInCode(h) /\ c \in Openers \cup {"hstr"} => h.bw = "arg"
NotAssigning(s, h, c) == BashInCode(h) /\ c = "op" => "assign" \notin s.rx
NoKeyword(h, c) == BashInCode(h) /\ h.bw = "assigned" /\ h.tok = "none" => c \notin {"lead", "brace"}

LEMMA WordScripts ==
  ASSUME NEW c, Type(c)
  PROVE  /\ "redirect" \in Excluded => OnlyAfterArgs(bash, c)
         /\ "assignment" \in Excluded => NotAssigning(scan, bash, c)
         /\ "keyword" \in Excluded => NoKeyword(bash, c)
<1>1. BashInCode(bash) <=> InCode
  BY DEF BashInCode, InCode
<1>2. "redirect" \in Excluded => ~Misleads("redirect", c)
  BY DEF Type
<1>3. "assignment" \in Excluded => ~Misleads("assignment", c)
  BY DEF Type
<1>4. "keyword" \in Excluded => ~Misleads("keyword", c)
  BY DEF Type
<1> QED
  BY <1>1, <1>2, <1>3, <1>4 DEF Misleads, OnlyAfterArgs, NotAssigning, NoKeyword

\* The conditions look at nothing that an id or a new command forgets.
LEMMA FromWords ==
  ASSUME SpansInv, NEW c, Clean(scan, bash, prev, c)
  PROVE  /\ OnlyAfterArgs(bash, c) => OnlyAfterArgs(BashFrom(c), c)
         /\ NotAssigning(scan, bash, c) => NotAssigning(ScanFrom(c), BashFrom(c), c)
         /\ NoKeyword(bash, c) => NoKeyword(BashFrom(c), c)
<1> DEFINE s == ScanFrom(c)
           h == BashFrom(c)
<1>1. /\ s.rx \subseteq scan.rx
      /\ h.mode = bash.mode /\ h.comment = bash.comment /\ h.body = bash.body
      /\ h.tok = bash.tok /\ h.bw = bash.bw
  BY FromFields
<1> HIDE DEF s, h
<1>2. /\ OnlyAfterArgs(bash, c) => OnlyAfterArgs(h, c)
      /\ NotAssigning(scan, bash, c) => NotAssigning(s, h, c)
      /\ NoKeyword(bash, c) => NoKeyword(h, c)
  BY <1>1 DEF OnlyAfterArgs, NotAssigning, NoKeyword, BashInCode
<1> QED BY <1>2 DEF s, h

\* What <<< takes is no command: it comes after one.
OperandOfCommand(h) == h.redir => h.bw = "arg"

\* Where bash expects a command, CALL_RE is at the start of one and nowhere else.
AtCommand(s, h) ==
  h.bw = "cmd" /\ h.tok \in {"none", "lead", "brace"} =>
    Here(s) \ {"hit"} = {IF h.tok = "none" THEN "cmd" ELSE "lead"}

LEMMA OperandStep ==
  ASSUME NEW s, NEW h, NEW p, NEW c \in Symbols, Ready(s, h, p, c), OperandOfCommand(h), OnlyAfterArgs(h, c)
  PROVE  OperandOfCommand(Bash(h, c))
<1> DEFINE t == Scan(s, c)
           g == Bash(h, c)
<1>1. \/ g.redir = h.redir /\ g.bw = h.bw
      \/ ~g.redir
      \/ (g.redir <=> h.redir /\ h.tok = "none") /\ g.bw = NextBw(h)
      \/ Coding(s, h, p, c) /\ c \in Openers \cup {"hstr"} /\ g.bw = NextBw(h)
  BY SpansStep DEF Quiet, LineRuns, LineEnds, WordGrows, BlankEnds, OpEnds, RedirectEnds
<1>2. Coding(s, h, p, c) /\ c \in Openers \cup {"hstr"} => h.bw = "arg"
  BY DEF OnlyAfterArgs, Coding
<1> HIDE DEF t, g
<1>3. h.bw = "arg" => NextBw(h) = "arg"
  BY DEF NextBw, NextWord
<1> QED BY <1>1, <1>2, <1>3 DEF OperandOfCommand, g

LEMMA CommandStep ==
  ASSUME NEW s, NEW h, NEW p, NEW c \in Symbols, Ready(s, h, p, c), OperandOfCommand(h),
         OnlyAfterArgs(h, c), NotAssigning(s, h, c), AtCommand(s, h)
  PROVE  AtCommand(Scan(s, c), Bash(h, c))
<1> DEFINE t == Scan(s, c)
           g == Bash(h, c)
<1>1. \/ Quiet(s, h, t, g)
      \/ h.mode # "none" /\ c = "nl" /\ LineRuns(s, h, t, g)
      \/ LineEnds(s, h, t, g)
      \/ Grows(h, c) /\ WordGrows(s, h, t, g, Left(c))
      \/ BlankEnds(s, h, t, g)
      \/ Coding(s, h, p, c) /\ c = "op" /\ OpEnds(s, h, t, g)
      \/ Coding(s, h, p, c) /\ c \in Openers \cup {"hstr"} /\ RedirectEnds(s, h, t, g, Redirected(c))
  BY SpansStep
<1> SUFFICES AtCommand(t, g)
  OBVIOUS
<1> HIDE DEF t, g
<1>2. CASE Quiet(s, h, t, g)
  BY <1>2 DEF Quiet, AtCommand
<1>3. CASE h.mode # "none" /\ LineRuns(s, h, t, g)
  BY <1>3 DEF LineRuns, AtCommand, Ready, Spans, WordsInStep
<1>4. CASE LineEnds(s, h, t, g)
  BY <1>4, MatchEndPlaces DEF LineEnds, AtCommand
<1>5. CASE Grows(h, c) /\ WordGrows(s, h, t, g, Left(c))
  <2> SUFFICES ASSUME g.bw = "cmd", g.tok \in {"none", "lead", "brace"}
               PROVE  Here(t) \ {"hit"} = {IF g.tok = "none" THEN "cmd" ELSE "lead"}
    BY DEF AtCommand
  <2>1. h.bw = "cmd" /\ h.tok = "none" /\ Left(c) \in {"lead", "brace"} /\ g.tok = Left(c)
    BY <1>5 DEF WordGrows, Words
  <2>2. Here(s) \ {"hit"} = {"cmd"}
    BY <2>1 DEF AtCommand
  <2>3. Here(t) = Match(Here(s), Left(c))
    BY <1>5 DEF WordGrows
  <2> QED BY <2>1, <2>2, <2>3, MatchPlaces DEF Places
<1>6. CASE BlankEnds(s, h, t, g)
  <2> SUFFICES ASSUME g.bw = "cmd"
               PROVE  Here(t) \ {"hit"} = {"cmd"}
    BY <1>6 DEF AtCommand, BlankEnds
  <2>1. h.bw = "cmd" /\ h.tok \in {"none", "lead", "brace"}
    BY <1>6 DEF BlankEnds, NextBw, NextWord, OperandOfCommand
  <2>2. Here(s) \ {"hit"} = {"cmd"} \/ Here(s) \ {"hit"} = {"lead"}
    BY <2>1 DEF AtCommand
  <2>3. Here(t) = Match(Here(s), "sp")
    BY <1>6 DEF BlankEnds
  <2> QED BY <2>2, <2>3, MatchPlaces DEF Places
<1>7. CASE Coding(s, h, p, c) /\ c = "op" /\ OpEnds(s, h, t, g)
  <2>1. "assign" \notin Here(s)
    <3>1. c \in Symbols \ {"nl"}
      BY <1>7
    <3> QED BY <1>7, <3>1, CodingFacts DEF NotAssigning, Coding
  <2>2. Here(t) = Match(Here(s), "op") /\ g.tok = "none"
    BY <1>7 DEF OpEnds
  <2> QED BY <2>1, <2>2, MatchPlaces DEF AtCommand, Places
<1>8. CASE Coding(s, h, p, c) /\ c \in Openers \cup {"hstr"} /\ RedirectEnds(s, h, t, g, Redirected(c))
  BY <1>8 DEF OnlyAfterArgs, Coding, RedirectEnds, AtCommand, NextBw, NextWord
<1> QED BY <1>1, <1>2, <1>3, <1>4, <1>5, <1>6, <1>7, <1>8

CommandsInv == SpansInv /\ OperandOfCommand(bash) /\ AtCommand(scan, bash)

LEMMA FromCommands ==
  ASSUME SpansInv, NEW c, Clean(scan, bash, prev, c)
  PROVE  /\ OperandOfCommand(bash) => OperandOfCommand(BashFrom(c))
         /\ AtCommand(scan, bash) => AtCommand(ScanFrom(c), BashFrom(c))
<1> DEFINE s == ScanFrom(c)
           h == BashFrom(c)
<1>1. h.tok = bash.tok /\ h.bw = bash.bw /\ h.redir = bash.redir
  BY FromFields
<1>2. Here(s) \ {"hit"} = Here(scan) \ {"hit"}
  BY FromReady
<1> HIDE DEF s, h
<1>3. /\ OperandOfCommand(bash) => OperandOfCommand(h)
      /\ AtCommand(scan, bash) => AtCommand(s, h)
  BY <1>1, <1>2 DEF OperandOfCommand, AtCommand
<1> QED BY <1>3 DEF s, h

LEMMA InitCommands == Init => OperandOfCommand(bash) /\ AtCommand(scan, bash)
BY DEF Init, ScanInit, BashInit, OperandOfCommand, AtCommand, Here

LEMMA NextOperand ==
  ASSUME SpanConstructs \cup {"redirect"} \subseteq Excluded
  PROVE  SpansInv /\ OperandOfCommand(bash) /\ [Next]_vars => OperandOfCommand(bash)'
<1> SUFFICES ASSUME SpansInv, OperandOfCommand(bash), [Next]_vars PROVE OperandOfCommand(bash')
  BY DEF OperandOfCommand
<1>1. CASE UNCHANGED vars
  BY <1>1 DEF vars
<1>2. ASSUME NEW c \in Symbols, Type(c) PROVE OperandOfCommand(bash')
  <2>1. Clean(scan, bash, prev, c) /\ OnlyAfterArgs(bash, c)
    BY <1>2, CleanScripts, WordScripts
  <2>2. Ready(ScanFrom(c), BashFrom(c), prev, c)
    BY <2>1, FromReady
  <2>3. OperandOfCommand(BashFrom(c)) /\ OnlyAfterArgs(BashFrom(c), c)
    BY <2>1, FromCommands, FromWords
  <2>4. OperandOfCommand(Bash(BashFrom(c), c))
    BY <2>2, <2>3, OperandStep
  <2> QED BY <1>2, <2>4, TypeSteps
<1> QED BY <1>1, <1>2 DEF Next

LEMMA NextCommands ==
  ASSUME SpanConstructs \cup {"assignment", "redirect"} \subseteq Excluded
  PROVE  CommandsInv /\ [Next]_vars => CommandsInv'
<1> SUFFICES ASSUME CommandsInv, [Next]_vars PROVE CommandsInv'
  OBVIOUS
<1>1. SpansInv' /\ OperandOfCommand(bash)'
  BY NextSpans, NextOperand DEF CommandsInv
<1>2. CASE UNCHANGED vars
  <2>1. scan' = scan /\ bash' = bash
    BY <1>2 DEF vars
  <2> QED BY <1>1, <2>1 DEF CommandsInv, AtCommand, Here
<1>3. ASSUME NEW c \in Symbols, Type(c) PROVE CommandsInv'
  <2>1. /\ Clean(scan, bash, prev, c) /\ OnlyAfterArgs(bash, c) /\ NotAssigning(scan, bash, c)
    BY <1>3, CleanScripts, WordScripts
  <2>2. Ready(ScanFrom(c), BashFrom(c), prev, c)
    BY <2>1, FromReady DEF CommandsInv
  <2>3. /\ OperandOfCommand(BashFrom(c)) /\ OnlyAfterArgs(BashFrom(c), c)
        /\ NotAssigning(ScanFrom(c), BashFrom(c), c) /\ AtCommand(ScanFrom(c), BashFrom(c))
    BY <2>1, FromCommands, FromWords DEF CommandsInv
  <2>4. AtCommand(Scan(ScanFrom(c), c), Bash(BashFrom(c), c))
    BY <2>2, <2>3, CommandStep
  <2>5. AtCommand(scan', bash')
    BY <1>3, <2>4, TypeSteps
  <2> QED BY <1>1, <2>5 DEF CommandsInv, AtCommand, Here
<1> QED BY <1>2, <1>3 DEF Next

LEMMA CommandsAlways ==
  SpanConstructs \cup {"assignment", "redirect"} \subseteq Excluded => (Spec => []CommandsInv)
<1>1. ASSUME SpanConstructs \cup {"assignment", "redirect"} \subseteq Excluded
      PROVE  Spec => []CommandsInv
  <2>1. Init => CommandsInv
    BY InitTyped, InitSpans, InitCommands DEF CommandsInv, SpansInv
  <2>2. CommandsInv /\ [Next]_vars => CommandsInv'
    BY <1>1, NextCommands
  <2> QED BY <2>1, <2>2, PTL DEF Spec
<1> QED BY <1>1

\* Strings, heredocs and comments leave nothing behind: where bash starts a command, so does
\* the scanner.  It takes that no separator is glued to an assignment, which \S* goes over,
\* and that no redirection comes before the first argument.
THEOREM CommandsStartInStep ==
  ASSUME SpanConstructs \cup {"assignment", "redirect"} \subseteq Excluded
  PROVE  Spec => []StartInStep
<1>1. ASSUME CommandsInv, StartsCommand
      PROVE  /\ scan.rx \ {"hit"} = {"cmd"} /\ scan.quote = "none"
             /\ scan.pending = bash.pending /\ scan.body = bash.body /\ scan.raw = bash.raw
  <2>1. bash.mode = "none" /\ bash.tok = "none" /\ bash.bw = "cmd" /\ ~bash.esc
    BY <1>1 DEF StartsCommand, CommandsInv, SpansInv, Spans, EscapesInStep
  <2>2. Here(scan) = scan.rx
    BY <1>1, <2>1 DEF CommandsInv, SpansInv, Spans, EscapesInStep, Here
  <2>3. scan.rx \ {"hit"} = {"cmd"}
    BY <1>1, <2>1, <2>2 DEF CommandsInv, AtCommand
  <2> QED BY <1>1, <2>1, <2>3 DEF CommandsInv, SpansInv, Spans, SameSpans, BodiesInStep
<1>2. CommandsInv => StartInStep
  BY <1>1 DEF StartInStep
<1> QED BY <1>2, CommandsAlways, PTL

--------------------------------------------------------------------------------
(***************************************************************************)
(* Calls: the place of CALL_RE that bash's word stands for.                *)
(***************************************************************************)
Place(h) ==
  CASE h.tok = "none" /\ h.bw \in {"cmd", "assigned"} -> "cmd"
    [] h.tok \in {"lead", "brace"} /\ h.bw = "cmd" -> "lead"
    [] h.tok = "eq" /\ h.bw \in {"cmd", "assigned"} -> "assign"
    [] h.tok = "verb" /\ h.bw \in {"cmd", "assigned"} -> "verb"
    [] h.tok = "none" /\ h.bw = "probe" -> "arg"
    [] h.tok = "id" /\ h.bw = "probe" -> "id"
    [] OTHER -> "nowhere"

\* Where bash is to start a command a string that ran over a line no longer matters.
CommandPosition(h) == h.bw = "cmd" /\ h.tok \in {"none", "lead", "brace"}

(* CALL_RE is where bash is, or at other places too; every call that was handed an id is *)
(* found.  `over`: a string ran over the end of a line in this command.                  *)
Found(s, h, over) ==
  /\ ~over \/ CommandPosition(h) => Place(h) \in Here(s) \cup {"nowhere"}
  /\ ~over /\ "blank" \in h.ran => "hit" \in Here(s)

(* The converse: CALL_RE is at no other place, and finds no call but one that was made. *)
CountedOnly(s, h, over) ==
  ~over => Here(s) \ {"hit"} \subseteq {Place(h)} /\ ("hit" \in Here(s) => h.ran # {})

(* What a symbol does to the places and the calls, t and g being the next states. *)
Stays(s, h, t, g) ==
  Here(t) = Here(s) /\ Place(g) = Place(h) /\ g.ran = h.ran /\ (CommandPosition(g) => CommandPosition(h))

\* The id of a call ends with `how`.
Calls(h, g, how) == g.ran = IF Place(h) = "id" THEN h.ran \cup {how} ELSE h.ran

LineOver(s, h, t, g) == Here(t) = MatchEnd(Here(s)) /\ Place(g) = "cmd" /\ Calls(h, g, "blank")

Extends(s, h, t, g, c) ==
  /\ Here(t) = Match(Here(s), Left(c)) /\ g.ran = h.ran
  /\ Place(g) =
       CASE Place(h) = "cmd" /\ c \in {"lead", "brace"} /\ h.bw = "cmd" -> "lead"
         [] Place(h) = "cmd" /\ c = "eq" -> "assign"
         [] Place(h) = "cmd" /\ c = "verb" -> "verb"
         [] Place(h) = "arg" /\ c = "id" -> "id"
         [] Place(h) = "assign" -> "assign"
         [] OTHER -> "nowhere"
  /\ CommandPosition(g) => CommandPosition(h)

Separates(s, h, t, g) ==
  /\ Here(t) = Match(Here(s), "sp") /\ Calls(h, g, "blank")
  /\ Place(g) =
       CASE Place(h) \in {"cmd", "lead", "assign"} -> "cmd"
         [] Place(h) \in {"verb", "arg"} -> "arg"
         [] OTHER -> "nowhere"
  /\ CommandPosition(g) => CommandPosition(h)

Restarts(s, h, t, g) == Here(t) = Match(Here(s), "op") /\ Place(g) = "cmd" /\ Calls(h, g, "glued")

Redirects(s, h, t, g, c) ==
  /\ Here(t) = Match(Here(s), Redirected(c)) /\ g.ran = h.ran
  /\ Place(h) = "nowhere" /\ Place(g) = "nowhere" /\ ~CommandPosition(g)

LEMMA PlaceEffects ==
  ASSUME NEW s, NEW h, NEW p, NEW c \in Symbols, Ready(s, h, p, c), OperandOfCommand(h), OnlyAfterArgs(h, c)
  PROVE  LET t == Scan(s, c)
             g == Bash(h, c)
         IN  \/ Stays(s, h, t, g)
             \/ c = "nl" /\ h.mode # "none" /\ ~CommandPosition(g)
             \/ LineOver(s, h, t, g)
             \/ Coding(s, h, p, c) /\ Grows(h, c) /\ Extends(s, h, t, g, c)
             \/ Separates(s, h, t, g)
             \/ Coding(s, h, p, c) /\ c = "op" /\ Restarts(s, h, t, g)
             \/ c \in Openers \cup {"hstr"} /\ Redirects(s, h, t, g, c)
<1> DEFINE t == Scan(s, c)
           g == Bash(h, c)
<1>0. /\ h.tok \in Words \cup {"none"} /\ h.bw \in {"cmd", "assigned", "arg", "probe"}
      /\ h.redir => h.bw = "arg"
  BY DEF Ready, BashTyped, BashStates, OperandOfCommand
<1>1. \/ Quiet(s, h, t, g)
      \/ h.mode # "none" /\ c = "nl" /\ LineRuns(s, h, t, g)
      \/ LineEnds(s, h, t, g)
      \/ Coding(s, h, p, c) /\ Grows(h, c) /\ WordGrows(s, h, t, g, Left(c))
      \/ BlankEnds(s, h, t, g)
      \/ Coding(s, h, p, c) /\ c = "op" /\ OpEnds(s, h, t, g)
      \/ Coding(s, h, p, c) /\ c \in Openers \cup {"hstr"} /\ RedirectEnds(s, h, t, g, Redirected(c))
  BY SpansStep
<1> HIDE DEF t, g
<1>2. \A how : Ran(h, how) = IF Place(h) = "id" THEN h.ran \cup {how} ELSE h.ran
  BY <1>0 DEF Ran, Place
<1>3. CASE Quiet(s, h, t, g)
  BY <1>3 DEF Quiet, Stays, Place, CommandPosition, t, g
<1>4. CASE h.mode # "none" /\ c = "nl" /\ LineRuns(s, h, t, g)
  BY <1>4 DEF LineRuns, CommandPosition, Ready, Spans, WordsInStep, t, g
<1>5. CASE LineEnds(s, h, t, g)
  BY <1>2, <1>5 DEF LineEnds, LineOver, Calls, Place, t, g
<1>6. CASE Coding(s, h, p, c) /\ Grows(h, c) /\ WordGrows(s, h, t, g, Left(c))
  <2>1. /\ g.tok = IF h.tok = "none" /\ c \in Words THEN c ELSE IF h.tok = "eq" THEN "eq" ELSE "word"
        /\ g.bw = h.bw
    BY <1>6 DEF WordGrows, Left, Words, Quotes
  <2>2. Place(g) =
          CASE Place(h) = "cmd" /\ c \in {"lead", "brace"} /\ h.bw = "cmd" -> "lead"
            [] Place(h) = "cmd" /\ c = "eq" -> "assign"
            [] Place(h) = "cmd" /\ c = "verb" -> "verb"
            [] Place(h) = "arg" /\ c = "id" -> "id"
            [] Place(h) = "assign" -> "assign"
            [] OTHER -> "nowhere"
    BY <1>0, <2>1 DEF Place, Words
  <2>3. CommandPosition(g) => CommandPosition(h)
    BY <1>0, <2>1 DEF CommandPosition, Words
  <2> QED BY <1>6, <2>2, <2>3 DEF WordGrows, Extends, t, g
<1>7. CASE BlankEnds(s, h, t, g)
  <2>1. g.tok = "none" /\ g.bw = IF h.tok = "none" \/ h.redir THEN h.bw ELSE NextWord(h.bw, h.tok)
    BY <1>7 DEF BlankEnds, NextBw
  <2>2. Place(g) =
          CASE Place(h) \in {"cmd", "lead", "assign"} -> "cmd"
            [] Place(h) \in {"verb", "arg"} -> "arg"
            [] OTHER -> "nowhere"
    BY <1>0, <2>1 DEF Place, NextWord, Words
  <2>3. CommandPosition(g) => CommandPosition(h)
    BY <1>0, <2>1 DEF CommandPosition, NextWord
  <2> QED BY <1>2, <1>7, <2>2, <2>3 DEF BlankEnds, Separates, Calls, t, g
<1>8. CASE Coding(s, h, p, c) /\ c = "op" /\ OpEnds(s, h, t, g)
  BY <1>2, <1>8 DEF OpEnds, Restarts, Calls, Place, t, g
<1>9. CASE Coding(s, h, p, c) /\ c \in Openers \cup {"hstr"} /\ RedirectEnds(s, h, t, g, Redirected(c))
  <2>1. h.bw = "arg" /\ g.bw = "arg" /\ g.tok = "none"
    BY <1>9 DEF OnlyAfterArgs, Coding, RedirectEnds, NextBw, NextWord
  <2>2. Place(h) = "nowhere" /\ Place(g) = "nowhere" /\ ~CommandPosition(g)
    BY <2>1 DEF Place, CommandPosition
  <2> QED BY <1>2, <1>9, <2>2 DEF RedirectEnds, Redirects, t, g
<1> QED BY <1>1, <1>3, <1>4, <1>5, <1>6, <1>7, <1>8, <1>9

\* What a string that runs over the end of this line does to `over`.
Over(h, c, over) == (c = "nl" /\ h.mode # "none") \/ over

LEMMA FoundStep ==
  ASSUME NEW s, NEW h, NEW p, NEW c \in Symbols, Ready(s, h, p, c), OperandOfCommand(h), OnlyAfterArgs(h, c),
         NEW over, Found(s, h, over)
  PROVE  Found(Scan(s, c), Bash(h, c), Over(h, c, over))
<1> DEFINE t == Scan(s, c)
           g == Bash(h, c)
           next == Over(h, c, over)
<1>1. ~next => ~over
  BY DEF Over
<1>2. CommandPosition(h) => Place(h) # "nowhere"
  BY DEF CommandPosition, Place
<1> SUFFICES Found(t, g, next)
  OBVIOUS
<1>3. CASE Stays(s, h, t, g)
  <2> HIDE DEF t, g, next
  <2> QED BY <1>1, <1>3 DEF Found, Stays
<1>4. CASE c = "nl" /\ h.mode # "none" /\ ~CommandPosition(g)
  BY <1>4 DEF Found, Over
<1>5. CASE LineOver(s, h, t, g)
  <2> HIDE DEF t, g, next
  <2>1. "cmd" \in Here(t) /\ ("id" \in Here(s) \/ "hit" \in Here(s) => "hit" \in Here(t))
    BY <1>5, MatchEndPlaces DEF LineOver, Calls
  <2> QED BY <1>1, <1>5, <2>1 DEF Found, LineOver, Calls
<1>6. CASE Grows(h, c) /\ Extends(s, h, t, g, c)
  <2> HIDE DEF t, g, next
  <2>1. Left(c) # "sp" /\ (c \notin Quotes => Left(c) = c)
    BY <1>6 DEF Grows, Left, Words, Quotes
  <2>2. "hit" \in Here(s) => "hit" \in Here(t)
    BY <1>6, MatchPlaces DEF Extends
  <2>3. Place(h) \in Here(s) => Place(g) \in Here(t) \cup {"nowhere"}
    BY <1>6, <2>1, MatchPlaces DEF Quotes, Extends
  <2>4. Place(h) = "nowhere" => Place(g) = "nowhere"
    BY <1>6 DEF Extends
  <2> QED BY <1>1, <1>6, <2>2, <2>3, <2>4 DEF Found, Extends
<1>7. CASE Separates(s, h, t, g)
  <2> HIDE DEF t, g, next
  <2>1. "id" \in Here(s) \/ "hit" \in Here(s) => "hit" \in Here(t)
    BY <1>7, MatchPlaces DEF Separates, Calls
  <2>2. Place(h) \in Here(s) => Place(g) \in Here(t) \cup {"nowhere"}
    BY <1>7, MatchPlaces DEF Separates, Calls
  <2>3. Place(h) = "nowhere" => Place(g) = "nowhere"
    BY <1>7 DEF Separates, Calls
  <2> QED BY <1>1, <1>7, <2>1, <2>2, <2>3 DEF Found, Separates, Calls
<1>8. CASE Restarts(s, h, t, g)
  <2> HIDE DEF t, g, next
  <2>1. "cmd" \in Here(t) /\ ("hit" \in Here(s) => "hit" \in Here(t))
    BY <1>8, MatchPlaces DEF Restarts, Calls
  <2> QED BY <1>1, <1>8, <2>1 DEF Found, Restarts, Calls
<1>9. CASE Redirects(s, h, t, g, c)
  <2> HIDE DEF t, g, next
  <2>1. "hit" \in Here(s) => "hit" \in Here(t)
    BY <1>9, MatchPlaces DEF Redirects
  <2> QED BY <1>1, <1>9, <2>1 DEF Found, Redirects
<1>10. \/ Stays(s, h, t, g)
       \/ c = "nl" /\ h.mode # "none" /\ ~CommandPosition(g)
       \/ LineOver(s, h, t, g)
       \/ Coding(s, h, p, c) /\ Grows(h, c) /\ Extends(s, h, t, g, c)
       \/ Separates(s, h, t, g)
       \/ Coding(s, h, p, c) /\ c = "op" /\ Restarts(s, h, t, g)
       \/ c \in Openers \cup {"hstr"} /\ Redirects(s, h, t, g, c)
  BY PlaceEffects
<1> QED BY <1>10, <1>3, <1>4, <1>5, <1>6, <1>7, <1>8, <1>9

LEMMA CountedStep ==
  ASSUME NEW s, NEW h, NEW p, NEW c \in Symbols, Ready(s, h, p, c), OperandOfCommand(h), OnlyAfterArgs(h, c),
         NotAssigning(s, h, c), NoKeyword(h, c), NEW over, CountedOnly(s, h, over)
  PROVE  CountedOnly(Scan(s, c), Bash(h, c), Over(h, c, over))
<1> DEFINE t == Scan(s, c)
           g == Bash(h, c)
<1> SUFFICES ASSUME ~Over(h, c, over)
             PROVE  Here(t) \ {"hit"} \subseteq {Place(g)} /\ ("hit" \in Here(t) => g.ran # {})
  BY DEF CountedOnly
<1>1. /\ \A q \in Here(s) : q # "hit" => q = Place(h)
      /\ "hit" \in Here(s) => h.ran # {}
      /\ ~(c = "nl" /\ h.mode # "none")
  BY DEF CountedOnly, Over
<1>2. CASE Stays(s, h, t, g)
  <2> HIDE DEF t, g
  <2> QED BY <1>1, <1>2 DEF Stays
<1>3. CASE LineOver(s, h, t, g)
  <2> HIDE DEF t, g
  <2> QED BY <1>1, <1>3, MatchEndPlaces DEF LineOver, Calls
<1>4. CASE Coding(s, h, p, c) /\ Grows(h, c) /\ Extends(s, h, t, g, c)
  <2>1. Place(h) = "cmd" /\ c \in {"lead", "brace"} => h.bw = "cmd"
    BY <1>4 DEF NoKeyword, Coding, Place
  <2> HIDE DEF t, g
  <2>2. Left(c) \notin {"sp", "op"} /\ (Left(c) \in Words => c = Left(c))
    BY <1>4 DEF Grows, Left, Words, Quotes
  <2>3. "hit" \in Here(t) => "hit" \in Here(s)
    BY <1>4, <2>2, MatchPlaces DEF Extends
  <2>4. \A q \in Here(t) : q # "hit" => q = Place(g)
    <3>1. "cmd" \notin Here(t) /\ "arg" \notin Here(t)
      BY <1>4, <2>2, MatchPlaces DEF Extends
    <3>2. "lead" \in Here(t) => Place(g) = "lead"
      BY <1>1, <1>4, <2>1, <2>2, MatchPlaces DEF Words, Extends
    <3>3. "assign" \in Here(t) => Place(g) = "assign"
      BY <1>1, <1>4, <2>2, MatchPlaces DEF Words, Extends
    <3>4. "verb" \in Here(t) => Place(g) = "verb"
      BY <1>1, <1>4, <2>2, MatchPlaces DEF Words, Extends
    <3>5. "id" \in Here(t) => Place(g) = "id"
      BY <1>1, <1>4, <2>2, MatchPlaces DEF Words, Extends
    <3>6. Here(t) \subseteq Places
      BY <1>4, MatchPlaces DEF Extends
    <3> QED BY <3>1, <3>2, <3>3, <3>4, <3>5, <3>6 DEF Places
  <2> QED BY <1>1, <1>4, <2>3, <2>4 DEF Extends
<1>5. CASE Separates(s, h, t, g)
  <2> HIDE DEF t, g
  <2>1. "hit" \in Here(t) => g.ran # {}
    BY <1>1, <1>5, MatchPlaces DEF Separates, Calls
  <2>2. \A q \in Here(t) : q # "hit" => q = Place(g)
    BY <1>1, <1>5, MatchPlaces DEF Places, Separates, Calls
  <2> QED BY <2>1, <2>2
<1>6. CASE Coding(s, h, p, c) /\ c = "op" /\ Restarts(s, h, t, g)
  <2>1. "assign" \notin Here(s)
    <3>1. c \in Symbols \ {"nl"}
      BY <1>6
    <3> QED BY <1>6, <3>1, CodingFacts DEF NotAssigning, Coding
  <2> HIDE DEF t, g
  <2> QED BY <1>1, <1>6, <2>1, MatchPlaces DEF Places, Restarts, Calls
<1>7. CASE c \in Openers \cup {"hstr"} /\ Redirects(s, h, t, g, c)
  <2> HIDE DEF t, g
  <2>1. Redirected(c) \notin {"sp", "op"}
    BY DEF Redirected
  <2>2. \A q \in Here(t) : q = "hit" /\ "hit" \in Here(s)
    BY <1>1, <1>7, <2>1, MatchPlaces DEF Places, Redirects
  <2> QED BY <1>1, <1>7, <2>2 DEF Redirects
<1>8. \/ Stays(s, h, t, g)
      \/ c = "nl" /\ h.mode # "none" /\ ~CommandPosition(g)
      \/ LineOver(s, h, t, g)
      \/ Coding(s, h, p, c) /\ Grows(h, c) /\ Extends(s, h, t, g, c)
      \/ Separates(s, h, t, g)
      \/ Coding(s, h, p, c) /\ c = "op" /\ Restarts(s, h, t, g)
      \/ c \in Openers \cup {"hstr"} /\ Redirects(s, h, t, g, c)
  BY PlaceEffects
<1> QED BY <1>8, <1>1, <1>2, <1>3, <1>4, <1>5, <1>6, <1>7

\* `over` of the command that c belongs to: a new command starts from nothing.
Before == split /\ ~StartsCommand

FoundInv == SpansInv /\ OperandOfCommand(bash) /\ Found(scan, bash, split)

LEMMA FromOver ==
  ASSUME SpansInv, NEW c, Clean(scan, bash, prev, c)
  PROVE  /\ Over(BashFrom(c), c, Before) <=> Runs(c) \/ (split /\ ~StartsCommand)
         /\ Place(BashFrom(c)) = Place(bash)
         /\ CommandPosition(BashFrom(c)) <=> CommandPosition(bash)
<1> DEFINE h == BashFrom(c)
<1>1. h.tok = bash.tok /\ h.bw = bash.bw /\ h.mode = bash.mode
  BY FromFields
<1> HIDE DEF h
<1>2. /\ Over(h, c, Before) <=> Runs(c) \/ (split /\ ~StartsCommand)
      /\ Place(h) = Place(bash)
      /\ CommandPosition(h) <=> CommandPosition(bash)
  BY <1>1 DEF Over, Before, Runs, Place, CommandPosition
<1> QED BY <1>2 DEF h

LEMMA FromFound ==
  ASSUME SpansInv, NEW c, Clean(scan, bash, prev, c), Found(scan, bash, split)
  PROVE  Found(ScanFrom(c), BashFrom(c), Before)
<1> DEFINE s == ScanFrom(c)
           h == BashFrom(c)
<1>1. /\ Here(s) = IF Anew(c) THEN Here(scan) \ {"hit"} ELSE Here(scan)
      /\ h.ran = IF Anew(c) THEN {} ELSE bash.ran
  BY FromFields, FromReady
<1>2. Place(h) = Place(bash) /\ (CommandPosition(h) <=> CommandPosition(bash))
  BY FromOver
<1>3. StartsCommand => Anew(c) /\ CommandPosition(bash)
  BY DEF StartsCommand, Anew, CommandPosition
<1>4. Place(bash) # "hit"
  BY DEF Place
<1> HIDE DEF s, h
<1>5. Found(s, h, Before)
  BY <1>1, <1>2, <1>3, <1>4 DEF Found, Before
<1> QED BY <1>5 DEF s, h

LEMMA InitFound == Init => Found(scan, bash, split)
BY DEF Init, ScanInit, BashInit, Found, Place, Here

LEMMA NextFound ==
  ASSUME SpanConstructs \cup {"redirect"} \subseteq Excluded
  PROVE  FoundInv /\ [Next]_vars => FoundInv'
<1> SUFFICES ASSUME FoundInv, [Next]_vars PROVE FoundInv'
  OBVIOUS
<1>1. SpansInv' /\ OperandOfCommand(bash)'
  BY NextSpans, NextOperand DEF FoundInv
<1> SUFFICES Found(scan', bash', split')
  BY <1>1 DEF FoundInv, Found, Place, CommandPosition, Here
<1>2. CASE UNCHANGED vars
  BY <1>2 DEF vars, FoundInv
<1>3. ASSUME NEW c \in Symbols, Type(c) PROVE Found(scan', bash', split')
  <2>1. Clean(scan, bash, prev, c) /\ OnlyAfterArgs(bash, c)
    BY <1>3, CleanScripts, WordScripts
  <2>2. Ready(ScanFrom(c), BashFrom(c), prev, c) /\ Found(ScanFrom(c), BashFrom(c), Before)
    BY <2>1, FromReady, FromFound DEF FoundInv
  <2>3. OperandOfCommand(BashFrom(c)) /\ OnlyAfterArgs(BashFrom(c), c)
    BY <2>1, FromCommands, FromWords DEF FoundInv
  <2>4. Found(Scan(ScanFrom(c), c), Bash(BashFrom(c), c), Over(BashFrom(c), c, Before))
    BY <2>2, <2>3, FoundStep
  <2>5. Over(BashFrom(c), c, Before) <=> split'
    BY <1>3, <2>1, FromOver, TypeSteps DEF FoundInv
  <2>6. Found(scan', bash', Over(BashFrom(c), c, Before))
    BY <1>3, <2>4, TypeSteps
  <2> QED BY <2>5, <2>6 DEF Found
<1> QED BY <1>2, <1>3 DEF Next

\* What is found in the line is what CALL_RE would find of it.
LEMMA CountedHere == ASSUME SpansInv PROVE Counted(scan) <=> "hit" \in Here(scan)
BY DEF SpansInv, Spans, EscapesInStep, Counted

\* A call that bash runs, with a blank or the end of the line behind its id, is counted, in
\* scripts of any shape but the four constructs of spans and a redirection before the id.
THEOREM RealProbesAreFound ==
  ASSUME SpanConstructs \cup {"redirect"} \subseteq Excluded
  PROVE  Spec => []RealProbesFound
<1>1. Init => FoundInv
  BY InitTyped, InitSpans, InitCommands, InitFound DEF FoundInv, SpansInv
<1>2. FoundInv /\ [Next]_vars => FoundInv'
  BY NextFound
<1>3. FoundInv => RealProbesFound
  BY CountedHere DEF FoundInv, Found, RealProbesFound
<1> QED BY <1>1, <1>2, <1>3, PTL DEF Spec

CountedInv == CommandsInv /\ CountedOnly(scan, bash, split)

LEMMA FromCounted ==
  ASSUME CommandsInv, NEW c, Clean(scan, bash, prev, c), CountedOnly(scan, bash, split)
  PROVE  CountedOnly(ScanFrom(c), BashFrom(c), Before)
<1> DEFINE s == ScanFrom(c)
           h == BashFrom(c)
<1>1. /\ Here(s) = IF Anew(c) THEN Here(scan) \ {"hit"} ELSE Here(scan)
      /\ h.ran = IF Anew(c) THEN {} ELSE bash.ran
  BY FromFields, FromReady DEF CommandsInv
<1>2. Place(h) = Place(bash)
  BY FromOver DEF CommandsInv
<1>3. StartsCommand => Anew(c) /\ Place(bash) = "cmd" /\ Here(scan) \ {"hit"} = {"cmd"}
  BY DEF StartsCommand, Anew, Place, CommandsInv, AtCommand
<1> HIDE DEF s, h
<1>4. CountedOnly(s, h, Before)
  BY <1>1, <1>2, <1>3 DEF CountedOnly, Before
<1> QED BY <1>4 DEF s, h

LEMMA InitCounted == Init => CountedOnly(scan, bash, split)
BY DEF Init, ScanInit, BashInit, CountedOnly, Place, Here

LEMMA NextCounted ==
  ASSUME SpanConstructs \cup {"assignment", "keyword", "redirect"} \subseteq Excluded
  PROVE  CountedInv /\ [Next]_vars => CountedInv'
<1> SUFFICES ASSUME CountedInv, [Next]_vars PROVE CountedInv'
  OBVIOUS
<1>1. CommandsInv'
  BY NextCommands DEF CountedInv
<1> SUFFICES CountedOnly(scan', bash', split')
  BY <1>1 DEF CountedInv, CountedOnly, Place, Here
<1>2. CASE UNCHANGED vars
  BY <1>2 DEF vars, CountedInv
<1>3. ASSUME NEW c \in Symbols, Type(c) PROVE CountedOnly(scan', bash', split')
  <2>1. /\ Clean(scan, bash, prev, c) /\ OnlyAfterArgs(bash, c)
        /\ NotAssigning(scan, bash, c) /\ NoKeyword(bash, c)
    BY <1>3, CleanScripts, WordScripts
  <2>2. Ready(ScanFrom(c), BashFrom(c), prev, c) /\ CountedOnly(ScanFrom(c), BashFrom(c), Before)
    BY <2>1, FromReady, FromCounted DEF CountedInv, CommandsInv
  <2>3. /\ OperandOfCommand(BashFrom(c)) /\ OnlyAfterArgs(BashFrom(c), c)
        /\ NotAssigning(ScanFrom(c), BashFrom(c), c) /\ NoKeyword(BashFrom(c), c)
    BY <2>1, FromCommands, FromWords DEF CountedInv, CommandsInv
  <2>4. CountedOnly(Scan(ScanFrom(c), c), Bash(BashFrom(c), c), Over(BashFrom(c), c, Before))
    BY <2>2, <2>3, CountedStep
  <2>5. Over(BashFrom(c), c, Before) <=> split'
    BY <1>3, <2>1, FromOver, TypeSteps DEF CountedInv, CommandsInv
  <2>6. CountedOnly(scan', bash', Over(BashFrom(c), c, Before))
    BY <1>3, <2>4, TypeSteps
  <2> QED BY <2>5, <2>6 DEF CountedOnly
<1> QED BY <1>2, <1>3 DEF Next

\* No false pass: in a script without any of the seven constructs an id that is counted is
\* one that bash hands to pass, fail or waive, however long the script and its heredocs are.
THEOREM NoFalsePasses ==
  ASSUME SpanConstructs \cup {"assignment", "keyword", "redirect"} \subseteq Excluded
  PROVE  Spec => []NoFalsePass
<1>1. Init => CountedInv
  BY InitTyped, InitSpans, InitCommands, InitCounted DEF CountedInv, CommandsInv, SpansInv
<1>2. CountedInv /\ [Next]_vars => CountedInv'
  BY NextCounted
<1>3. CountedInv => NoFalsePass
  BY CountedHere DEF CountedInv, CommandsInv, CountedOnly, NoFalsePass
<1> QED BY <1>1, <1>2, <1>3, PTL DEF Spec
================================================================================
