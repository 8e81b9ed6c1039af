------------------------------- MODULE Words -------------------------------
(***************************************************************************)
(* Characters, lines and words: net_read, which cuts what it has read into *)
(* lines, rfc_split, which cuts a line into words, and rfc_join.  A line   *)
(* that is sent is put together by rfc_join and, on its way back through   *)
(* send_raw, taken apart by rfc_split.                                     *)
(***************************************************************************)
EXTENDS Integers, Sequences, FiniteSets, SequencesExt

CONSTANTS
  Char,
  MaxWord,   \* bound: characters of a text
  Room       \* what net_read's buffer holds besides the final \0

ASSUME MaxWordAssumption == MaxWord \in Nat

Separator == {" ", "|"}   \* | stands for \r and \n

(* Append c to the last of the words ws. *)
Extend(ws, c) == [ws EXCEPT ![Len(ws)] = Append(@, c)]

-----------------------------------------------------------------------------
(* One character further in the loop of net_read: all terminators in a row *)
(* are zeroed before the line is handled.                                  *)
LineStep(s, c) ==
  IF c # "|" THEN [s EXCEPT !.text = Append(@, c), !.gap = FALSE]
  ELSE IF s.gap THEN s
  ELSE [s EXCEPT !.lines = Append(@, s.text), !.text = <<>>, !.gap = TRUE]

(* Mutant: what is left of the last line is not moved to the front. *)
net_readForgets(s, chunk) ==
  IF Len(s.text) = Room THEN [s EXCEPT !.eof = TRUE]
  ELSE FoldLeft(LineStep, [s EXCEPT !.gap = FALSE, !.text = <<>>], chunk)

(* net_read, when chunk arrives: s.text is what is in the buffer and       *)
(* s.lines is what has been handled.  A full buffer asks for no byte, and  *)
(* the 0 that comes back is taken for the end of the link.                 *)
net_read(s, chunk) ==
  IF Len(s.text) = Room THEN [s EXCEPT !.eof = TRUE]
  ELSE FoldLeft(LineStep, [s EXCEPT !.gap = FALSE], chunk)

-----------------------------------------------------------------------------
(* One character further in rfc_split: gap says that separators have just *)
(* been zeroed, tail that the argument after ':' has begun.                *)
SplitStep(s, c) ==
  IF s.cut \/ (s.tail /\ c = "|") THEN [s EXCEPT !.cut = TRUE]
  ELSE IF s.tail THEN [s EXCEPT !.words = Extend(@, c)]
  ELSE IF c \in Separator THEN [s EXCEPT !.gap = TRUE]
  ELSE IF s.gap /\ c = ":" THEN [s EXCEPT !.tail = TRUE, !.gap = FALSE, !.words = Append(@, <<>>)]
  ELSE IF s.gap THEN [s EXCEPT !.gap = FALSE, !.words = Append(@, <<c>>)]
  ELSE [s EXCEPT !.words = Extend(@, c)]

(* rfc_split of a line.  When the line ends in separators, the pointer has *)
(* been moved over its \0, and what lies behind is taken for a last word.  *)
(* Behind a ':' there is no word if the line ends, but an empty one if a   *)
(* terminator follows.                                                     *)
RfcSplit(line, behind) ==
  LET text == IF line # <<>> /\ Head(line) = ":" THEN Tail(line) ELSE line
      s == FoldLeft(SplitStep, [words |-> << <<>> >>, gap |-> FALSE, tail |-> FALSE, cut |-> FALSE], text)
  IN CASE line = <<>> -> <<>>
       [] s.tail /\ ~s.cut /\ Last(s.words) = <<>> -> Front(s.words)
       [] s.gap /\ behind # <<>> -> Append(s.words, behind)
       [] OTHER -> s.words

(* Mutant: the last word is not marked when it starts with ':'. *)
NeedsColonSpaceOnly(w) == \E i \in 1..Len(w) : w[i] = " "

NeedsColon(w) == (w # <<>> /\ Head(w) = ":") \/ \E i \in 1..Len(w) : w[i] = " "

(* rfc_join, which marks the last of its words if it has to, of words that *)
(* fit its buffer: it cuts off what does not, which is left out.           *)
RfcJoin(ws) ==
  LET marked == IF NeedsColon(Last(ws)) THEN <<":">> \o Last(ws) ELSE Last(ws)
      joined == FoldLeft(LAMBDA line, w : line \o w \o <<" ">>, <<>>, Front(ws))
  IN joined \o marked \o <<"|">>

(* send_words and send_raw: the line that is put together is what comes    *)
(* back to handle_input; behind is what the buffer holds behind it.        *)
send_words(ws, behind) == RfcSplit(RfcJoin(ws), behind)

-----------------------------------------------------------------------------
(* The lines of a text, read in three chunks of which none is larger than  *)
(* the room there is, are the lines of the text read at once, in order and *)
(* apart from empty ones, which handle_input ignores; and only a line that  *)
(* fills the buffer ends the link.                                         *)
Started == [lines |-> <<>>, text |-> <<>>, gap |-> FALSE, eof |-> FALSE]
Filled(lines) == FoldLeft(LAMBDA kept, line : IF line = <<>> THEN kept ELSE Append(kept, line), <<>>, lines)

ReadAsOne ==
  \A text \in [1..MaxWord + 2 -> Char] : \A i, j \in 0..MaxWord + 2 : i <= j =>
    LET one == net_read(Started, SubSeq(text, 1, i))
        two == net_read(one, SubSeq(text, i + 1, j))
        three == net_read(two, SubSeq(text, j + 1, MaxWord + 2))
        whole == FoldLeft(LineStep, Started, text)
        fits == i <= Room /\ Len(one.text) + j - i <= Room /\ Len(two.text) + MaxWord + 2 - j <= Room
        long(k) == \A n \in k..(k + Room - 1) : text[n] # "|"
    IN fits => IF three.eof THEN \E k \in 1..(MaxWord + 3 - Room) : long(k)
               ELSE Filled(three.lines) = Filled(whole.lines) /\ three.text = whole.text

Text == UNION {[1..n -> Char \ {"|"}] : n \in 1..MaxWord}
Plain == {w \in Text : ~NeedsColon(w) /\ Head(w) # ":" /\ \A i \in 1..Len(w) : w[i] # " "}

(* What the program sends comes back to its own handlers word for word, if *)
(* no word is empty and only the last has spaces or a ':' in front.  When  *)
(* the last word is not marked and the byte behind the line is no \0 (it is *)
(* one of send_raw's uninitialised buffer), one more word comes back, and  *)
(* it changes none of the others.  A line that does not fit the buffers of *)
(* 513 bytes is not spoken of.                                             *)
ComesBack ==
  \A source, token \in Plain, last \in Text, behind \in {<<>>} \cup Plain :
    LET ws == <<source, token, last>>
    IN send_words(ws, behind) = IF behind = <<>> \/ NeedsColon(last) THEN ws ELSE Append(ws, behind)

=============================================================================
