------------------------------ MODULE Dispatch ------------------------------
(***************************************************************************)
(* The rules of tokens.c and the arrangement of a line's words into the    *)
(* arguments of a handler (arrange_args in parse.c).                       *)
(*                                                                         *)
(* A word of a rule says which word of the line becomes the argument,      *)
(* counted from the front (1 is the first) or from the end (-1 is the      *)
(* last), whether it may be missing or takes all words that are left over, *)
(* and as what it is looked up or converted (convert.c).                   *)
(***************************************************************************)
EXTENDS Integers, Sequences, FiniteSets, SequencesExt

Types == {"unum", "snum", "uint", "long", "nick", "time", "chan"}

(* parse_argrule: an unknown type is no type. *)
RuleWord(flag, at, type) ==
  [flag |-> flag, at |-> at, type |-> IF type \in Types THEN type ELSE "word"]
Arg(at, type) == RuleWord("normal", at, type)
Opt(at, type) == RuleWord("optional", at, type)
Rest(at) == RuleWord("greedy", at, "word")
Word(at) == Arg(at, "word")

rawrules ==
  [ACCOUNT |-> << <<Arg(1, "unum"), Word(2), Opt(3, "time"), Opt(4, "long"), Opt(5, "long")>> >>,
   ADMIN |-> << <<Arg(1, "snum")>> >>,
   ASLL |-> << <<Word(1), Arg(2, "snum")>> >>,
   AWAY |-> << <<Opt(-1, "word")>> >>,
   BURST |-> << <<Word(1), Arg(2, "time"), Rest(3)>> >>,
   CLEARMODE |-> << <<Arg(1, "chan"), Word(2)>> >>,
   CONNECT |-> << <<Word(1), Arg(2, "uint"), Arg(3, "snum")>> >>,
   CREATE |-> << <<Word(1), Arg(2, "time")>> >>,
   DESTRUCT |-> << <<Arg(1, "cnum"), Arg(2, "time")>> >>,
   DESYNCH |-> << <<Word(-1)>> >>,
   END_OF_BURST |-> << <<>> >>,
   EOB_ACK |-> << <<>> >>,
   ERROR |-> << <<Opt(-1, "word")>> >>,
   GLINE |-> << <<Arg(1, "snum"), Word(2), Arg(3, "time"), Word(-1)>>,
                <<Arg(1, "snum"), Word(2), Arg(3, "time"), Arg(4, "time"), Word(-1)>> >>,
   INFO |-> << <<Arg(1, "snum")>> >>,
   INVITE |-> << <<Word(1), Arg(2, "chan")>> >>,
   JOIN |-> << <<Arg(1, "chan"), Opt(2, "time")>> >>,
   JUPE |-> << <<Arg(1, "snum"), Word(2), Arg(3, "time"), Arg(4, "time"), Word(-1)>> >>,
   KICK |-> << <<Arg(1, "chan"), Arg(2, "unum"), Word(-1)>> >>,
   KILL |-> << <<Arg(1, "unum"), Word(-1)>> >>,
   LINKS |-> << <<Arg(1, "snum"), Word(2)>> >>,
   LUSERS |-> << <<Word(1), Arg(2, "snum")>> >>,
   MODE |-> << <<Arg(1, "nick"), Rest(2)>>, <<Arg(1, "chan"), Rest(2), Opt(-1, "time")>> >>,
   MOTD |-> << <<Arg(1, "snum")>> >>,
   NAMES |-> << <<Arg(1, "chan"), Arg(2, "snum")>> >>,
   NICK |-> << <<Word(1), Arg(2, "time")>>,
               <<Word(1), Arg(2, "uint"), Arg(3, "time"), Word(4), Word(5), Rest(6),
                 Word(-3), Word(-2), Word(-1)>> >>,
   NOTICE |-> << <<Word(1), Word(-1)>> >>,
   OPMODE |-> << <<Arg(1, "chan"), Rest(2), Opt(-1, "time")>> >>,
   PART |-> << <<Word(1), Opt(-1, "word")>> >>,
   PASS |-> << <<Word(-1)>> >>,
   PING |-> << <<Rest(1)>> >>,
   PONG |-> << <<Arg(1, "snum"), Rest(2)>> >>,
   PRIVMSG |-> << <<Word(1), Word(-1)>> >>,
   QUIT |-> << <<Word(-1)>> >>,
   RPING |-> << <<Word(1), Arg(2, "snum"), Word(3)>>,
                <<Arg(1, "snum"), Arg(2, "unum"), Arg(3, "time"), Arg(4, "time"), Opt(5, "word")>> >>,
   RPONG |-> << <<Word(1), Arg(2, "unum"), Arg(3, "time"), Arg(4, "time"), Opt(5, "word")>>,
                <<Arg(1, "unum"), Word(2), Arg(3, "long"), Opt(4, "word")>> >>,
   SERVER |-> << <<Word(1), Arg(2, "uint"), Arg(3, "time"), Arg(4, "time"), Word(5), Word(6),
                   Word(7), Word(-1)>> >>,
   SETHOST |-> << <<Arg(1, "unum"), Word(2), Word(3)>> >>,
   SETTIME |-> << <<Arg(1, "time"), Opt(2, "snum")>> >>,
   SILENCE |-> << <<Word(1), Word(2)>> >>,
   SQUIT |-> << <<Word(1), Arg(2, "time"), Opt(-1, "word")>> >>,
   STATS |-> << <<Word(1), Arg(2, "snum"), Opt(3, "word")>> >>,
   TOPIC |-> << <<Arg(1, "chan"), Opt(-3, "time"), Opt(-2, "time"), Word(-1)>> >>,
   TRACE |-> << <<Word(1), Arg(2, "snum")>> >>,
   UPING |-> << <<Word(1), Arg(2, "uint"), Arg(3, "snum"), Arg(4, "uint")>> >>,
   VERSION |-> << <<Arg(1, "snum")>> >>,
   WALLCHOPS |-> << <<Arg(1, "chan"), Word(-1)>> >>,
   WALLOPS |-> << <<Word(-1)>> >>,
   WALLUSERS |-> << <<Word(-1)>> >>,
   WALLVOICES |-> << <<Arg(1, "chan"), Word(-1)>> >>,
   WHOIS |-> << <<Arg(1, "snum"), Word(2)>> >>]

-----------------------------------------------------------------------------
Absent == 0    \* an argument that is NULL
Greedy == -1   \* an argument that points at the list greed

(* Mutant: positions from the end are counted from behind the end. *)
SourceFromBehind(at, argc) == IF at < 0 THEN argc + at + 2 ELSE at

(* argsrc, counted from one. *)
Source(at, argc) == IF at < 0 THEN argc + at + 1 ELSE at

(* One word of a rule: known[type] are the words that can be converted,    *)
(* words has one more element than the line, what is read past the end of  *)
(* raw.v.  An argument is the position of its word, past says that a       *)
(* conversion has looked at the element behind the end.                    *)
Take(words, known, s, r) ==
  LET argc == Len(words) - 1
      src == Source(r.at, argc)
      missing == src < 1 \/ src > argc + 1 \/ src \in s.used
      read == ~missing /\ r.type # "word"
      fits == ~missing /\ (read => words[src] \in known[r.type])
      t == [s EXCEPT !.past = @ \/ (read /\ src = argc + 1)]
  IN IF ~s.ok THEN s
     ELSE IF r.flag = "greedy" /\ ~missing THEN [t EXCEPT !.args = Append(@, Greedy), !.greedyfrom = src]
     ELSE IF fits THEN [t EXCEPT !.args = Append(@, src), !.used = @ \cup {src}]
     ELSE IF r.flag = "optional" THEN [t EXCEPT !.args = Append(@, Absent)]
     ELSE [t EXCEPT !.ok = FALSE]

(* Mutant: words that nobody has taken are no reason to give up. *)
AllTaken(used, rest, argc) == TRUE

(* consumed is compared with argc: as many words were taken as there are. *)
Consumed(used, rest, argc) == Cardinality(used) + Cardinality(rest) = argc

(* arrange_args: the words one by one, then the list of the greedy one,    *)
(* which ends where a word has been used; all of the words must be.        *)
Arrange(words, known, rule) ==
  LET argc == Len(words) - 1
      start == [ok |-> TRUE, args |-> <<>>, used |-> {}, rest |-> {}, greedyfrom |-> 0,
                past |-> FALSE, variant |-> 0]
      s == FoldLeft(LAMBDA t, r : Take(words, known, t, r), start, rule)
      rest == IF s.greedyfrom = 0 THEN {}
              ELSE {i \in s.greedyfrom..argc : s.greedyfrom..i \cap s.used = {}}
  IN [s EXCEPT !.ok = @ /\ Consumed(s.used, rest, argc), !.rest = rest]

(* One variant is tried if none before it has fitted. *)
Try(words, known, t, rule) ==
  IF t.ok THEN t
  ELSE [Arrange(words, known, rule) EXCEPT !.past = @ \/ t.past, !.variant = t.variant + 1]

(* handle_input: the first variant of the token's rule that the words fit; *)
(* past says that one of those tried has looked behind the line.           *)
Match(token, words, known) ==
  FoldLeft(LAMBDA t, rule : Try(words, known, t, rule),
           [ok |-> FALSE, variant |-> 0, past |-> FALSE], rawrules[token])

(* call_varargs has a case for each number of arguments up to nineteen, of *)
(* which the sender is one.                                                *)
Callable(args) == Len(args) + 1 <= 19

=============================================================================
