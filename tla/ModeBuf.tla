------------------------------- MODULE ModeBuf -------------------------------
(***************************************************************************)
(* The mode buffers of modes.c: mode changes that scripts make for a       *)
(* client are collected, at most one buffer for each client and one        *)
(* channel for each buffer, and sent as one MODE line.  net.c hands every  *)
(* line that is sent back to handle_input, so the program applies its own  *)
(* line as it would one of its uplink.                                     *)
(*                                                                         *)
(* Users are numerics.  The prefix modes o and v have a target; every flag *)
(* mode is as good as m.  Modes with other parameters are pushed by no     *)
(* script.  A buffer points at the block of its channel, which CREATE of a *)
(* channel that exists frees.  No numeric is used twice.                   *)
(***************************************************************************)
EXTENDS Integers, Sequences, FiniteSets

CONSTANTS
  User,        \* numerics of the users, natural numbers
  Client,      \* those that scripts make mode changes for
  Prefix,      \* modes that have a member for a target: o and v
  Chan,        \* names of channels
  Base,        \* 64, the base of the numerics' digits
  MaxDelay,    \* 3 seconds, for which a change of status may wait
  MaxTargets,  \* 6 in modes.c
  MaxLetters,  \* 64, the size of modestr
  None

ASSUME UsersNumbered == User \subseteq Nat /\ Client \subseteq User /\ None \notin User
ASSUME PrefixModes == "o" \in Prefix /\ "m" \notin Prefix
ASSUME BaseNat == Base \in Nat \ {0}
ASSUME DelayShort == MaxDelay \in 1..3
ASSUME LimitNat == MaxTargets \in Nat /\ MaxTargets > 1
ASSUME RoomForOne == MaxLetters \in Nat /\ MaxLetters > 1

VARIABLES
  proc,             \* "up", or how the program has ended
  live,             \* users that are known
  on,               \* who is on a channel,
  status,           \* and with which status: for each prefix mode, [Chan -> set of users]
  moderated,        \* channels with +m
  buf,              \* modebufs: a client's buffer, or None
  ticking           \* mode_ontick is under way

chanVars == <<on, status, moderated>>
vars == <<proc, live, chanVars, buf, ticking>>

FlagChange == [pls : BOOLEAN, mode : {"m"}, chan : Chan]
PrefixChange == [pls : BOOLEAN, mode : Prefix, target : User, chan : Chan]

ASSUME NoneIsNothing == None \notin FlagChange \cup Chan

(* Of several flag changes in one line the last decides, so that one is    *)
(* kept, and of modestr only its length, letters, and the sign that was    *)
(* written last, pls.  chan: whose block the buffer points at, None for a  *)
(* free one.                                                               *)
(* left: seconds until now >= timeout.  stale is not in the program: the   *)
(* block has been freed since the first push.                              *)
Buffer == [chan : Chan \cup {None}, flag : FlagChange \cup {None},
           targets : Seq(PrefixChange), left : Nat, stale : BOOLEAN,
           pls : BOOLEAN, letters : 0..MaxLetters]

Ready == proc = "up" /\ ~ ticking

-----------------------------------------------------------------------------
(* strncpyz makes the last of targetlen characters a \0, at which printf   *)
(* ends the list of targets: the first is cut by a digit, the others are   *)
(* lost.  base64_decode_long reads on, and takes the \0 for the digit -1.  *)
Cut(n) == Base * (n \div Base) - 1

(* The user that the first target, cut, names. *)
Named(b) == IF b.targets = <<>> THEN {} ELSE {Cut(Head(b.targets).target)} \cap live

(* channel_modehook for a line that names no more than one target *)
Apply(b, c) ==
  /\ proc' = "up"
  /\ status' = IF Named(b) = {} THEN status
               ELSE [status EXCEPT ![Head(b.targets).mode][c] =
                       IF Head(b.targets).pls THEN @ \cup Named(b) ELSE @ \ Named(b)]
  /\ moderated' = IF b.flag = None THEN moderated
                  ELSE IF b.flag.pls THEN moderated \cup {c}
                  ELSE moderated \ {c}

Abort(how) == proc' = how /\ UNCHANGED <<status, moderated>>

(* Mutant: a build without assertions. *)
SentUnchecked(b, c) ==
  IF Len(b.targets) >= 2 THEN Abort("null_deref") ELSE Apply(b, c)

(* The line of b comes back to mode_apply with the name of c.  The second  *)
(* of two targets is NULL there, which get_user_by_numericstr follows.     *)
SentTo(b, c) ==
  IF ~ Named(b) \subseteq on[c] THEN Abort("assert_prefix")
  ELSE IF Len(b.targets) >= 2 THEN Abort("null_deref")
  ELSE Apply(b, c)

NothingSent == UNCHANGED <<proc, status, moderated>>

(* mode_flushmode; the buffer is dropped by whoever calls this.  The name  *)
(* is read from the block: from a free one any name can come, of a channel *)
(* or of none, and any outcome.                                            *)
Sent(b) ==
  IF b.chan # None THEN SentTo(b, b.chan)
  ELSE Abort("undefined") \/ NothingSent \/ \E c \in Chan : SentTo(b, c)

-----------------------------------------------------------------------------
Init ==
  /\ proc = "up"
  /\ live = User
  /\ on = [c \in Chan |-> {}] /\ moderated = {}
  /\ status = [m \in Prefix |-> [c \in Chan |-> {}]]
  /\ buf = [f \in Client |-> None]
  /\ ticking = FALSE

Least(a, b) == IF a < b THEN a ELSE b

(* What mode_pushmode ignores: changes by who is not an operator of the    *)
(* channel, for who is not on it, and those that change nothing.           *)
Accepted(f, ch) ==
  /\ f \in live /\ f \in on[ch.chan] /\ f \in status["o"][ch.chan]
  /\ IF ch.mode = "m" THEN ch.pls # (ch.chan \in moderated)
     ELSE /\ ch.target \in live /\ ch.target \in on[ch.chan]
          /\ ch.pls # (ch.target \in status[ch.mode][ch.chan])

(* What the change takes of modestr: a letter, and a sign if it is another *)
(* one than that of the change before it.                                  *)
Size(b, ch) == IF ch.pls = b.pls THEN 1 ELSE 2
Fits(b, ch) == b.letters + Size(b, ch) <= MaxLetters

(* The change, written to a buffer. *)
Written(b, ch) ==
  LET lettered == [b EXCEPT !.letters = @ + Size(b, ch), !.pls = ch.pls]
  IN IF ch.mode = "m" THEN [lettered EXCEPT !.flag = ch]
                      ELSE [lettered EXCEPT !.targets = Append(@, ch)]

(* maxdelay, as the two callers in luafuncs.c ask for it. *)
Delay(ch) == IF ch.mode = "m" THEN 0 ELSE MaxDelay

(* A buffer with the change ch, whose sign differs from lastplsmns, -1,     *)
Fresh(ch) ==
  Written([chan |-> ch.chan, flag |-> None, targets |-> <<>>, left |-> Delay(ch), stale |-> FALSE,
           pls |-> ~ ch.pls, letters |-> 0], ch)

(* and b with one more, which may bring the deadline forward. *)
Extended(b, ch) == [Written(b, ch) EXCEPT !.left = Least(@, Delay(ch))]

Keep(f, b) == buf' = [buf EXCEPT ![f] = b]

(* Mutant: one target too many. *)
KeepOneMore(f, b) ==
  IF Len(b.targets) > MaxTargets
    THEN Sent(b) /\ Keep(f, None)
    ELSE NothingSent /\ Keep(f, b)

(* The buffer b, as it is after the push, is full: it is sent at once. *)
KeepOrSend(f, b) ==
  IF Len(b.targets) = MaxTargets
    THEN Sent(b) /\ Keep(f, None)
    ELSE NothingSent /\ Keep(f, b)

(* mode_pushmode for a client without a buffer, *)
PushFirst(f, ch) ==
  /\ buf[f] = None
  /\ KeepOrSend(f, Fresh(ch))
  /\ UNCHANGED <<live, on, ticking>>

(* Mutant: the channel is not compared. *)
PushMoreAnywhere(f, ch) ==
  /\ buf[f] # None /\ Fits(buf[f], ch)
  /\ KeepOrSend(f, Extended(buf[f], ch))
  /\ UNCHANGED <<live, on, ticking>>

(* into the buffer for this channel, *)
PushMore(f, ch) ==
  /\ buf[f] # None
  /\ buf[f].chan = ch.chan /\ Fits(buf[f], ch)
  /\ KeepOrSend(f, Extended(buf[f], ch))
  /\ UNCHANGED <<live, on, ticking>>

(* beyond the end of its modestr, whose room nobody checks (the pointer     *)
(* targetstrpos lies behind it; what comes of that is not followed),       *)
PushBeyond(f, ch) ==
  /\ buf[f] # None
  /\ buf[f].chan = ch.chan /\ ~ Fits(buf[f], ch)
  /\ Abort("overflow")
  /\ UNCHANGED <<live, on, buf, ticking>>

(* and after the buffer for another channel was sent. *)
PushOther(f, ch) ==
  /\ buf[f] # None
  /\ buf[f].chan # ch.chan
  /\ Sent(buf[f]) /\ Keep(f, Fresh(ch))
  /\ UNCHANGED <<live, on, ticking>>

mode_pushmode(f, ch) ==
  /\ Ready /\ Accepted(f, ch)
  /\ PushFirst(f, ch) \/ PushMore(f, ch) \/ PushBeyond(f, ch) \/ PushOther(f, ch)

-----------------------------------------------------------------------------
(* Mutant: the time that is left is not cut off at zero. *)
TickBelowZero ==
  /\ Ready
  /\ ticking' = TRUE
  /\ \E d \in 1..3 :
       buf' = [f \in Client |-> IF buf[f] = None THEN None
                               ELSE [buf[f] EXCEPT !.left = @ - d]]
  /\ UNCHANGED <<proc, live, chanVars>>

(* The main loop: some seconds have passed, mode_ontick is called.  More   *)
(* than three seconds are as good as three, no buffer waits longer.        *)
Tick ==
  /\ Ready
  /\ ticking' = TRUE
  /\ \E d \in 1..3 :
       buf' = [f \in Client |->
                 IF buf[f] = None THEN None
                 ELSE [buf[f] EXCEPT !.left = IF @ > d THEN @ - d ELSE 0]]
  /\ UNCHANGED <<proc, live, chanVars>>

(* Mutant: modecount is asked whether there is anything to send. *)
DueWithTargets == {f \in Client : buf[f] # None /\ buf[f].left = 0 /\ buf[f].targets # <<>>}

Due == {f \in Client : buf[f] # None /\ buf[f].left = 0}

(* mode_flushmode_check *)
FlushDue(f) ==
  /\ proc = "up" /\ ticking /\ f \in Due
  /\ Sent(buf[f]) /\ Keep(f, None)
  /\ UNCHANGED <<live, on, ticking>>

TickEnds ==
  /\ proc = "up" /\ ticking /\ Due = {}
  /\ ticking' = FALSE
  /\ UNCHANGED <<proc, live, chanVars, buf>>

(* Mutant: the buffer is forgotten. *)
DelUserOnly(u) ==
  /\ Ready /\ u \in live
  /\ NothingSent /\ UNCHANGED buf
  /\ live' = live \ {u}
  /\ UNCHANGED <<on, ticking>>

(* QUIT and KILL: del_user calls mode_flushmode_deletion first. *)
DelUser(u) ==
  /\ Ready /\ u \in live
  /\ IF u \in Client /\ buf[u] # None
       THEN Sent(buf[u]) /\ Keep(u, None)
       ELSE NothingSent /\ UNCHANGED buf
  /\ live' = live \ {u}
  /\ UNCHANGED <<on, ticking>>

-----------------------------------------------------------------------------
(* What the uplink sends meanwhile. *)
Join(u, c) ==
  /\ Ready /\ u \in live \ on[c]
  /\ on' = [on EXCEPT ![c] = @ \cup {u}]
  /\ UNCHANGED <<proc, live, status, moderated, buf, ticking>>

Leave(u, c) ==
  /\ Ready /\ u \in live \cap on[c]
  /\ on' = [on EXCEPT ![c] = @ \ {u}]
  /\ status' = [m \in Prefix |-> [status[m] EXCEPT ![c] = @ \ {u}]]
  /\ UNCHANGED <<proc, live, moderated, buf, ticking>>

SetStatus(u, m, c) ==
  /\ Ready /\ u \in live \cap on[c]
  /\ status' = [status EXCEPT ![m][c] = IF u \in @ THEN @ \ {u} ELSE @ \cup {u}]
  /\ UNCHANGED <<proc, live, on, moderated, buf, ticking>>

(* The buffers that point at the block of c, or at a free one. *)
PointingAt(c) == {f \in Client : buf[f] # None /\ buf[f].chan = c}

(* CREATE of a channel that is there: del_channel frees its block, and     *)
(* add_channel gets the same one, one that some buffers still point at, or *)
(* another.                                                                *)
Create(u, c) ==
  /\ Ready /\ u \in live
  /\ on' = [on EXCEPT ![c] = {u}] /\ moderated' = moderated \ {c}
  /\ status' = [m \in Prefix |-> [status[m] EXCEPT ![c] = IF m = "o" THEN {u} ELSE {}]]
  /\ \E reached \in {PointingAt(c)} \cup SUBSET PointingAt(None) :
       buf' = [f \in Client |->
                 IF f \in reached THEN [buf[f] EXCEPT !.chan = c, !.stale = TRUE]
                 ELSE IF f \in PointingAt(c) THEN [buf[f] EXCEPT !.chan = None, !.stale = TRUE]
                 ELSE buf[f]]
  /\ UNCHANGED <<proc, live, ticking>>

SetModerated(c) ==
  /\ Ready
  /\ moderated' = IF c \in moderated THEN moderated \ {c} ELSE moderated \cup {c}
  /\ UNCHANGED <<proc, live, on, status, buf, ticking>>

-----------------------------------------------------------------------------
Flushing == TickEnds \/ \E f \in Client : FlushDue(f)

Next ==
  \/ Tick \/ Flushing
  \/ \E f \in Client, ch \in FlagChange \cup PrefixChange : mode_pushmode(f, ch)
  \/ \E u \in User : DelUser(u)
  \/ \E u \in User, c \in Chan :
       Join(u, c) \/ Leave(u, c) \/ Create(u, c) \/ \E m \in Prefix : SetStatus(u, m, c)
  \/ \E c \in Chan : SetModerated(c)

Spec == Init /\ [][Next]_vars

(* The main loop ticks every second and a tick runs to its end. *)
FairSpec == Spec /\ WF_vars(Tick) /\ WF_vars(Flushing)

-----------------------------------------------------------------------------
TypeOK ==
  /\ proc \in {"up", "null_deref", "assert_prefix", "overflow", "undefined"}
  /\ live \subseteq User
  /\ on \in [Chan -> SUBSET User] /\ status \in [Prefix -> [Chan -> SUBSET User]]
  /\ moderated \subseteq Chan
  /\ buf \in [Client -> Buffer \cup {None}]
  /\ ticking \in BOOLEAN

(* mode_flushmode names one channel for the whole buffer: every change in  *)
(* it was made for that channel, however the calls for several channels    *)
(* alternate, unless the channel was created again in the meantime.        *)
ChangesKeepTheirChannel ==
  \A f \in Client : buf[f] # None /\ ~ buf[f].stale =>
    /\ buf[f].flag # None => buf[f].flag.chan = buf[f].chan
    /\ \A i \in DOMAIN buf[f].targets : buf[f].targets[i].chan = buf[f].chan

(* A buffer is keyed by the address of its client and names the client     *)
(* when it is sent: it never outlives the client.                          *)
BuffersHaveClients == \A f \in Client : buf[f] # None => f \in live

(* No buffer is empty, and none holds as many targets as a MODE line can   *)
(* take: one that is full of targets has been sent.  Flags are not counted *)
(* (modes.c, modecount), so this says nothing of the room for letters.     *)
BuffersHaveRoom ==
  \A f \in Client : buf[f] # None =>
    /\ buf[f].flag # None \/ buf[f].targets # <<>>
    /\ Len(buf[f].targets) < MaxTargets

(* Status is held by who is on the channel only, although the line that    *)
(* comes back names another user than the one that was meant.              *)
StatusOnChannel == \A m \in Prefix, c \in Chan : status[m][c] \subseteq on[c]

(* mode_pushmode, maxdelay: changes that are pushed later may bring a      *)
(* buffer's deadline forward but never put it off, so no sequence of       *)
(* pushes keeps the changes for a channel from being sent.                 *)
NothingWaitsForever ==
  \A f \in Client, c \in Chan \cup {None} :
    proc = "up" /\ buf[f] # None /\ buf[f].chan = c
      ~> proc # "up" \/ buf[f] = None \/ buf[f].chan # c

(* mode_flushmode: "targetstr and modestr aren't \0 terminated", so their  *)
(* lengths are given and all of them is sent: when a buffer is sent, its   *)
(* changes take effect for the targets they were made for.                 *)
TakesEffect(ch) ==
  ch.target \in live \cap on[ch.chan] =>
    ch.pls = (ch.target \in status'[ch.mode][ch.chan])

SentInFull ==
  [][\A f \in Client :
       (ticking /\ buf[f] # None /\ buf'[f] = None /\ Len(buf[f].targets) = 1)
         => TakesEffect(buf[f].targets[1])]_vars

=============================================================================
