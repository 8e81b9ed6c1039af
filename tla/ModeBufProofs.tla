----------------------------- MODULE ModeBufProofs -----------------------------
(***************************************************************************)
(* The invariants of ModeBuf, for any sets of users, clients, channels and *)
(* prefix modes, any base of the numerics, any limit of targets above one  *)
(* and any room for letters that one change fits, whatever block a channel *)
(* that is created again is given.  Together they are inductive.           *)
(***************************************************************************)
EXTENDS ModeBuf, TLAPS

IInv ==
  /\ TypeOK /\ ChangesKeepTheirChannel /\ BuffersHaveClients
  /\ BuffersHaveRoom /\ StatusOnChannel

(* The changes of a buffer are all for its channel. *)
OneChannel(b) ==
  ~ b.stale => /\ b.flag # None => b.flag.chan = b.chan
               /\ \A i \in DOMAIN b.targets : b.targets[i].chan = b.chan

(* What the invariants say of one buffer. *)
Sound(b) ==
  /\ b \in Buffer /\ OneChannel(b)
  /\ b.flag # None \/ b.targets # <<>>

Change == FlagChange \cup PrefixChange

(* The part of the invariant that buf and live decide, *)
BufOK ==
  /\ buf \in [Client -> Buffer \cup {None}] /\ live \subseteq User
  /\ \A f \in Client : buf[f] # None =>
       Sound(buf[f]) /\ Len(buf[f].targets) < MaxTargets /\ f \in live

(* and the part of the channels. *)
StatusOK ==
  /\ on \in [Chan -> SUBSET User] /\ status \in [Prefix -> [Chan -> SUBSET User]]
  /\ StatusOnChannel

ChanOK ==
  /\ proc \in {"up", "null_deref", "assert_prefix", "overflow", "undefined"}
  /\ moderated \subseteq Chan /\ StatusOK

(* The invariants are those two parts. *)
LEMMA IInvParts == IInv <=> BufOK /\ ChanOK /\ ticking \in BOOLEAN
  BY DEF IInv, BufOK, ChanOK, StatusOK, Sound, OneChannel, TypeOK, ChangesKeepTheirChannel, BuffersHaveClients, BuffersHaveRoom

-----------------------------------------------------------------------------
(* A delay is a number of seconds. *)
LEMMA DelayNat == ASSUME NEW ch \in Change PROVE Delay(ch) \in Nat
  BY DelayShort DEF Delay

(* A change that is written to a buffer for its channel, with room for it,  *)
(* leaves it sound and adds one target at most.                            *)
LEMMA WrittenSound ==
  ASSUME NEW b, NEW ch \in Change, b \in Buffer, b.chan = ch.chan, OneChannel(b), Fits(b, ch)
  PROVE  Sound(Written(b, ch)) /\ Len(Written(b, ch).targets) <= Len(b.targets) + 1
<1> DEFINE l == [b EXCEPT !.letters = @ + Size(b, ch), !.pls = ch.pls]
<1>0. /\ l \in Buffer /\ l.chan = b.chan /\ l.flag = b.flag
      /\ l.targets = b.targets /\ l.stale = b.stale
  <2>1. ch.pls \in BOOLEAN
    BY DEF Change, FlagChange, PrefixChange
  <2>2. b.letters + Size(b, ch) \in 0..MaxLetters
    BY RoomForOne DEF Fits, Size, Buffer
  <2> QED BY <2>1, <2>2 DEF Buffer
<1> HIDE DEF l
<1>1. CASE ch.mode = "m"
  <2>1. ch \in FlagChange /\ ch # None
    BY <1>1, NoneIsNothing, PrefixModes DEF Change, FlagChange, PrefixChange
  <2>2. Written(b, ch) = [l EXCEPT !.flag = ch]
    BY <1>1 DEF Written, l
  <2> QED BY <1>0, <2>1, <2>2 DEF Sound, OneChannel, Buffer
<1>2. CASE ch.mode # "m"
  <2>1. ch \in PrefixChange
    BY <1>2 DEF Change, FlagChange
  <2>2. Written(b, ch) = [l EXCEPT !.targets = Append(@, ch)]
    BY <1>2 DEF Written, l
  <2> DEFINE t == Append(b.targets, ch)
  <2>3. b.targets \in Seq(PrefixChange)
    BY DEF Buffer
  <2>4. t \in Seq(PrefixChange) /\ Len(t) = Len(b.targets) + 1 /\ t # <<>>
    <3>1. \A q \in Seq(PrefixChange) :
            Append(q, ch) \in Seq(PrefixChange) /\ Len(Append(q, ch)) = Len(q) + 1 /\ Append(q, ch) # <<>>
      BY <2>1
    <3> QED BY <2>3, <3>1
  <2>5. ~ b.stale => \A i \in DOMAIN t : t[i].chan = ch.chan
    <3>1. ~ b.stale => \A i \in DOMAIN b.targets : b.targets[i].chan = ch.chan
      BY DEF OneChannel
    <3>2. \A i \in DOMAIN t : t[i] = ch \/ (i \in DOMAIN b.targets /\ t[i] = b.targets[i])
      BY <2>1, <2>3
    <3> QED BY <3>1, <3>2
  <2>6. Written(b, ch) \in Buffer /\ Written(b, ch).targets = t
        /\ Written(b, ch).chan = b.chan /\ Written(b, ch).flag = b.flag /\ Written(b, ch).stale = b.stale
    BY <1>0, <2>2, <2>4 DEF Buffer
  <2> QED BY <2>3, <2>4, <2>5, <2>6 DEF Sound, OneChannel
<1> QED BY <1>1, <1>2

(* A new buffer has a change for its channel, and room for another. *)
LEMMA FreshSound ==
  ASSUME NEW ch \in Change
  PROVE  Sound(Fresh(ch)) /\ Len(Fresh(ch).targets) < MaxTargets
<1> DEFINE b == [chan |-> ch.chan, flag |-> None, targets |-> <<>>, left |-> Delay(ch), stale |-> FALSE,
                 pls |-> ~ ch.pls, letters |-> 0]
<1>1. b \in Buffer /\ b.flag = None /\ b.targets = <<>> /\ b.chan = ch.chan /\ Fits(b, ch)
  BY DelayNat, RoomForOne DEF Buffer, Change, FlagChange, PrefixChange, Fits, Size
<1>0. OneChannel(b)
  BY <1>1 DEF OneChannel
<1>2. Sound(Written(b, ch)) /\ Len(Written(b, ch).targets) <= Len(b.targets) + 1
  BY <1>0, <1>1, WrittenSound
<1>3. Len(b.targets) = 0
  BY <1>1
<1>4. Len(Written(b, ch).targets) \in Nat
  BY <1>2 DEF Sound, Buffer
<1> QED BY <1>2, <1>3, <1>4, LimitNat DEF Fresh

(* A buffer with one more change has one more target at most. *)
LEMMA ExtendedSound ==
  ASSUME NEW b, Sound(b), NEW ch \in Change, b.chan = ch.chan, Fits(b, ch)
  PROVE  Sound(Extended(b, ch)) /\ Len(Extended(b, ch).targets) <= Len(b.targets) + 1
<1> DEFINE w == Written(b, ch)
<1>1. Sound(w) /\ Len(w.targets) <= Len(b.targets) + 1
  BY WrittenSound DEF Sound
<1>2. Least(w.left, Delay(ch)) \in Nat
  BY <1>1, DelayNat DEF Least, Sound, Buffer
<1>3. Extended(b, ch) = [w EXCEPT !.left = Least(@, Delay(ch))]
  BY DEF Extended
<1> QED BY <1>1, <1>2, <1>3 DEF Sound, OneChannel, Buffer

-----------------------------------------------------------------------------
(* A line that comes back gives status to members of its channel only: the *)
(* assertion has seen to it.                                               *)
LEMMA SentKeepsChannels ==
  ASSUME ChanOK, live \subseteq User, NEW b \in Buffer, Sent(b), UNCHANGED on
  PROVE  ChanOK'
<1> USE DEF ChanOK, StatusOK
<1>1. \A how \in {"null_deref", "assert_prefix", "undefined"} : Abort(how) => ChanOK'
  BY DEF Abort, StatusOnChannel
<1>2. NothingSent => ChanOK'
  BY DEF NothingSent, StatusOnChannel
<1>3. ASSUME NEW c \in Chan, Apply(b, c), Named(b) \subseteq on[c] PROVE ChanOK'
  <2>1. Named(b) \subseteq User
    BY DEF Named
  <2>2. status' \in [Prefix -> [Chan -> SUBSET User]] /\ \A m \in Prefix, d \in Chan : status'[m][d] \subseteq on[d]
    <3>1. CASE Named(b) = {}
      BY <1>3, <3>1 DEF Apply, StatusOnChannel
    <3>2. CASE Named(b) # {}
      <4>1. b.targets \in Seq(PrefixChange) /\ b.targets # <<>>
        BY <3>2 DEF Buffer, Named
      <4>2. Head(b.targets) \in PrefixChange
        BY <4>1
      <4> DEFINE h == Head(b.targets)
                 held == IF h.pls THEN status[h.mode][c] \cup Named(b) ELSE status[h.mode][c] \ Named(b)
      <4>3. status' = [status EXCEPT ![h.mode][c] = held] /\ h.mode \in Prefix
        BY <1>3, <3>2, <4>2 DEF Apply, PrefixChange
      <4>4. held \subseteq User /\ held \subseteq on[c]
        BY <1>3, <2>1, <4>3 DEF StatusOnChannel
      <4> HIDE DEF held, h
      <4> QED BY <4>3, <4>4 DEF StatusOnChannel
    <3> QED BY <3>1, <3>2
  <2>3. moderated' \subseteq Chan /\ proc' = "up"
    BY <1>3 DEF Apply
  <2> QED BY <2>2, <2>3 DEF StatusOnChannel
<1>4. \A c \in Chan : SentTo(b, c) => ChanOK'
  BY <1>1, <1>3 DEF SentTo
<1>5. b.chan # None => b.chan \in Chan
  BY DEF Buffer
<1> QED BY <1>1, <1>2, <1>4, <1>5 DEF Sent

(* Nothing sent, nothing changed. *)
LEMMA QuietKeepsChannels == ASSUME ChanOK, NothingSent, UNCHANGED on PROVE ChanOK'
  BY DEF ChanOK, StatusOK, NothingSent, StatusOnChannel

(* A buffer that is kept is sound and belongs to a client that is there. *)
LEMMA KeepKeepsBuffers ==
  ASSUME BufOK, NEW f \in Client, NEW b, Keep(f, b), UNCHANGED live,
         b = None \/ (Sound(b) /\ Len(b.targets) < MaxTargets /\ f \in live)
  PROVE  BufOK'
<1>1. b \in Buffer \cup {None}
  BY DEF Sound
<1>2. \A g \in Client : buf'[g] = IF g = f THEN b ELSE buf[g]
  BY DEF Keep, BufOK
<1> QED BY <1>1, <1>2 DEF Keep, BufOK, Sound

(* mode_pushmode: a buffer is made or extended, and sent when it is full,   *)
(* or the program has come to its end.                                     *)
LEMMA PushKeeps ==
  ASSUME BufOK, ChanOK, NEW f \in Client, NEW ch \in Change, mode_pushmode(f, ch)
  PROVE  BufOK' /\ ChanOK'
<1>0. live \subseteq User
  BY DEF BufOK
<1>1. f \in live /\ UNCHANGED <<live, on>>
  BY DEF mode_pushmode, Accepted, PushFirst, PushMore, PushBeyond, PushOther
<1>2. ASSUME NEW b, KeepOrSend(f, b), Sound(b), Len(b.targets) <= MaxTargets
      PROVE  BufOK' /\ ChanOK'
  <2>1. b \in Buffer /\ Len(b.targets) \in Nat
    BY <1>2 DEF Sound, Buffer
  <2>2. CASE Len(b.targets) = MaxTargets
    BY <1>0, <1>1, <1>2, <2>1, <2>2, SentKeepsChannels, KeepKeepsBuffers DEF KeepOrSend
  <2>3. CASE Len(b.targets) < MaxTargets
    BY <1>1, <1>2, <2>1, <2>3, LimitNat, QuietKeepsChannels, KeepKeepsBuffers DEF KeepOrSend
  <2> QED BY <1>2, <2>1, <2>2, <2>3, LimitNat
<1>3. CASE PushFirst(f, ch)
  <2>1. Len(Fresh(ch).targets) <= MaxTargets
    BY FreshSound, LimitNat DEF Sound, Buffer
  <2> QED BY <1>2, <1>3, <2>1, FreshSound DEF PushFirst
<1>4. CASE PushMore(f, ch)
  <2>1. Sound(buf[f]) /\ Len(buf[f].targets) < MaxTargets /\ buf[f].chan = ch.chan /\ Fits(buf[f], ch)
    BY <1>4 DEF PushMore, BufOK
  <2>2. Sound(Extended(buf[f], ch)) /\ Len(Extended(buf[f], ch).targets) <= Len(buf[f].targets) + 1
    BY <2>1, ExtendedSound
  <2>3. Len(Extended(buf[f], ch).targets) <= MaxTargets
    BY <2>1, <2>2, LimitNat DEF Sound, Buffer
  <2> QED BY <1>2, <1>4, <2>2, <2>3 DEF PushMore
<1>5. CASE PushOther(f, ch)
  <2>1. buf[f] \in Buffer
    BY <1>5 DEF PushOther, BufOK, Sound
  <2> QED BY <1>0, <1>1, <1>5, <2>1, FreshSound, SentKeepsChannels, KeepKeepsBuffers DEF PushOther
<1>6. CASE PushBeyond(f, ch)
  BY <1>6 DEF PushBeyond, Abort, BufOK, ChanOK, StatusOK, StatusOnChannel
<1> QED BY <1>3, <1>4, <1>5, <1>6 DEF mode_pushmode

(* A tick counts down and changes nothing else of a buffer. *)
LEMMA TickKeeps == ASSUME BufOK, ChanOK, Tick PROVE BufOK' /\ ChanOK'
<1>1. PICK d \in 1..3 :
        buf' = [f \in Client |-> IF buf[f] = None THEN None
                                 ELSE [buf[f] EXCEPT !.left = IF @ > d THEN @ - d ELSE 0]]
  BY DEF Tick
<1>2. ASSUME NEW b, Sound(b)
      PROVE  LET t == [b EXCEPT !.left = IF @ > d THEN @ - d ELSE 0]
             IN Sound(t) /\ t.targets = b.targets
  <2>1. (IF b.left > d THEN b.left - d ELSE 0) \in Nat
    BY <1>2 DEF Sound, Buffer
  <2> QED BY <1>2, <2>1 DEF Sound, OneChannel, Buffer
<1>3. ASSUME NEW f \in Client
      PROVE  /\ buf'[f] \in Buffer \cup {None}
             /\ buf'[f] # None => Sound(buf'[f]) /\ Len(buf'[f].targets) < MaxTargets /\ f \in live
  <2>1. CASE buf[f] = None
    BY <1>1, <2>1
  <2>2. CASE buf[f] # None
    <3>1. Sound(buf[f]) /\ Len(buf[f].targets) < MaxTargets /\ f \in live
      BY <2>2 DEF BufOK
    <3>2. buf'[f] = [buf[f] EXCEPT !.left = IF @ > d THEN @ - d ELSE 0]
      BY <1>1, <2>2
    <3>3. Sound(buf'[f]) /\ buf'[f].targets = buf[f].targets
      BY <1>2, <3>1, <3>2
    <3> QED BY <3>1, <3>3 DEF Sound
  <2> QED BY <2>1, <2>2
<1>4. BufOK'
  BY <1>1, <1>3 DEF BufOK, Tick, Sound, OneChannel
<1> QED BY <1>4 DEF Tick, ChanOK, StatusOK, StatusOnChannel, chanVars

(* A buffer that is due is sent and dropped. *)
LEMMA FlushDueKeeps == ASSUME BufOK, ChanOK, NEW f \in Client, FlushDue(f) PROVE BufOK' /\ ChanOK'
<1>1. buf[f] \in Buffer
  BY DEF FlushDue, Due, BufOK
<1>0. live \subseteq User
  BY DEF BufOK
<1> QED BY <1>0, <1>1, SentKeepsChannels, KeepKeepsBuffers DEF FlushDue

(* A user that is deleted takes its buffer with it. *)
LEMMA DelUserKeeps == ASSUME BufOK, ChanOK, NEW u \in User, DelUser(u) PROVE BufOK' /\ ChanOK'
<1>1. CASE u \in Client /\ buf[u] # None
  <2>1. buf[u] \in Buffer
    BY <1>1 DEF BufOK
  <2>0. live \subseteq User
    BY DEF BufOK
  <2>2. ChanOK'
    BY <1>1, <2>0, <2>1, SentKeepsChannels DEF DelUser
  <2>3. /\ buf' = [buf EXCEPT ![u] = None] /\ live' = live \ {u}
    BY <1>1 DEF DelUser, Keep
  <2>4. \A g \in Client : buf'[g] = IF g = u THEN None ELSE buf[g]
    BY <2>3 DEF BufOK
  <2>5. BufOK'
    BY <2>3, <2>4 DEF BufOK, Sound, OneChannel
  <2> QED BY <2>2, <2>5
<1>2. CASE ~(u \in Client /\ buf[u] # None)
  <2>1. ChanOK'
    BY <1>2, QuietKeepsChannels DEF DelUser
  <2>2. UNCHANGED buf /\ live' = live \ {u}
    BY <1>2 DEF DelUser
  <2>3. BufOK'
    BY <1>2, <2>2 DEF BufOK, Sound, OneChannel
  <2> QED BY <2>1, <2>3
<1> QED BY <1>1, <1>2

(* Sets of members for each mode and channel, made anew. *)
LEMMA Rows ==
  ASSUME NEW st, st = [m \in Prefix |-> [d \in Chan |-> st[m][d]]],
         \A m \in Prefix, d \in Chan : st[m][d] \subseteq User
  PROVE  st \in [Prefix -> [Chan -> SUBSET User]]
<1>1. \A m \in Prefix : [d \in Chan |-> st[m][d]] \in [Chan -> SUBSET User]
  OBVIOUS
<1> QED BY <1>1

(* The lines of the uplink give status to members, and take it from those  *)
(* who leave.                                                              *)
LEMMA UplinkKeeps ==
  ASSUME BufOK, ChanOK, NEW u \in User, NEW c \in Chan,
         Join(u, c) \/ Leave(u, c) \/ (\E m \in Prefix : SetStatus(u, m, c)) \/ SetModerated(c)
  PROVE  BufOK' /\ ChanOK'
<1>1. BufOK'
  BY DEF BufOK, Sound, OneChannel, Join, Leave, SetStatus, SetModerated
<1>2. CASE Join(u, c)
  <2>1. StatusOK'
    BY <1>2 DEF ChanOK, StatusOK, StatusOnChannel, Join
  <2> QED BY <1>1, <1>2, <2>1 DEF ChanOK, Join
<1>3. CASE Leave(u, c)
  <2>1. \A m \in Prefix, d \in Chan : status'[m][d] = IF d = c THEN status[m][d] \ {u} ELSE status[m][d]
    BY <1>3 DEF ChanOK, StatusOK, Leave
  <2>2. status' = [m \in Prefix |-> [d \in Chan |-> status'[m][d]]]
    BY <1>3 DEF ChanOK, StatusOK, Leave
  <2>3. on' = [d \in Chan |-> IF d = c THEN on[d] \ {u} ELSE on[d]]
    BY <1>3 DEF ChanOK, StatusOK, Leave
  <2>4. \A m \in Prefix, d \in Chan : status'[m][d] \subseteq User /\ status'[m][d] \subseteq on'[d]
    <3>1. \A m \in Prefix, d \in Chan : status[m][d] \subseteq User /\ status[m][d] \subseteq on[d]
      BY DEF ChanOK, StatusOK, StatusOnChannel
    <3> SUFFICES ASSUME NEW m \in Prefix, NEW d \in Chan
                 PROVE  status'[m][d] \subseteq User /\ status'[m][d] \subseteq on'[d]
      OBVIOUS
    <3>2. CASE d = c
      <4>1. status'[m][d] = status[m][d] \ {u} /\ on'[d] = on[d] \ {u}
        BY <2>1, <2>3, <3>2
      <4> QED BY <3>1, <4>1
    <3>3. CASE d # c
      BY <2>1, <2>3, <3>1, <3>3
    <3> QED BY <3>2, <3>3
  <2>5. status' \in [Prefix -> [Chan -> SUBSET User]]
    BY <2>2, <2>4, Rows
  <2>6. on' \in [Chan -> SUBSET User]
    BY <2>3 DEF ChanOK, StatusOK
  <2>7. StatusOK'
    BY <2>4, <2>5, <2>6 DEF StatusOK, StatusOnChannel
  <2> QED BY <1>1, <1>3, <2>7 DEF ChanOK, Leave
<1>4. CASE \E m \in Prefix : SetStatus(u, m, c)
  <2>1. PICK m \in Prefix : SetStatus(u, m, c)
    BY <1>4
  <2> DEFINE held == IF u \in status[m][c] THEN status[m][c] \ {u} ELSE status[m][c] \cup {u}
  <2>2. status' = [status EXCEPT ![m][c] = held]
    BY <2>1 DEF SetStatus
  <2>3. held \subseteq User /\ held \subseteq on[c]
    BY <2>1 DEF SetStatus, ChanOK, StatusOK, StatusOnChannel
  <2> HIDE DEF held
  <2>4. StatusOK'
    BY <2>1, <2>2, <2>3 DEF ChanOK, StatusOK, StatusOnChannel, SetStatus
  <2> QED BY <1>1, <2>1, <2>4 DEF ChanOK, SetStatus
<1>5. CASE SetModerated(c)
  <2>1. StatusOK'
    BY <1>5 DEF ChanOK, StatusOK, StatusOnChannel, SetModerated
  <2> QED BY <1>1, <1>5, <2>1 DEF ChanOK, SetModerated
<1> QED BY <1>1, <1>2, <1>3, <1>4, <1>5

(* A channel that is created again has one member, an operator.  Buffers   *)
(* that pointed at its block are stale from then on.                       *)
LEMMA CreateKeeps ==
  ASSUME BufOK, ChanOK, NEW u \in User, NEW c \in Chan, Create(u, c)
  PROVE  BufOK' /\ ChanOK'
<1>1. PICK reached \in {PointingAt(c)} \cup SUBSET PointingAt(None) :
        buf' = [f \in Client |->
                  IF f \in reached THEN [buf[f] EXCEPT !.chan = c, !.stale = TRUE]
                  ELSE IF f \in PointingAt(c) THEN [buf[f] EXCEPT !.chan = None, !.stale = TRUE]
                  ELSE buf[f]]
  BY DEF Create
<1>2. ASSUME NEW b, Sound(b), NEW d \in Chan \cup {None}, NEW t, t = [b EXCEPT !.chan = d, !.stale = TRUE]
      PROVE  Sound(t) /\ t.targets = b.targets
  BY <1>2 DEF Sound, OneChannel, Buffer
<1>3. \A f \in reached \cup PointingAt(c) : f \in Client /\ buf[f] # None
  BY DEF PointingAt
<1>4. ASSUME NEW f \in Client
      PROVE  /\ buf'[f] \in Buffer \cup {None}
             /\ buf'[f] # None => Sound(buf'[f]) /\ Len(buf'[f].targets) < MaxTargets /\ f \in live
  <2>1. CASE f \notin reached \cup PointingAt(c)
    BY <1>1, <2>1 DEF BufOK
  <2>2. CASE f \in reached \cup PointingAt(c)
    <3>1. Sound(buf[f]) /\ Len(buf[f].targets) < MaxTargets /\ f \in live
      BY <1>3, <2>2 DEF BufOK
    <3>2. PICK d \in Chan \cup {None} : buf'[f] = [buf[f] EXCEPT !.chan = d, !.stale = TRUE]
      <4>1. CASE f \in reached
        BY <1>1, <4>1
      <4>2. CASE f \notin reached
        BY <1>1, <2>2, <4>2
      <4> QED BY <4>1, <4>2
    <3>3. Sound(buf'[f]) /\ buf'[f].targets = buf[f].targets
      BY <1>2, <3>1, <3>2
    <3> QED BY <3>1, <3>3 DEF Sound
  <2> QED BY <2>1, <2>2
<1>5. BufOK'
  BY <1>1, <1>4 DEF BufOK, Create
<1>6. ChanOK'
  <2>1. \A m \in Prefix, d \in Chan :
          status'[m][d] = IF d = c THEN (IF m = "o" THEN {u} ELSE {}) ELSE status[m][d]
    BY DEF ChanOK, StatusOK, Create
  <2>2. status' = [m \in Prefix |-> [d \in Chan |-> status'[m][d]]]
    BY DEF ChanOK, StatusOK, Create
  <2>3. on' = [d \in Chan |-> IF d = c THEN {u} ELSE on[d]]
    BY DEF ChanOK, StatusOK, Create
  <2>4. \A m \in Prefix, d \in Chan : status'[m][d] \subseteq User /\ status'[m][d] \subseteq on'[d]
    <3>1. \A m \in Prefix, d \in Chan : status[m][d] \subseteq User /\ status[m][d] \subseteq on[d]
      BY DEF ChanOK, StatusOK, StatusOnChannel
    <3> SUFFICES ASSUME NEW m \in Prefix, NEW d \in Chan
                 PROVE  status'[m][d] \subseteq User /\ status'[m][d] \subseteq on'[d]
      OBVIOUS
    <3>2. CASE d = c
      BY <2>1, <2>3, <3>1, <3>2
    <3>3. CASE d # c
      BY <2>1, <2>3, <3>1, <3>3
    <3> QED BY <3>2, <3>3
  <2>5. status' \in [Prefix -> [Chan -> SUBSET User]]
    BY <2>2, <2>4, Rows
  <2>6. on' \in [Chan -> SUBSET User]
    BY <2>3 DEF ChanOK, StatusOK
  <2>7. StatusOK'
    BY <2>4, <2>5, <2>6 DEF StatusOK, StatusOnChannel
  <2> QED BY <2>7 DEF ChanOK, Create
<1> QED BY <1>5, <1>6

-----------------------------------------------------------------------------
LEMMA InitIInv == Init => IInv
<1> SUFFICES ASSUME Init PROVE BufOK /\ ChanOK /\ ticking \in BOOLEAN
  BY IInvParts
<1> QED BY UsersNumbered DEF Init, BufOK, ChanOK, StatusOK, StatusOnChannel

LEMMA NextIInv == IInv /\ [Next]_vars => IInv'
<1>0. BufOK' /\ ChanOK' /\ ticking' \in BOOLEAN => IInv'
  BY DEF IInv, BufOK, ChanOK, StatusOK, Sound, OneChannel, TypeOK, ChangesKeepTheirChannel, BuffersHaveClients, BuffersHaveRoom
<1> SUFFICES ASSUME BufOK, ChanOK, ticking \in BOOLEAN, [Next]_vars
             PROVE  BufOK' /\ ChanOK' /\ ticking' \in BOOLEAN
  BY <1>0, IInvParts
<1>1. CASE Tick
  BY <1>1, TickKeeps DEF Tick
<1>2. CASE TickEnds
  BY <1>2 DEF TickEnds, BufOK, Sound, OneChannel, ChanOK, StatusOK, StatusOnChannel, chanVars
<1>3. CASE \E f \in Client : FlushDue(f)
  <2>1. PICK f \in Client : FlushDue(f)
    BY <1>3
  <2>2. ticking' = ticking
    BY <2>1 DEF FlushDue
  <2> QED BY <2>1, <2>2, FlushDueKeeps
<1>4. CASE \E f \in Client, ch \in FlagChange \cup PrefixChange : mode_pushmode(f, ch)
  <2>1. PICK f \in Client, ch \in Change : mode_pushmode(f, ch)
    BY <1>4 DEF Change
  <2>2. ticking' = ticking
    BY <2>1 DEF mode_pushmode, PushFirst, PushMore, PushBeyond, PushOther
  <2> QED BY <2>1, <2>2, PushKeeps
<1>5. CASE \E u \in User : DelUser(u)
  <2>1. PICK u \in User : DelUser(u)
    BY <1>5
  <2>2. ticking' = ticking
    BY <2>1 DEF DelUser
  <2> QED BY <2>1, <2>2, DelUserKeeps
<1>6. CASE \E u \in User, c \in Chan : Join(u, c) \/ Leave(u, c) \/ \E m \in Prefix : SetStatus(u, m, c)
  <2>1. PICK u \in User, c \in Chan : Join(u, c) \/ Leave(u, c) \/ \E m \in Prefix : SetStatus(u, m, c)
    BY <1>6
  <2>2. ticking' = ticking
    BY <2>1 DEF Join, Leave, SetStatus
  <2> QED BY <2>1, <2>2, UplinkKeeps
<1>9. CASE \E u \in User, c \in Chan : Create(u, c)
  <2>1. PICK u \in User, c \in Chan : Create(u, c)
    BY <1>9
  <2>2. ticking' = ticking
    BY <2>1 DEF Create
  <2> QED BY <2>1, <2>2, CreateKeeps
<1>7. CASE \E c \in Chan : SetModerated(c)
  BY <1>7 DEF SetModerated, BufOK, Sound, OneChannel, ChanOK, StatusOK, StatusOnChannel
<1>8. CASE UNCHANGED vars
  BY <1>8 DEF vars, chanVars, BufOK, Sound, OneChannel, ChanOK, StatusOK, StatusOnChannel
<1> QED BY <1>1, <1>2, <1>3, <1>4, <1>5, <1>6, <1>7, <1>8, <1>9 DEF Next, Flushing

THEOREM Invariant == Spec => []IInv
  BY InitIInv, NextIInv, PTL DEF Spec

(* A buffer, its changes and the channels keep their types. *)
THEOREM TypeCorrect == Spec => []TypeOK
<1>1. IInv => TypeOK
  BY DEF IInv
<1> QED BY <1>1, Invariant, PTL

(* No change is sent to another channel than the one it was made for.      *)
THEOREM ChannelsAreKept == Spec => []ChangesKeepTheirChannel
<1>1. IInv => ChangesKeepTheirChannel
  BY DEF IInv
<1> QED BY <1>1, Invariant, PTL

(* mode_flushmode_deletion leaves no buffer without its client. *)
THEOREM ClientsAreThere == Spec => []BuffersHaveClients
<1>1. IInv => BuffersHaveClients
  BY DEF IInv
<1> QED BY <1>1, Invariant, PTL

(* No buffer reaches the limit of targets of a line, whatever the limit.   *)
THEOREM RoomIsLeft == Spec => []BuffersHaveRoom
<1>1. IInv => BuffersHaveRoom
  BY DEF IInv
<1> QED BY <1>1, Invariant, PTL

(* Status is held by members only, whoever a cut target names. *)
THEOREM StatusIsMembers == Spec => []StatusOnChannel
<1>1. IInv => StatusOnChannel
  BY DEF IInv
<1> QED BY <1>1, Invariant, PTL

=============================================================================
