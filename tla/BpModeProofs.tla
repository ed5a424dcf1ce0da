----------------------------- MODULE BpModeProofs -----------------------------
(***************************************************************************)
(* Theorems about BpMode, for any number of zeros, tries and retries.      *)
(* What makes them true is that commands and replies keep their order: a   *)
(* reply the host can read says what the adapter has done with everything  *)
(* that was written before, and what is still on its way was written for   *)
(* the mode asked for now or for the one before it.                        *)
(***************************************************************************)
EXTENDS BpMode, SequenceTheorems, TLAPS

Fragment == {"BB", "IO1", "SP", "I1", "I2", "C1", "\\1"}

\* The fragment a reply starts with.
First(m) == ExpectedReply(m)[1]

\* The mode asked for after the present goal.
Following == CASE goal = "BBIO" -> IF state = "none" THEN role ELSE "console"
               [] OTHER -> "BBIO"

\* What the host has yet to read, read or not delivered.
Stream == line \o out

Has(s, f) == \E i \in 1..Len(s) : s[i] = f
\* Behind an f there is no g.
Barred(s, f, g) == \A i, j \in 1..Len(s) : i <= j /\ s[i] = f => s[j] # g

Raw == {"open", "zeros", "rawWrite", "rawRead", "rawAgain", "rawDone"}
Asking == {"toMode", "toWrite", "toRead", "toRetry"}
Agreed == {"toOk", "reopen", "inUse", "closed"}

Typed ==
  /\ TypeOK
  /\ goal \in {"BBIO", role, "console"}
  /\ line \in Seq(Fragment) /\ out \in Seq(Fragment)

\* How far each loop has got.
Turns ==
  /\ pc = "open" => tries = 0
  /\ pc = "zeros" => tries < NZEROS_RAW
  /\ pc \in {"rawWrite", "rawAgain", "rawDone"} => tries <= RAW_TRIES
  /\ pc = "toMode" => tries = 0
  /\ pc \in {"toWrite", "toRead", "toRetry"} => tries < STATE_RETRIES

\* rawMode_enter: only zeros have been written.  Once a reply has come back the
\* adapter is in binary mode, whatever mode it was in, and nothing answers yet
\* as the mode of the role does.
Entering ==
  /\ goal = "BBIO" /\ pc \in Raw \cup {"failed"}
  /\ \A i \in 1..Len(cmds) : cmds[i] = 0
  /\ Has(Stream, "BB") \/ pc = "rawDone" => mode = "BBIO"
  /\ ~Has(Stream, First(role))

\* rawMode_toMode: the mode asked for, and the one before it.
Stage ==
  /\ pc \in Asking \cup Agreed \cup {"failed"}
  /\ pc \in Asking => state # goal
  /\ pc \in Agreed => state = goal
  /\ pc \in {"reopen", "inUse"} => goal = role
  /\ pc = "closed" => goal = "console"
  /\ <<state, goal>> \in {<<"BBIO", role>>, <<role, role>>, <<role, "BBIO">>, <<"BBIO", "BBIO">>,
                          <<"BBIO", "console">>, <<"console", "console">>}

\* The commands under way are retries for the mode before, then such for the
\* mode asked for; the adapter leaves the one with the first of the others.
Commanded ==
  /\ mode \in {state, goal}
  /\ \A i \in 1..Len(cmds) : cmds[i] \in {Command(state), Command(goal)}
  /\ \A i, j \in 1..Len(cmds) : i <= j /\ cmds[i] = Command(goal) => cmds[j] = Command(goal)
  /\ mode = goal => \A i \in 1..Len(cmds) : cmds[i] = Command(goal)

\* A reply for the mode asked for shows that it was entered, and no reply
\* behind it is one for the mode asked for next.
Answering ==
  /\ Has(Stream, First(goal)) => mode = goal
  /\ Barred(Stream, First(goal), First(Following))
  /\ state = goal => ~Has(Stream, First(Following))

Moving == Stage /\ Commanded /\ Answering

Ordered == link = "up" => IF state = "none" THEN Entering ELSE Moving

(* An adapter that is in time. *)

Quiet == cmds = <<>> /\ out = <<>> /\ line = <<>>

\* The zeros written so far are under way or counted by the console, until
\* they are answered.
Written == CASE pc = "zeros" -> tries [] pc = "rawWrite" -> NZEROS_RAW [] OTHER -> NZEROS_RAW + 1
Counted ==
  /\ pc = "rawWrite" => tries = 0
  /\ pc = "rawRead" => tries = 1
  /\ mode # "console" => zeros = 0
  /\ IF Stream = <<>> THEN zeros + Len(cmds) = Written
                      ELSE Len(Stream) >= 2 /\ Stream[1] = "BB" /\ Stream[2] = "IO1"

\* The first write of a command has its answer at the first read.
OneAnswer ==
  \/ cmds = <<Command(goal)>> /\ Stream = <<>> /\ mode = state
  \/ cmds = <<>> /\ Stream = ExpectedReply(goal)

Timely ==
  link = "up" /\ ~late =>
    /\ ~stray /\ pc \notin {"failed", "rawAgain", "toRetry"}
    /\ pc \in {"open", "rawDone"} => cmds = <<>> /\ out = <<>>
    /\ pc = "open" => zeros = 0
    /\ pc \in {"zeros", "rawWrite", "rawRead"} => Counted
    /\ pc \in {"toMode", "toWrite"} \cup Agreed => Quiet
    /\ pc \in {"toMode", "toWrite"} => mode = state
    /\ pc = "toRead" => OneAnswer

IInv == Typed /\ Turns /\ Ordered /\ Timely
-----------------------------------------------------------------------------
(* Sequences of fragments *)

LEMMA HasConcat ==
  ASSUME NEW s \in Seq(Fragment), NEW t \in Seq(Fragment), NEW f
  PROVE  Has(s \o t, f) <=> Has(s, f) \/ Has(t, f)
  <1>1. /\ s \o t \in Seq(Fragment) /\ Len(s \o t) = Len(s) + Len(t)
        /\ \A i \in 1..Len(s) : (s \o t)[i] = s[i]
        /\ \A i \in 1..Len(t) : (s \o t)[Len(s) + i] = t[i]
    OBVIOUS
  <1>2. ASSUME Has(s \o t, f) PROVE Has(s, f) \/ Has(t, f)
    <2>1. PICK i \in 1..Len(s \o t) : (s \o t)[i] = f
      BY <1>2 DEF Has
    <2>2. CASE i <= Len(s)
      BY <1>1, <2>1, <2>2 DEF Has
    <2>3. CASE ~(i <= Len(s))
      <3>1. i - Len(s) \in 1..Len(t) /\ Len(s) + (i - Len(s)) = i
        BY <1>1, <2>3
      <3> QED
        BY <1>1, <2>1, <3>1 DEF Has
    <2> QED
      BY <2>2, <2>3
  <1>3. ASSUME Has(s, f) PROVE Has(s \o t, f)
    <2>1. PICK i \in 1..Len(s) : s[i] = f
      BY <1>3 DEF Has
    <2>2. i \in 1..Len(s \o t)
      BY <1>1
    <2> QED
      BY <1>1, <2>1, <2>2 DEF Has
  <1>4. ASSUME Has(t, f) PROVE Has(s \o t, f)
    <2>1. PICK i \in 1..Len(t) : t[i] = f
      BY <1>4 DEF Has
    <2>2. Len(s) + i \in 1..Len(s \o t)
      BY <1>1
    <2> QED
      BY <1>1, <2>1, <2>2 DEF Has
  <1> QED
    BY <1>2, <1>3, <1>4

\* Barred where the first of the two does not occur at all.
LEMMA BarredWithout ==
  ASSUME NEW s \in Seq(Fragment), NEW f, NEW g, ~Has(s, f)
  PROVE  Barred(s, f, g)
  BY DEF Has, Barred

\* Fragments other than g may follow.
LEMMA BarredConcat ==
  ASSUME NEW s \in Seq(Fragment), NEW t \in Seq(Fragment), NEW f, NEW g,
         Barred(s, f, g), ~Has(t, g)
  PROVE  Barred(s \o t, f, g)
  <1>1. /\ s \o t \in Seq(Fragment) /\ Len(s \o t) = Len(s) + Len(t)
        /\ \A i \in 1..Len(s) : (s \o t)[i] = s[i]
        /\ \A i \in 1..Len(t) : (s \o t)[Len(s) + i] = t[i]
    OBVIOUS
  <1>2. ASSUME NEW i \in 1..Len(s \o t), NEW j \in 1..Len(s \o t), i <= j, (s \o t)[i] = f
        PROVE  (s \o t)[j] # g
    <2>1. CASE j <= Len(s)
      BY <1>1, <1>2, <2>1 DEF Barred
    <2>2. CASE ~(j <= Len(s))
      <3>1. j - Len(s) \in 1..Len(t) /\ Len(s) + (j - Len(s)) = j
        BY <1>1, <2>2
      <3> QED
        BY <1>1, <3>1 DEF Has
    <2> QED
      BY <2>1, <2>2
  <1> QED
    BY <1>2 DEF Barred

\* What is read is gone from the front.
LEMMA HasRest ==
  ASSUME NEW s \in Seq(Fragment), NEW n \in 0..Len(s), NEW f, NEW g
  PROVE  LET t == SubSeq(s, n + 1, Len(s)) IN
         /\ t \in Seq(Fragment)
         /\ Has(t, f) => Has(s, f)
         /\ Barred(s, f, g) => Barred(t, f, g)
  <1> DEFINE t == SubSeq(s, n + 1, Len(s))
  <1>1. t \in Seq(Fragment) /\ Len(t) = Len(s) - n /\ \A i \in 1..Len(t) : t[i] = s[n + i]
    OBVIOUS
  <1>2. \A i \in 1..Len(t) : n + i \in 1..Len(s)
    BY <1>1
  <1> HIDE DEF t
  <1>3. Has(t, f) => Has(s, f)
    BY <1>1, <1>2 DEF Has
  <1>4. ASSUME Barred(s, f, g) PROVE Barred(t, f, g)
    <2>1. \A i, j \in 1..Len(t) : i <= j => n + i <= n + j
      BY <1>1
    <2> QED
      BY <1>1, <1>2, <1>4, <2>1 DEF Barred
  <1> QED
    BY <1>1, <1>3, <1>4 DEF t

\* Fragments taken from the line are taken from the front of the stream.
LEMMA Taken ==
  ASSUME NEW s \in Seq(Fragment), NEW t \in Seq(Fragment), NEW n \in 0..Len(s)
  PROVE  SubSeq(s, n + 1, Len(s)) \o t = SubSeq(s \o t, n + 1, Len(s \o t))
  <1> DEFINE a == SubSeq(s, n + 1, Len(s)) \o t
             b == SubSeq(s \o t, n + 1, Len(s \o t))
  <1>1. a \in Seq(Fragment) /\ b \in Seq(Fragment) /\ Len(a) = Len(b)
    OBVIOUS
  <1>2. \A i \in 1..Len(a) : a[i] = b[i]
    OBVIOUS
  <1> QED
    BY <1>1, <1>2, SeqEqual

\* A fragment delivered leaves the stream as it was.
LEMMA MoveFragment ==
  ASSUME NEW s \in Seq(Fragment), NEW t \in Seq(Fragment), t # <<>>
  PROVE  /\ Append(s, Head(t)) \in Seq(Fragment) /\ Tail(t) \in Seq(Fragment)
         /\ Append(s, Head(t)) \o Tail(t) = s \o t
  <1> DEFINE a == Append(s, Head(t)) \o Tail(t)
             b == s \o t
  <1>1. Head(t) \in Fragment /\ Tail(t) \in Seq(Fragment) /\ Len(Tail(t)) = Len(t) - 1
    BY HeadTailProperties
  <1>2. Append(s, Head(t)) \in Seq(Fragment) /\ Len(Append(s, Head(t))) = Len(s) + 1
    BY <1>1
  <1>3. a \in Seq(Fragment) /\ b \in Seq(Fragment) /\ Len(a) = Len(b)
    BY <1>1, <1>2
  <1>4. \A i \in 1..Len(a) : a[i] = b[i]
    BY <1>1, <1>2, <1>3
  <1> QED
    BY <1>1, <1>2, <1>3, <1>4, SeqEqual

LEMMA ConcatAgain ==
  ASSUME NEW s \in Seq(Fragment), NEW t \in Seq(Fragment), NEW u \in Seq(Fragment)
  PROVE  s \o (t \o u) = (s \o t) \o u
  <1>1. /\ s \o (t \o u) \in Seq(Fragment) /\ (s \o t) \o u \in Seq(Fragment)
        /\ Len(s \o (t \o u)) = Len((s \o t) \o u)
    OBVIOUS
  <1>2. \A i \in 1..Len(s \o (t \o u)) : (s \o (t \o u))[i] = ((s \o t) \o u)[i]
    OBVIOUS
  <1> QED
    BY <1>1, <1>2, SeqEqual
-----------------------------------------------------------------------------
(* Commands and replies *)

\* The replies of two modes start differently, and no reply has the start of
\* another one in it.
LEMMA Replies ==
  ASSUME NEW m \in Mode
  PROVE  /\ ExpectedReply(m) \in Seq(Fragment) /\ Len(ExpectedReply(m)) \in {1, 2}
         /\ First(m) = ExpectedReply(m)[1] /\ First(m) \in Fragment
         /\ Command(m) \in {0, 1, 2, 15}
         /\ \A n \in Mode : n # m => Command(n) # Command(m)
         /\ \A n \in Mode : Has(ExpectedReply(m), First(n)) <=> n = m
  <1>1. /\ ExpectedReply("BBIO") = <<"BB", "IO1">> /\ ExpectedReply("SPI") = <<"SP", "I1">>
        /\ ExpectedReply("I2C") = <<"I2", "C1">> /\ ExpectedReply("console") = <<"\\1">>
    BY DEF ExpectedReply
  <1>2. /\ First("BBIO") = "BB" /\ First("SPI") = "SP"
        /\ First("I2C") = "I2" /\ First("console") = "\\1"
    BY <1>1 DEF First
  <1>3. Command("BBIO") = 0 /\ Command("SPI") = 1 /\ Command("I2C") = 2 /\ Command("console") = 15
    BY DEF Command
  <1>4. \A f, g, h : Has(<<f, g>>, h) <=> h = f \/ h = g
    BY DEF Has
  <1>5. \A f, h : Has(<<f>>, h) <=> h = f
    BY DEF Has
  <1>6. Fragment = {"BB", "IO1", "SP", "I1", "I2", "C1", "\\1"}
    BY DEF Fragment
  <1>7. ExpectedReply(m) \in Seq(Fragment) /\ Len(ExpectedReply(m)) \in {1, 2}
    <2>1. /\ \A f, g \in Fragment : <<f, g>> \in Seq(Fragment) /\ Len(<<f, g>>) = 2
          /\ \A f \in Fragment : <<f>> \in Seq(Fragment) /\ Len(<<f>>) = 1
      OBVIOUS
    <2>2. {"BB", "IO1", "SP", "I1", "I2", "C1", "\\1"} \subseteq Fragment
      BY <1>6
    <2> QED
      BY <1>1, <2>1, <2>2 DEF Mode
  <1>8. First(m) \in Fragment /\ Command(m) \in {0, 1, 2, 15}
    BY <1>2, <1>3, <1>6 DEF Mode
  <1>9. \A n \in Mode : n # m => Command(n) # Command(m)
    BY <1>3 DEF Mode
  <1>10. ASSUME NEW n \in Mode PROVE Has(ExpectedReply(m), First(n)) <=> n = m
    <2>1. CASE m = "BBIO"
      <3>1. Has(ExpectedReply(m), First(n)) <=> First(n) = "BB" \/ First(n) = "IO1"
        BY <1>1, <1>4, <2>1
      <3> QED
        BY <1>2, <2>1, <3>1 DEF Mode
    <2>2. CASE m = "SPI"
      <3>1. Has(ExpectedReply(m), First(n)) <=> First(n) = "SP" \/ First(n) = "I1"
        BY <1>1, <1>4, <2>2
      <3> QED
        BY <1>2, <2>2, <3>1 DEF Mode
    <2>3. CASE m = "I2C"
      <3>1. Has(ExpectedReply(m), First(n)) <=> First(n) = "I2" \/ First(n) = "C1"
        BY <1>1, <1>4, <2>3
      <3> QED
        BY <1>2, <2>3, <3>1 DEF Mode
    <2>4. CASE m = "console"
      BY <1>1, <1>2, <1>5, <2>4 DEF Mode
    <2> QED
      BY <2>1, <2>2, <2>3, <2>4 DEF Mode
  <1> QED
    BY <1>7, <1>8, <1>9, <1>10 DEF First

\* An acknowledgement on the bus looks like the answer of the console only.
LEMMA Acknowledgement ==
  /\ <<"\\1">> \in Seq(Fragment)
  /\ \A m \in Mode : Has(<<"\\1">>, First(m)) <=> m = "console"
  <1>1. <<"\\1">> \in Seq(Fragment)
    BY DEF Fragment
  <1>2. ExpectedReply("console") = <<"\\1">>
    BY DEF ExpectedReply
  <1> QED
    BY <1>1, <1>2, Replies DEF Mode
-----------------------------------------------------------------------------
(* The stream of replies *)

\* Nothing new appears, and no order is changed.
StreamShrinks ==
  /\ \A f : Has(Stream', f) => Has(Stream, f)
  /\ \A f, g : Barred(Stream, f, g) => Barred(Stream', f, g)

LEMMA Shrinks ==
  ASSUME Typed, out' = out,
         NEW n \in 0..Len(line), line' = SubSeq(line, n + 1, Len(line))
  PROVE  line' \in Seq(Fragment) /\ StreamShrinks
  <1>1. line \in Seq(Fragment) /\ out \in Seq(Fragment) /\ Stream \in Seq(Fragment)
    BY DEF Typed, Stream
  <1>2. line' \in Seq(Fragment)
    BY <1>1
  <1>3. Stream' = SubSeq(Stream, n + 1, Len(Stream)) /\ n \in 0..Len(Stream)
    <2>1. Stream' = line' \o out
      BY DEF Stream
    <2>2. Len(Stream) = Len(line) + Len(out)
      BY <1>1 DEF Stream
    <2>3. SubSeq(line, n + 1, Len(line)) \o out = SubSeq(line \o out, n + 1, Len(line \o out))
      BY <1>1, Taken
    <2>4. Stream' = SubSeq(line \o out, n + 1, Len(line \o out))
      BY <2>1, <2>3
    <2>5. n \in 0..Len(Stream)
      BY <1>1, <2>2
    <2> QED
      BY <2>4, <2>5 DEF Stream
  <1> QED
    BY <1>1, <1>2, <1>3, HasRest DEF StreamShrinks

LEMMA FlushShrinks ==
  ASSUME Typed, out' = out, line' = <<>>
  PROVE  StreamShrinks
  <1>1. line \in Seq(Fragment)
    BY DEF Typed
  <1>2. SubSeq(line, Len(line) + 1, Len(line)) = <<>> /\ Len(line) \in 0..Len(line)
    BY <1>1
  <1> QED
    BY <1>2, Shrinks

\* A read takes the fragments from the front of the line, and a match is what
\* it has taken.
LEMMA ReadFront ==
  ASSUME Typed, NEW m \in Mode
  PROVE  /\ \E n \in 0..Len(line) : Unread(m) = SubSeq(line, n + 1, Len(line))
         /\ Read2Err(m) = ExpectedReply(m) => Has(Stream, First(m)) /\ Len(Stream) > 0 /\ Stream[1] = First(m)
  <1> DEFINE k == Fragments(m)
             n == IF Len(line) < k THEN Len(line) ELSE k
  <1>1. line \in Seq(Fragment) /\ out \in Seq(Fragment)
    BY DEF Typed
  <1>2. k \in {1, 2}
    BY Replies DEF Fragments
  <1>3. Read2Err(m) = SubSeq(line, 1, n) /\ n \in 0..Len(line) /\ n <= k
    BY <1>1, <1>2 DEF Read2Err
  <1>4. Len(SubSeq(line, 1, n)) = n /\ (n > 0 => SubSeq(line, 1, n)[1] = line[1])
    BY <1>1, <1>3
  <1>5. Unread(m) = SubSeq(line, n + 1, Len(line))
    BY <1>3, <1>4 DEF Unread
  <1>6. ASSUME Read2Err(m) = ExpectedReply(m)
        PROVE  Has(Stream, First(m)) /\ Len(Stream) > 0 /\ Stream[1] = First(m)
    <2>1. n > 0 /\ line[1] = First(m)
      BY <1>2, <1>3, <1>4, <1>6, Replies DEF First
    <2>2. Len(line) > 0 /\ Stream[1] = line[1] /\ Len(Stream) > 0
      BY <1>1, <1>3, <2>1 DEF Stream
    <2> QED
      BY <2>1, <2>2 DEF Has
  <1> QED
    BY <1>3, <1>5, <1>6
-----------------------------------------------------------------------------
(* The adapter *)

LEMMA ModeNames ==
  /\ role \in Roles => role \in {"SPI", "I2C"}
  /\ Command("BBIO") = 0 /\ Command("SPI") = 1 /\ Command("I2C") = 2 /\ Command("console") = 15
  BY TriesAssumption DEF TriesAssumption, Command

\* A command for the mode the adapter is in leaves it there, and is answered
\* at most as that mode does, or in I2C mode like the console.
LEMMA AdapterRepeats ==
  ASSUME Typed, Adapter, Head(cmds) = Command(mode)
  PROVE  /\ mode' = mode
         /\ \E r \in Seq(Fragment) :
              /\ out' = out \o r
              /\ \A n \in Mode : n # mode /\ (n = "console" => mode # "I2C") => ~Has(r, First(n))
  <1>1. mode \in Mode /\ out \in Seq(Fragment)
    BY DEF Typed, TypeOK
  <1>2. CASE mode = "console"
    <2>1. mode' = mode /\ out' = out
      BY <1>2, ModeNames DEF Adapter
    <2>2. <<>> \in Seq(Fragment) /\ out = out \o <<>> /\ \A n \in Mode : ~Has(<<>>, First(n))
      BY <1>1 DEF Has
    <2> QED
      BY <2>1, <2>2
  <1>3. CASE mode \in {"BBIO", "SPI"}
    <2>1. Becomes(mode)
      BY <1>3, ModeNames DEF Adapter
    <2> QED
      BY <1>1, <2>1, Replies DEF Becomes
  <1>4. CASE mode = "I2C"
    <2>1. OnBus
      BY <1>4, ModeNames DEF Adapter
    <2>2. mode' = mode /\ out' = out \o <<"\\1">>
      BY <1>1, <2>1, Acknowledgement DEF OnBus
    <2> QED
      BY <1>4, <2>2, Acknowledgement
  <1> QED
    BY <1>1, <1>2, <1>3, <1>4 DEF Mode

\* A command for another mode that can be entered from this one enters it.
LEMMA AdapterChanges ==
  ASSUME Typed, Adapter, NEW m \in Mode, Head(cmds) = Command(m),
         <<mode, m>> \in {<<"BBIO", "SPI">>, <<"BBIO", "I2C">>, <<"BBIO", "console">>,
                          <<"SPI", "BBIO">>, <<"I2C", "BBIO">>}
  PROVE  Becomes(m)
  <1>1. CASE mode = "BBIO" /\ m \in {"SPI", "I2C", "console"}
    BY <1>1, ModeNames DEF Adapter
  <1>2. CASE mode \in {"SPI", "I2C"} /\ m = "BBIO"
    BY <1>2, ModeNames DEF Adapter
  <1> QED
    BY <1>1, <1>2

\* Its reply comes last in the stream.
LEMMA ReplyLast ==
  ASSUME Typed, line' = line, NEW r \in Seq(Fragment), out' = out \o r
  PROVE  Stream \in Seq(Fragment) /\ Stream' = Stream \o r
  BY ConcatAgain DEF Typed, Stream

\* The command carried out is the first one; the others move up.
LEMMA NextCommand ==
  ASSUME NEW s \in Seq({0, 1, 2, 15}), s # <<>>
  PROVE  /\ Tail(s) \in Seq({0, 1, 2, 15}) /\ Head(s) = s[1] /\ 1 \in 1..Len(s)
         /\ Head(s) \in {0, 1, 2, 15}
         /\ \A i \in 1..Len(Tail(s)) : i + 1 \in 1..Len(s) /\ Tail(s)[i] = s[i + 1]
         /\ Len(Tail(s)) = Len(s) - 1
  OBVIOUS

\* A command written is the last one.
LEMMA LastCommand ==
  ASSUME NEW s \in Seq({0, 1, 2, 15}), NEW c \in {0, 1, 2, 15}
  PROVE  /\ Append(s, c) \in Seq({0, 1, 2, 15}) /\ Len(Append(s, c)) = Len(s) + 1
         /\ \A i \in 1..Len(Append(s, c)) :
              Append(s, c)[i] = IF i <= Len(s) THEN s[i] ELSE c
  OBVIOUS
-----------------------------------------------------------------------------
(* Types, and the turns of the loops *)

LEMMA InitIInv == Init => IInv
  <1> SUFFICES ASSUME Init PROVE IInv
    OBVIOUS
  <1>1. NZEROS_RAW \in Nat \ {0} /\ RAW_TRIES \in Nat \ {0} /\ STATE_RETRIES \in Nat \ {0}
    BY TriesAssumption DEF TriesAssumption
  <1>2. line \in Seq(Fragment)
    <2>1. <<>> \in Seq(Fragment) /\ <<"IO1">> \in Seq(Fragment)
      BY DEF Fragment
    <2> QED
      BY <2>1 DEF Init
  <1>3. Typed /\ Turns
    <2>1. stray \in BOOLEAN /\ late \in BOOLEAN /\ spin \in BOOLEAN
      BY Zenon DEF Init
    <2>2. tries = 0 /\ zeros = 0 /\ tries \in 0..RAW_TRIES + 1 /\ zeros \in 0..NZEROS_RAW - 1
      BY <1>1 DEF Init
    <2>3. /\ pc = "open" /\ role \in Roles /\ goal = "BBIO" /\ state = "none" /\ mode \in Mode
          /\ cmds = <<>> /\ out = <<>> /\ link = "up"
      BY DEF Init
    <2>4. <<>> \in Seq({0, 1, 2, 15}) /\ <<>> \in Seq(Fragment) /\ line \in Seq(Fragment)
      BY <1>2
    <2>5. TypeOK
      BY <2>1, <2>2, <2>3, <2>4 DEF TypeOK, Mode
    <2> QED
      BY <2>2, <2>3, <2>4, <2>5 DEF Typed, Turns
  <1>4. role \in {"SPI", "I2C"}
    BY ModeNames DEF Init
  <1>5. ~Has(Stream, "BB") /\ ~Has(Stream, First(role))
    <2>1. out = <<>> /\ line \in {<<>>, <<"IO1">>}
      BY DEF Init
    <2>2. Stream = line
      BY <1>2, <2>1 DEF Stream
    <2>3. First(role) # "IO1"
      BY <1>4 DEF First, ExpectedReply
    <2> QED
      BY <2>1, <2>2, <2>3 DEF Has
  <1>6. Ordered
    BY <1>5 DEF Init, Ordered, Entering, Raw
  <1>7. Timely
    BY DEF Init, Timely, Agreed
  <1> QED
    BY <1>3, <1>6, <1>7 DEF IInv

LEMMA AdapterTyped == Typed /\ Turns /\ Adapter => Typed' /\ Turns'
  <1> SUFFICES ASSUME Typed, Turns, Adapter PROVE Typed' /\ Turns'
    OBVIOUS
  <1>1. UNCHANGED <<pc, role, goal, tries, state, spin, line, late, link>>
    BY DEF Adapter, hostVars
  <1>2. Tail(cmds) \in Seq({0, 1, 2, 15}) /\ cmds' = Tail(cmds)
    BY NextCommand DEF Typed, TypeOK, Adapter
  <1>3. /\ mode' \in Mode /\ zeros' \in 0..NZEROS_RAW - 1
        /\ stray' \in BOOLEAN /\ out' \in Seq(Fragment)
    <2>1. ASSUME NEW m \in Mode, Becomes(m)
          PROVE  mode' \in Mode /\ zeros' = 0 /\ stray' = stray /\ out' \in Seq(Fragment)
      BY <2>1, Replies DEF Becomes, Typed
    <2>2. ASSUME OnBus PROVE mode' = mode /\ zeros' = zeros /\ stray' = TRUE /\ out' \in Seq(Fragment)
      BY <2>2 DEF OnBus, Typed, Fragment
    <2>3. \/ \E m \in Mode : Becomes(m)
          \/ OnBus
          \/ zeros + 1 < NZEROS_RAW /\ zeros' = zeros + 1 /\ UNCHANGED <<mode, out, stray>>
          \/ UNCHANGED <<mode, zeros, out, stray>>
      BY DEF Adapter, Mode
    <2>4. stray' \in BOOLEAN
      BY <2>1, <2>2, <2>3, Zenon DEF Typed, TypeOK
    <2>5. zeros' \in 0..NZEROS_RAW - 1
      <3>1. NZEROS_RAW \in Nat \ {0} /\ zeros \in 0..NZEROS_RAW - 1
        BY TriesAssumption DEF Typed, TypeOK, TriesAssumption
      <3>2. zeros' = 0 \/ zeros' = zeros \/ (zeros + 1 < NZEROS_RAW /\ zeros' = zeros + 1)
        BY <2>1, <2>2, <2>3
      <3> QED
        BY <3>1, <3>2
    <2> QED
      BY <2>1, <2>2, <2>3, <2>4, <2>5 DEF Typed, TypeOK
  <1> QED
    BY <1>1, <1>2, <1>3 DEF Typed, TypeOK, Turns

LEMMA DeliverTyped == Typed /\ Turns /\ Deliver => Typed' /\ Turns'
  <1> SUFFICES ASSUME Typed, Turns, Deliver PROVE Typed' /\ Turns'
    OBVIOUS
  <1>1. line' \in Seq(Fragment) /\ out' \in Seq(Fragment)
    BY MoveFragment DEF Typed, Deliver
  <1> QED
    BY <1>1 DEF Typed, TypeOK, Turns, Deliver, hostVars, deviceVars

LEMMA HostTyped == Typed /\ Turns /\ (Host \/ Deinit) => Typed' /\ Turns'
  <1> SUFFICES ASSUME Typed, Turns, Host \/ Deinit PROVE Typed' /\ Turns'
    OBVIOUS
  <1>1. /\ NZEROS_RAW \in Nat \ {0} /\ RAW_TRIES \in Nat \ {0} /\ STATE_RETRIES \in Nat \ {0}
        /\ NZEROS_RAW <= RAW_TRIES /\ STATE_RETRIES <= RAW_TRIES
        /\ role \in {"SPI", "I2C"}
    BY TriesAssumption, ModeNames DEF TriesAssumption, Typed, TypeOK
  <1>2. \A c \in {0, 1, 2, 15} : Append(cmds, c) \in Seq({0, 1, 2, 15})
    BY LastCommand DEF Typed, TypeOK
  <1>3. \A m \in Mode : Unread(m) \in Seq(Fragment)
    <2> SUFFICES ASSUME NEW m \in Mode PROVE Unread(m) \in Seq(Fragment)
      OBVIOUS
    <2>1. PICK n \in 0..Len(line) : Unread(m) = SubSeq(line, n + 1, Len(line))
      BY ReadFront
    <2> QED
      BY <2>1 DEF Typed
  <1>4. <<>> \in Seq(Fragment) /\ line \in Seq(Fragment) /\ goal \in Mode /\ role \in Mode
    BY <1>1 DEF Typed, TypeOK, Mode
  <1> USE <1>1 DEF Goto, At
  <1>18. \A p : EmptyInbuff(p) =>
           /\ line' \in Seq(Fragment) /\ spin' \in BOOLEAN
           /\ (pc' = p /\ link = "up") \/ (UNCHANGED <<pc, line>> /\ link # "up")
    <2> SUFFICES ASSUME NEW p, EmptyInbuff(p)
                 PROVE  /\ line' \in Seq(Fragment) /\ spin' \in BOOLEAN
                        /\ (pc' = p /\ link = "up") \/ (UNCHANGED <<pc, line>> /\ link # "up")
      OBVIOUS
    <2>1. spin' \in BOOLEAN
      BY Zenon DEF EmptyInbuff, Typed, TypeOK
    <2>2. line' \in Seq(Fragment)
      BY <1>4 DEF EmptyInbuff
    <2>3. (pc' = p /\ link = "up") \/ (UNCHANGED <<pc, line>> /\ link # "up")
      BY Zenon DEF EmptyInbuff
    <2> QED
      BY <2>1, <2>2, <2>3
  <1>5. CASE Open
    <2>1. line' \in Seq(Fragment) /\ pc' \in {"zeros", "failed"} /\ tries' = 0 /\ tries = 0
      BY <1>4, <1>5 DEF Open, Turns
    <2> QED
      BY <1>5, <2>1 DEF Open, Typed, TypeOK, Turns, deviceVars
  <1>6. CASE WriteZeros
    BY <1>2, <1>6 DEF WriteZeros, Write, Typed, TypeOK, Turns, deviceVars
  <1>7. CASE RawWrite
    BY <1>2, <1>7 DEF RawWrite, Write, Typed, TypeOK, Turns, deviceVars
  <1>8. CASE RawRead
    <2>1. line' \in Seq(Fragment)
      BY <1>3, <1>8 DEF RawRead, Mode
    <2>2. pc' \in {"failed", "rawDone", "rawAgain"} /\ (pc' # "failed" => tries <= RAW_TRIES)
      BY <1>8, TriesAssumption DEF RawRead, Typed, TypeOK, TriesAssumption
    <2> QED
      BY <1>8, <2>1, <2>2 DEF RawRead, Typed, TypeOK, Turns, deviceVars
  <1>9. CASE RawAgain
    BY <1>9, <1>18 DEF RawAgain, Typed, TypeOK, Turns, deviceVars
  <1>10. CASE RawDone
    BY <1>10, <1>18 DEF RawDone, Typed, TypeOK, Turns, deviceVars, Mode
  <1>11. CASE ToMode
    BY <1>11, <1>18 DEF ToMode, Typed, TypeOK, Turns, deviceVars
  <1>12. CASE ToWrite
    <2>1. cmds' \in Seq({0, 1, 2, 15})
      BY <1>2, <1>4, <1>12, Replies DEF ToWrite, Write, Typed, TypeOK
    <2> QED
      BY <1>12, <2>1 DEF ToWrite, Typed, TypeOK, Turns, deviceVars
  <1>13. CASE ToRead
    <2>1. line' \in Seq(Fragment)
      BY <1>3, <1>4, <1>13 DEF ToRead
    <2>2. pc' \in {"toOk", "toRetry"} /\ state' \in {state, goal}
      BY <1>13 DEF ToRead
    <2> QED
      BY <1>4, <1>13, <2>1, <2>2 DEF ToRead, Typed, TypeOK, Turns, deviceVars
  <1>14. CASE ToRetry
    BY <1>14, <1>18 DEF ToRetry, Typed, TypeOK, Turns, deviceVars
  <1>15. CASE ToOk
    <2>1. line' \in Seq(Fragment) /\ spin' \in BOOLEAN
      BY <1>15, <1>18 DEF ToOk
    <2>2. /\ goal' \in {goal, "console"} /\ tries' \in {0, tries}
          /\ link = "up" /\ goal = "BBIO" => tries' = 0
      BY <1>15 DEF ToOk
    <2>3. /\ pc' \in {"toOk", "reopen", "toMode", "closed"}
          /\ pc' = "toMode" => link = "up" /\ goal = "BBIO"
      BY <1>15, <1>18 DEF ToOk, Typed
    <2> QED
      BY <1>15, <2>1, <2>2, <2>3 DEF ToOk, Typed, TypeOK, Turns, deviceVars, Mode
  <1>16. CASE Reopen
    BY <1>16 DEF Reopen, Typed, TypeOK, Turns, deviceVars
  <1>17. CASE Deinit
    <2>1. line' \in Seq(Fragment) /\ pc' \in {"toMode", "failed"} /\ tries' = 0 /\ goal' = "BBIO"
      BY <1>4, <1>17 DEF Deinit
    <2> QED
      BY <1>17, <2>1 DEF Deinit, Typed, TypeOK, Turns, deviceVars, Mode
  <1> QED
    BY <1>5, <1>6, <1>7, <1>8, <1>9, <1>10, <1>11, <1>12, <1>13, <1>14, <1>15, <1>16, <1>17 DEF Host

LEMMA NextTyped == Typed /\ Turns /\ [Next]_vars => Typed' /\ Turns'
  <1>1. Typed /\ Turns /\ HangUp => Typed' /\ Turns'
    BY DEF HangUp, Typed, TypeOK, Turns, hostVars, deviceVars
  <1>2. Typed /\ Turns /\ UNCHANGED vars => Typed' /\ Turns'
    BY DEF vars, Typed, TypeOK, Turns, hostVars, deviceVars
  <1> QED
    BY <1>1, <1>2, AdapterTyped, DeliverTyped, HostTyped DEF Next, Ended
-----------------------------------------------------------------------------
(* The order of commands and replies *)

\* The modes a host may ask for one after the other.
LEMMA StageModes ==
  ASSUME Typed, Stage
  PROVE  /\ state \in Mode /\ goal \in Mode /\ Following \in Mode /\ Following # goal
         /\ role \in {"SPI", "I2C"}
         /\ goal = "I2C" => Following = "BBIO"
         /\ state # goal =>
              /\ <<state, goal>> \in {<<"BBIO", "SPI">>, <<"BBIO", "I2C">>, <<"BBIO", "console">>,
                                      <<"SPI", "BBIO">>, <<"I2C", "BBIO">>}
              /\ state = "I2C" => goal = "BBIO"
  <1>1. role \in {"SPI", "I2C"}
    BY ModeNames DEF Typed, TypeOK
  <1>2. state # "none"
    BY <1>1 DEF Stage
  <1> QED
    BY <1>1, <1>2 DEF Stage, Mode, Following

\* What the host does while it writes zeros leaves them the only commands.
LEMMA EnteringKept ==
  ASSUME Typed, Entering, UNCHANGED <<role, goal, mode>>, StreamShrinks,
         pc' \in Raw \cup {"failed"}, pc' = "rawDone" => mode = "BBIO",
         cmds' = cmds \/ cmds' = Append(cmds, 0)
  PROVE  Entering'
  <1>1. \A i \in 1..Len(cmds') : cmds'[i] = 0
    <2>1. CASE cmds' = cmds
      BY <2>1 DEF Entering
    <2>2. CASE cmds' = Append(cmds, 0)
      <3>1. /\ Len(cmds') = Len(cmds) + 1 /\ Len(cmds) \in Nat
            /\ \A i \in 1..Len(cmds') : cmds'[i] = IF i <= Len(cmds) THEN cmds[i] ELSE 0
        BY <2>2, LastCommand DEF Typed, TypeOK
      <3> QED
        BY <3>1 DEF Entering
    <2> QED
      BY <2>1, <2>2
  <1>2. Has(Stream', "BB") => Has(Stream, "BB")
    BY DEF StreamShrinks
  <1>3. Has(Stream', First(role)) => Has(Stream, First(role))
    BY DEF StreamShrinks
  <1> QED
    BY <1>1, <1>2, <1>3 DEF Entering, Has, First, ExpectedReply

\* What the host does in rawMode_toMode until it has its answer.
LEMMA MovingKept ==
  ASSUME Typed, Moving, Stage', UNCHANGED <<role, goal, state, mode>>, StreamShrinks,
         cmds' = cmds \/ cmds' = Append(cmds, Command(goal))
  PROVE  Moving'
  <1>1. goal \in Mode /\ state \in Mode /\ Following' = Following
    BY StageModes DEF Moving, Following
  <1>2. Command(goal) \in {0, 1, 2, 15} /\ Command(goal)' = Command(goal) /\ Command(state)' = Command(state)
    BY <1>1, Replies DEF Command
  <1>3. Commanded'
    <2>1. CASE cmds' = cmds
      BY <1>2, <2>1 DEF Moving, Commanded
    <2>2. CASE cmds' = Append(cmds, Command(goal))
      <3>1. /\ Len(cmds') = Len(cmds) + 1 /\ Len(cmds) \in Nat
            /\ \A i \in 1..Len(cmds') : cmds'[i] = IF i <= Len(cmds) THEN cmds[i] ELSE Command(goal)
        BY <1>2, <2>2, LastCommand DEF Typed, TypeOK
      <3>2. \A i \in 1..Len(cmds') : i \in 1..Len(cmds) \/ i = Len(cmds) + 1
        BY <3>1
      <3>3. \A i, j \in 1..Len(cmds') : i <= j /\ cmds'[i] = Command(goal) => cmds'[j] = Command(goal)
        BY <3>1, <3>2 DEF Moving, Commanded
      <3> QED
        BY <1>2, <3>1, <3>2, <3>3 DEF Moving, Commanded
    <2> QED
      BY <2>1, <2>2
  <1>4. First(goal)' = First(goal) /\ First(Following)' = First(Following)
    BY <1>1 DEF First, ExpectedReply
  <1>5. Answering'
    <2>1. Has(Stream, First(goal))' => Has(Stream, First(goal))
      BY <1>4 DEF StreamShrinks, Has
    <2>2. Barred(Stream, First(goal), First(Following))'
      <3>1. Barred(Stream', First(goal), First(Following))
        BY DEF StreamShrinks, Moving, Answering
      <3> QED
        BY <1>4, <3>1 DEF Barred
    <2>3. Has(Stream, First(Following))' => Has(Stream, First(Following))
      BY <1>4 DEF StreamShrinks, Has
    <2> QED
      BY <2>1, <2>2, <2>3 DEF Moving, Answering
  <1> QED
    BY <1>3, <1>5 DEF Moving

\* The adapter answers zeros with the reply of binary mode only.
LEMMA AdapterEntering ==
  ASSUME Typed, Entering, Adapter
  PROVE  Entering'
  <1>1. /\ UNCHANGED <<pc, role, goal, line>> /\ cmds # <<>> /\ cmds' = Tail(cmds)
        /\ mode \in Mode /\ role \in {"SPI", "I2C"}
    BY ModeNames DEF Adapter, hostVars, Typed, TypeOK
  <1>2. Head(cmds) = 0 /\ \A i \in 1..Len(cmds') : cmds'[i] = 0
    BY <1>1, NextCommand DEF Typed, TypeOK, Entering
  <1>3. Becomes("BBIO") \/ (mode = "console" /\ UNCHANGED <<mode, out>>)
    BY <1>1, <1>2, TriesAssumption DEF Adapter, Typed, TypeOK, TriesAssumption
  <1>4. CASE Becomes("BBIO")
    <2>1. "BBIO" \in Mode /\ role \in Mode /\ role # "BBIO"
      BY <1>1 DEF Mode
    <2>2. /\ ExpectedReply("BBIO") \in Seq(Fragment) /\ out' = out \o ExpectedReply("BBIO")
          /\ ~Has(ExpectedReply("BBIO"), First(role)) /\ mode' = "BBIO"
      BY <1>4, <2>1, Replies DEF Becomes
    <2>3. Stream \in Seq(Fragment) /\ Stream' = Stream \o ExpectedReply("BBIO")
      BY <1>1, <2>2, ReplyLast
    <2>4. ~Has(Stream', First(role))
      BY <2>2, <2>3, HasConcat DEF Entering
    <2>5. ~Has(Stream, First(role))'
      BY <1>1, <2>4 DEF Has, First, ExpectedReply
    <2> QED
      BY <1>1, <1>2, <2>2, <2>5 DEF Entering
  <1>5. CASE mode = "console" /\ UNCHANGED <<mode, out>>
    BY <1>1, <1>2, <1>5 DEF Entering, Stream, Has, First, ExpectedReply
  <1> QED
    BY <1>3, <1>4, <1>5

\* The adapter answers what was written for the mode before, then enters the
\* mode asked for, and answers in it.
LEMMA AdapterMoving ==
  ASSUME Typed, Moving, Adapter
  PROVE  Moving'
  <1>1. /\ UNCHANGED <<pc, role, goal, state, line>> /\ cmds # <<>> /\ cmds' = Tail(cmds)
        /\ mode \in Mode /\ cmds \in Seq({0, 1, 2, 15})
    BY DEF Adapter, hostVars, Typed, TypeOK
  <1>2. /\ state \in Mode /\ goal \in Mode /\ Following \in Mode /\ Following # goal
        /\ Following' = Following
        /\ goal = "I2C" => Following = "BBIO"
    BY <1>1, StageModes DEF Moving, Following
  <1>3. /\ First(goal)' = First(goal) /\ First(Following)' = First(Following)
        /\ Command(goal)' = Command(goal) /\ Command(state)' = Command(state)
    BY <1>1, <1>2 DEF First, ExpectedReply, Command
  <1>4. /\ Head(cmds) = cmds[1] /\ 1 \in 1..Len(cmds)
        /\ \A i \in 1..Len(cmds') : i + 1 \in 1..Len(cmds) /\ cmds'[i] = cmds[i + 1]
    BY <1>1, NextCommand
  <1>5. Head(cmds) \in {Command(state), Command(goal)}
    BY <1>4 DEF Moving, Commanded
  <1>6. ASSUME mode' \in {state, goal},
               mode' = goal => \A i \in 1..Len(cmds) : cmds[i] = Command(goal)
        PROVE  Commanded'
    <2>1. \A i \in 1..Len(cmds') : cmds'[i] \in {Command(state), Command(goal)}
      BY <1>4 DEF Moving, Commanded
    <2>2. \A i, j \in 1..Len(cmds') : i <= j /\ cmds'[i] = Command(goal) => cmds'[j] = Command(goal)
      <3>1. \A i, j \in 1..Len(cmds') : i <= j => i + 1 <= j + 1
        BY <1>1, NextCommand
      <3> QED
        BY <1>4, <3>1 DEF Moving, Commanded
    <2>3. mode' = goal => \A i \in 1..Len(cmds') : cmds'[i] = Command(goal)
      BY <1>4, <1>6
    <2> QED
      BY <1>1, <1>3, <1>6, <2>1, <2>2, <2>3 DEF Commanded
  <1>7. ASSUME Has(Stream', First(goal)) => mode' = goal,
               Barred(Stream', First(goal), First(Following)),
               state = goal => ~Has(Stream', First(Following))
        PROVE  Answering'
    BY <1>1, <1>3, <1>7 DEF Answering, Has, Barred
  <1>8. Stage'
    BY <1>1 DEF Moving, Stage
  <1>9. CASE Head(cmds) = Command(mode)
    <2>1. PICK r \in Seq(Fragment) :
            /\ mode' = mode /\ out' = out \o r
            /\ \A n \in Mode : n # mode /\ (n = "console" => mode # "I2C") => ~Has(r, First(n))
      BY <1>9, AdapterRepeats
    <2>2. Stream \in Seq(Fragment) /\ Stream' = Stream \o r
      BY <1>1, <2>1, ReplyLast
    <2>3. Commanded'
      BY <1>6, <2>1 DEF Moving, Commanded
    <2>4. CASE mode = goal
      <3>1. ~Has(r, First(Following))
        BY <1>2, <2>1, <2>4
      <3>2. Barred(Stream', First(goal), First(Following))
        BY <2>2, <3>1, BarredConcat DEF Moving, Answering
      <3>3. state = goal => ~Has(Stream', First(Following))
        BY <2>2, <3>1, HasConcat DEF Moving, Answering
      <3> QED
        BY <1>7, <1>8, <2>1, <2>3, <2>4, <3>2, <3>3 DEF Moving
    <2>5. CASE mode # goal
      <3>1. mode = state /\ state # goal /\ (state = "I2C" => goal = "BBIO")
        BY <2>5, StageModes DEF Moving, Commanded
      <3>2. ~Has(r, First(goal))
        BY <1>2, <2>1, <2>5, <3>1
      <3>3. ~Has(Stream', First(goal)) /\ Stream' \in Seq(Fragment)
        BY <2>2, <2>5, <3>2, HasConcat DEF Moving, Answering
      <3>4. Barred(Stream', First(goal), First(Following))
        BY <3>3, BarredWithout
      <3> QED
        BY <1>7, <1>8, <2>3, <3>1, <3>3, <3>4 DEF Moving
    <2> QED
      BY <2>4, <2>5
  <1>10. CASE Head(cmds) # Command(mode)
    <2>1. mode = state /\ state # goal /\ Head(cmds) = Command(goal)
      BY <1>4, <1>5, <1>10 DEF Moving, Commanded
    <2>2. <<mode, goal>> \in {<<"BBIO", "SPI">>, <<"BBIO", "I2C">>, <<"BBIO", "console">>,
                              <<"SPI", "BBIO">>, <<"I2C", "BBIO">>}
      BY <2>1, StageModes DEF Moving
    <2>3. Becomes(goal)
      BY <1>2, <2>1, <2>2, AdapterChanges
    <2>4. /\ mode' = goal /\ out' = out \o ExpectedReply(goal) /\ ExpectedReply(goal) \in Seq(Fragment)
          /\ ~Has(ExpectedReply(goal), First(Following))
      BY <1>2, <2>3, Replies DEF Becomes
    <2>5. Stream \in Seq(Fragment) /\ Stream' = Stream \o ExpectedReply(goal)
      BY <1>1, <2>4, ReplyLast
    <2>6. \A i \in 1..Len(cmds) : cmds[i] = Command(goal)
      <3>1. cmds[1] = Command(goal) /\ \A i \in 1..Len(cmds) : 1 <= i
        BY <1>4, <2>1
      <3> QED
        BY <1>4, <3>1 DEF Moving, Commanded
    <2>7. Commanded'
      BY <1>6, <2>4, <2>6
    <2>8. Barred(Stream', First(goal), First(Following))
      BY <2>4, <2>5, BarredConcat DEF Moving, Answering
    <2> QED
      BY <1>7, <1>8, <2>1, <2>4, <2>7, <2>8 DEF Moving
  <1> QED
    BY <1>9, <1>10

LEMMA AdapterOrdered == Typed /\ Ordered /\ Adapter => Ordered'
  <1> SUFFICES ASSUME Typed, Ordered, Adapter PROVE Ordered'
    OBVIOUS
  <1>1. link = "up" /\ UNCHANGED <<link, state>>
    BY DEF Adapter, hostVars
  <1> QED
    BY <1>1, AdapterEntering, AdapterMoving DEF Ordered

LEMMA DeliverOrdered == Typed /\ Ordered /\ Deliver => Ordered'
  <1> SUFFICES ASSUME Typed, Ordered, Deliver PROVE Ordered'
    OBVIOUS
  <1>1. /\ link = "up" /\ UNCHANGED <<pc, role, goal, state, mode, cmds, link>>
    BY DEF Deliver, hostVars, deviceVars
  <1>2. Stream' = Stream
    <2>1. Append(line, Head(out)) \o Tail(out) = line \o out
      BY MoveFragment DEF Typed, Deliver
    <2> QED
      BY <2>1 DEF Deliver, Stream
  <1>3. StreamShrinks
    BY <1>2 DEF StreamShrinks
  <1>4. CASE state = "none"
    BY <1>1, <1>3, <1>4, EnteringKept DEF Ordered, Entering
  <1>5. CASE state # "none"
    <2>1. Moving /\ Stage'
      BY <1>1, <1>5 DEF Ordered, Moving, Stage
    <2> QED
      BY <1>1, <1>3, <1>5, <2>1, MovingKept DEF Ordered
  <1> QED
    BY <1>4, <1>5

\* The host's flushes and reads, on a living line.
LEMMA HostLine ==
  ASSUME Typed, out' = out, link = "up"
  PROVE  /\ line' = line => StreamShrinks
         /\ \A p : EmptyInbuff(p) => StreamShrinks /\ pc' = p
         /\ \A m \in Mode : line' = Unread(m) =>
              /\ StreamShrinks
              /\ \A b \in Matches(m) : b => Has(Stream, First(m)) /\ Stream[1] = First(m) /\ Len(Stream) > 0
  <1>1. line' = line => StreamShrinks
    BY DEF StreamShrinks, Stream
  <1>2. ASSUME NEW p, EmptyInbuff(p) PROVE StreamShrinks /\ pc' = p
    BY <1>2, FlushShrinks, Zenon DEF EmptyInbuff, Goto
  <1>3. ASSUME NEW m \in Mode, line' = Unread(m)
        PROVE  /\ StreamShrinks
               /\ \A b \in Matches(m) : b => Has(Stream, First(m)) /\ Stream[1] = First(m) /\ Len(Stream) > 0
    <2>1. StreamShrinks
      BY <1>3, ReadFront, Shrinks
    <2>2. ASSUME NEW b \in Matches(m), b PROVE Read2Err(m) = ExpectedReply(m)
      BY <2>2, Zenon DEF Matches
    <2> QED
      BY <2>1, <2>2, ReadFront
  <1> QED
    BY <1>1, <1>2, <1>3

\* Behind the first fragment of the mode asked for there is nothing of the next.
LEMMA MatchBars ==
  ASSUME NEW s \in Seq(Fragment), NEW f, NEW g, Barred(s, f, g), s[1] = f, Len(s) > 0
  PROVE  ~Has(s, g)
  <1>1. 1 \in 1..Len(s) /\ \A j \in 1..Len(s) : 1 <= j
    OBVIOUS
  <1> QED
    BY <1>1 DEF Barred, Has

LEMMA HostEntering ==
  ASSUME Typed, Entering, link = "up", state = "none", Host
  PROVE  IF state' = "none" THEN Entering' ELSE Moving'
  <1>1. pc \in Raw \cup {"failed"} /\ goal = "BBIO" /\ "BBIO" \in Mode
    BY DEF Entering, Mode
  <1> USE DEF At, Goto, Raw
  <1>2. CASE Open
    BY <1>1, <1>2, EnteringKept, FlushShrinks DEF Open, deviceVars
  <1>3. CASE WriteZeros
    BY <1>1, <1>3, EnteringKept, HostLine DEF WriteZeros, Write, deviceVars
  <1>4. CASE RawWrite
    BY <1>1, <1>4, EnteringKept, HostLine DEF RawWrite, Write, deviceVars
  <1>5. CASE RawRead
    <2>1. /\ UNCHANGED <<role, goal, state, mode, cmds, out>> /\ line' = Unread("BBIO")
          /\ pc' \in {"failed", "rawDone", "rawAgain"}
          /\ pc' = "rawDone" => Matches("BBIO") = {TRUE}
      BY <1>5 DEF RawRead, deviceVars
    <2>2. StreamShrinks
      BY <1>1, <2>1, HostLine
    <2>3. pc' = "rawDone" => Has(Stream, "BB")
      <3>1. TRUE \in Matches("BBIO") => Has(Stream, First("BBIO"))
        BY <1>1, <2>1, HostLine
      <3>2. First("BBIO") = "BB"
        BY DEF First, ExpectedReply
      <3> QED
        BY <2>1, <3>1, <3>2
    <2>4. pc' = "rawDone" => mode = "BBIO"
      BY <2>3 DEF Entering
    <2> QED
      BY <2>1, <2>2, <2>4, EnteringKept
  <1>6. CASE RawAgain
    <2>1. StreamShrinks /\ pc' = "rawWrite"
      BY <1>6, HostLine DEF RawAgain
    <2> QED
      BY <1>1, <1>6, <2>1, EnteringKept DEF RawAgain, deviceVars
  <1>7. CASE RawDone
    <2>1. /\ pc' = "toMode" /\ StreamShrinks /\ mode = "BBIO"
          /\ state' = "BBIO" /\ goal' = role /\ UNCHANGED <<role, mode, cmds, out>>
      BY <1>7, HostLine DEF RawDone, deviceVars, Entering
    <2>2. role \in {"SPI", "I2C"} /\ role \in Mode
      BY ModeNames DEF Typed, TypeOK, Mode
    <2>3. Command(goal') # 0 /\ Command(state') = 0
      BY <2>1, <2>2, ModeNames
    <2>4. Commanded'
      BY <2>1, <2>2, <2>3 DEF Commanded, Entering, Command
    <2>5. ~Has(Stream', First(role))
      BY <2>1 DEF StreamShrinks, Entering
    <2>6. Answering'
      <3>1. ~Has(Stream, First(goal))'
        BY <2>1, <2>5 DEF Has, First, ExpectedReply
      <3>2. state' # goal'
        BY <2>1, <2>2
      <3> QED
        BY <3>1, <3>2 DEF Answering, Has, Barred
    <2>7. Stage'
      BY <2>1, <2>2 DEF Stage, Asking, Agreed
    <2> QED
      BY <2>1, <2>4, <2>6, <2>7 DEF Moving
  <1> QED
    BY <1>1, <1>2, <1>3, <1>4, <1>5, <1>6, <1>7
       DEF Host, ToMode, ToWrite, ToRead, ToRetry, ToOk, Reopen

\* The next mode is asked for: nothing written or answered so far is for it.
LEMMA NextGoal ==
  ASSUME Typed, Moving, state = goal, goal' = Following, Stage',
         UNCHANGED <<role, state, mode, cmds>>, StreamShrinks
  PROVE  Moving'
  <1>1. /\ state \in Mode /\ goal \in Mode /\ Following \in Mode /\ Following # goal
        /\ mode = state
    BY StageModes DEF Moving, Commanded
  <1>2. /\ \A i \in 1..Len(cmds) : cmds[i] = Command(state)
        /\ Command(Following) # Command(state)
    BY <1>1, Replies DEF Moving, Commanded
  <1>3. Commanded'
    BY <1>1, <1>2 DEF Commanded, Command
  <1>4. ~Has(Stream', First(Following))
    BY DEF Moving, Answering, StreamShrinks
  <1>5. First(goal)' = First(Following) /\ state' # goal'
    BY <1>1 DEF First, ExpectedReply
  <1>6. ~Has(Stream, First(goal))'
    BY <1>4, <1>5 DEF Has
  <1>7. Answering'
    BY <1>5, <1>6 DEF Answering, Has, Barred
  <1> QED
    BY <1>3, <1>7 DEF Moving

LEMMA HostMoving ==
  ASSUME Typed, Moving, link = "up", state # "none", Host \/ Deinit
  PROVE  Moving' /\ state' # "none"
  <1>1. /\ Stage /\ pc \in Asking \cup Agreed \cup {"failed"}
        /\ state \in Mode /\ goal \in Mode /\ role \in {"SPI", "I2C"}
    BY StageModes DEF Moving, Stage
  <1> USE DEF At, Goto, Asking, Agreed
  <1>2. CASE ToMode
    <2>1. StreamShrinks /\ pc' = "toWrite" /\ pc = "toMode"
      BY <1>2, HostLine DEF ToMode
    <2>2. Stage'
      BY <1>1, <1>2, <2>1 DEF ToMode, Stage
    <2> QED
      BY <1>2, <2>1, <2>2, MovingKept DEF ToMode, deviceVars
  <1>3. CASE ToWrite
    <2>1. StreamShrinks /\ Stage' /\ cmds' = Append(cmds, Command(goal))
      BY <1>1, <1>3, HostLine DEF ToWrite, Stage, Write
    <2> QED
      BY <1>3, <2>1, MovingKept DEF ToWrite, deviceVars
  <1>4. CASE ToRead
    <2>1. PICK match \in Matches(goal) :
            IF match THEN state' = goal /\ pc' = "toOk" ELSE state' = state /\ pc' = "toRetry"
      BY <1>4 DEF ToRead
    <2>2. UNCHANGED <<role, goal, mode, cmds, out>> /\ line' = Unread(goal) /\ pc = "toRead"
      BY <1>4 DEF ToRead, deviceVars
    <2>3. StreamShrinks /\ (match => Has(Stream, First(goal)) /\ Stream[1] = First(goal) /\ Len(Stream) > 0)
      BY <1>1, <2>2, HostLine
    <2>4. CASE ~match
      <3>1. state' = state /\ pc' = "toRetry"
        BY <2>1, <2>4
      <3>2. Stage'
        BY <1>1, <2>2, <3>1 DEF Stage
      <3> QED
        BY <2>2, <2>3, <3>1, <3>2, MovingKept
    <2>5. CASE match
      <3>1. state' = goal /\ pc' = "toOk"
        BY <2>1, <2>5
      <3>2. Stage' /\ state' # "none"
        BY <1>1, <2>2, <3>1 DEF Stage, Mode
      <3>3. mode = goal /\ \A i \in 1..Len(cmds) : cmds[i] = Command(goal)
        BY <2>3, <2>5 DEF Moving, Answering, Commanded
      <3>4. Commanded'
        BY <1>1, <2>2, <3>1, <3>3 DEF Commanded, Command
      <3>5. Following' = Following /\ Following \in Mode
        BY <1>1, <2>2, <3>2, StageModes DEF Following
      <3>6. First(goal)' = First(goal) /\ First(Following)' = First(Following)
        BY <1>1, <2>2, <3>5 DEF First, ExpectedReply
      <3>7. ~Has(Stream, First(Following))
        <4>1. Stream \in Seq(Fragment)
          BY DEF Stream, Typed
        <4> QED
          BY <2>3, <2>5, <4>1, MatchBars DEF Moving, Answering
      <3>8. ~Has(Stream, First(Following))'
        BY <2>3, <3>6, <3>7 DEF StreamShrinks, Has
      <3>9. Barred(Stream, First(goal), First(Following))'
        <4>1. Barred(Stream', First(goal), First(Following))
          BY <2>3 DEF StreamShrinks, Moving, Answering
        <4> QED
          BY <3>6, <4>1 DEF Barred
      <3>10. Answering'
        BY <2>2, <3>3, <3>8, <3>9 DEF Answering
      <3> QED
        BY <3>2, <3>4, <3>10 DEF Moving
    <2> QED
      BY <2>4, <2>5
  <1>5. CASE ToRetry
    <2>1. StreamShrinks /\ pc' \in {"failed", "toWrite"} /\ pc = "toRetry"
      BY <1>5, HostLine DEF ToRetry
    <2>2. Stage'
      BY <1>1, <1>5, <2>1 DEF ToRetry, Stage
    <2> QED
      BY <1>5, <2>1, <2>2, MovingKept DEF ToRetry, deviceVars
  <1>6. CASE ToOk
    <2>1. /\ StreamShrinks /\ pc = "toOk" /\ state = goal
          /\ goal \in {"BBIO", role, "console"}
          /\ goal = role => pc' = "reopen"
          /\ goal = "BBIO" => pc' = "toMode"
          /\ goal = "console" => pc' = "closed"
      BY <1>1, <1>6, HostLine DEF ToOk, Stage, Typed
    <2>2. UNCHANGED <<role, state, mode, cmds>>
      BY <1>6 DEF ToOk, deviceVars
    <2>3. CASE goal = "BBIO"
      <3>1. goal' = "console" /\ Following = "console"
        BY <1>6, <2>3 DEF ToOk, Following
      <3>2. Stage'
        BY <2>1, <2>2, <2>3, <3>1 DEF Stage
      <3> QED
        BY <2>1, <2>2, <3>1, <3>2, NextGoal
    <2>4. CASE goal # "BBIO"
      <3>1. goal' = goal
        BY <1>6, <2>4 DEF ToOk
      <3>2. Stage'
        BY <1>1, <2>1, <2>2, <2>4, <3>1 DEF Stage
      <3> QED
        BY <2>1, <2>2, <3>1, <3>2, MovingKept
    <2> QED
      BY <2>3, <2>4
  <1>7. CASE Reopen
    <2>1. StreamShrinks /\ Stage'
      BY <1>1, <1>7, HostLine DEF Reopen, Stage
    <2> QED
      BY <1>7, <2>1, MovingKept DEF Reopen, deviceVars
  <1>8. CASE Deinit
    <2>1. /\ pc = "inUse" /\ pc' = "toMode" /\ goal = role /\ state = role
          /\ goal' = "BBIO" /\ UNCHANGED <<role, state, mode, cmds, out>> /\ line' = <<>>
      BY <1>1, <1>8 DEF Deinit, deviceVars, Stage
    <2>2. StreamShrinks /\ Following = "BBIO"
      BY <1>1, <2>1, FlushShrinks DEF Following
    <2>3. Stage'
      BY <1>1, <2>1 DEF Stage
    <2> QED
      BY <2>1, <2>2, <2>3, NextGoal
  <1> QED
    BY <1>1, <1>2, <1>3, <1>4, <1>5, <1>6, <1>7, <1>8
       DEF Host, Open, WriteZeros, RawWrite, RawRead, RawAgain, RawDone

LEMMA HostOrdered == Typed /\ Ordered /\ (Host \/ Deinit) => Ordered'
  <1> SUFFICES ASSUME Typed, Ordered, Host \/ Deinit, link' = "up" PROVE Ordered'
    BY DEF Ordered
  <1>1. link = "up" /\ pc = "inUse" => state # "none"
    BY DEF Ordered, Entering, Raw
  <1>2. link' = link
    BY DEF Host, Deinit, Open, WriteZeros, RawWrite, RawRead, RawAgain, RawDone,
           ToMode, ToWrite, ToRead, ToRetry, ToOk, Reopen
  <1>3. CASE state = "none"
    <2>1. Host
      BY <1>1, <1>2, <1>3 DEF Deinit, At
    <2> QED
      BY <1>2, <1>3, <2>1, HostEntering DEF Ordered
  <1>4. CASE state # "none"
    BY <1>2, <1>4, HostMoving DEF Ordered
  <1> QED
    BY <1>3, <1>4

LEMMA NextOrdered == Typed /\ Ordered /\ [Next]_vars => Ordered'
  <1>1. HangUp => Ordered'
    BY DEF HangUp, Ordered
  <1>2. Typed /\ Ordered /\ UNCHANGED vars => Ordered'
    <2> SUFFICES ASSUME Typed, Ordered, UNCHANGED vars PROVE Ordered'
      OBVIOUS
    <2>1. UNCHANGED <<pc, role, goal, tries, state, mode, cmds, out, line, link>>
      BY DEF vars, hostVars, deviceVars
    <2>2. StreamShrinks
      BY <2>1 DEF StreamShrinks, Stream
    <2>3. link = "up" /\ state = "none" => Entering'
      BY <2>1, <2>2, EnteringKept DEF Ordered, Entering
    <2>4. link = "up" /\ state # "none" => Moving'
      <3> SUFFICES ASSUME link = "up", state # "none" PROVE Moving'
        OBVIOUS
      <3>1. Moving /\ Stage'
        BY <2>1 DEF Ordered, Moving, Stage
      <3> QED
        BY <2>1, <2>2, <3>1, MovingKept
    <2> QED
      BY <2>1, <2>3, <2>4 DEF Ordered
  <1> QED
    BY <1>1, <1>2, AdapterOrdered, DeliverOrdered, HostOrdered DEF Next, Ended
-----------------------------------------------------------------------------
(* An adapter that is in time *)

\* Where the host is tells whether binary mode has been reached.
LEMMA Stages ==
  ASSUME Typed, Ordered, link = "up"
  PROVE  /\ pc \in Raw => state = "none" /\ Entering
         /\ pc \in Asking \cup Agreed => state # "none" /\ Moving
  <1>1. pc \in Raw => pc \notin Asking \cup Agreed \cup {"failed"}
    BY DEF Raw, Asking, Agreed
  <1>2. pc \in Asking \cup Agreed => pc \notin Raw \cup {"failed"}
    BY DEF Raw, Asking, Agreed
  <1> QED
    BY <1>1, <1>2 DEF Ordered, Entering, Moving, Stage

\* A whole reply at the front of the line is read as such.
LEMMA WholeReply ==
  ASSUME Typed, link = "up", NEW m \in Mode, Len(line) >= Len(ExpectedReply(m)),
         \A i \in 1..Len(ExpectedReply(m)) : line[i] = ExpectedReply(m)[i]
  PROVE  /\ Read2Err(m) = ExpectedReply(m) /\ Matches(m) = {TRUE} /\ ~ShortReply(m)
         /\ Len(line) = Len(ExpectedReply(m)) => Unread(m) = <<>>
  <1> DEFINE k == Len(ExpectedReply(m))
  <1>1. /\ k \in {1, 2} /\ ExpectedReply(m) \in Seq(Fragment)
        /\ line \in Seq(Fragment) /\ Fragments(m) = k
    BY Replies DEF Fragments, Typed
  <1>2. Read2Err(m) = SubSeq(line, 1, k)
    BY <1>1 DEF Read2Err
  <1>3. /\ SubSeq(line, 1, k) \in Seq(Fragment) /\ Len(SubSeq(line, 1, k)) = k
        /\ \A i \in 1..k : SubSeq(line, 1, k)[i] = line[i]
    BY <1>1
  <1>4. Read2Err(m) = ExpectedReply(m)
    BY <1>1, <1>2, <1>3, SeqEqual
  <1>5. Matches(m) = {TRUE}
    BY <1>4 DEF Matches
  <1>6. ~ShortReply(m)
    BY <1>1, <1>4 DEF ShortReply
  <1>7. Len(line) = k => Unread(m) = <<>>
    <2>1. Unread(m) = SubSeq(line, k + 1, Len(line))
      BY <1>2, <1>3 DEF Unread
    <2>2. SubSeq(line, k + 1, k) = <<>>
      BY <1>1
    <2> QED
      BY <2>1, <2>2
  <1> QED
    BY <1>4, <1>5, <1>6, <1>7

LEMMA AdapterTimely ==
  ASSUME Typed, Ordered, Timely, Adapter, link = "up", ~late
  PROVE  Timely'
  <1>1. /\ UNCHANGED <<pc, role, goal, tries, state, line, late, link>>
        /\ cmds # <<>> /\ cmds' = Tail(cmds) /\ mode \in Mode /\ goal \in Mode
        /\ cmds \in Seq({0, 1, 2, 15}) /\ Stream \in Seq(Fragment)
    BY DEF Adapter, hostVars, Typed, TypeOK, Stream
  <1>2. /\ pc \in {"zeros", "rawWrite", "rawRead", "toRead"} /\ ~stray
        /\ Len(cmds') = Len(cmds) - 1 /\ Len(cmds) \in Nat
    BY <1>1 DEF Timely, Typed, TypeOK, Quiet, Agreed
  <1>3. CASE pc \in {"zeros", "rawWrite", "rawRead"}
    <2>1. Entering /\ Counted /\ Head(cmds) = 0
      BY <1>1, <1>2, <1>3, Stages, NextCommand DEF Raw, Timely, Entering
    <2>2. /\ NZEROS_RAW \in Nat \ {0} /\ zeros \in 0..NZEROS_RAW - 1
      BY TriesAssumption DEF TriesAssumption, Typed, TypeOK
    <2>3. Written' = Written
      BY <1>1 DEF Written
    <2>4. \/ Becomes("BBIO")
          \/ mode = "console" /\ zeros' = zeros + 1 /\ UNCHANGED <<mode, out, stray>>
      BY <1>1, <2>1, <2>2 DEF Adapter
    <2>5. CASE Becomes("BBIO")
      <3>1. /\ mode' = "BBIO" /\ zeros' = 0 /\ stray' = stray
            /\ out' = out \o <<"BB", "IO1">> /\ <<"BB", "IO1">> \in Seq(Fragment)
        BY <2>5 DEF Becomes, ExpectedReply, Fragment
      <3>2. Stream' = Stream \o <<"BB", "IO1">>
        BY <1>1, <3>1, ReplyLast
      <3>3. Len(Stream') >= 2 /\ Stream'[1] = "BB" /\ Stream'[2] = "IO1" /\ Stream' # <<>>
        <4>1. CASE Stream = <<>>
          BY <3>2, <4>1
        <4>2. CASE Stream # <<>>
          <5>1. Len(Stream) >= 2 /\ Stream[1] = "BB" /\ Stream[2] = "IO1"
            BY <2>1, <4>2 DEF Counted
          <5> QED
            BY <1>1, <3>2, <5>1
        <4> QED
          BY <4>1, <4>2
      <3>4. Counted'
        BY <1>1, <2>1, <3>1, <3>3 DEF Counted
      <3> QED
        BY <1>1, <1>2, <1>3, <3>1, <3>4 DEF Timely, Agreed
    <2>6. CASE mode = "console" /\ zeros' = zeros + 1 /\ UNCHANGED <<mode, out, stray>>
      <3>1. Stream' = Stream
        BY <1>1, <2>6 DEF Stream
      <3>2. zeros' + Len(cmds') = zeros + Len(cmds)
        BY <1>2, <2>2, <2>6
      <3>3. Counted'
        BY <1>1, <2>1, <2>3, <2>6, <3>1, <3>2 DEF Counted
      <3> QED
        BY <1>1, <1>2, <1>3, <2>6, <3>3 DEF Timely, Agreed
    <2> QED
      BY <2>4, <2>5, <2>6
  <1>4. CASE pc = "toRead"
    <2>1. cmds = <<Command(goal)>> /\ Stream = <<>> /\ mode = state
      BY <1>1, <1>4 DEF Timely, OneAnswer
    <2>2. Stage /\ state # goal
      BY <1>4, Stages DEF Moving, Stage, Asking
    <2>3. Becomes(goal)
      <3>1. Head(cmds) = Command(goal)
        BY <2>1
      <3> QED
        BY <1>1, <2>1, <2>2, <3>1, StageModes, AdapterChanges
    <2>4. out' = out \o ExpectedReply(goal) /\ ExpectedReply(goal) \in Seq(Fragment) /\ stray' = stray
      BY <1>1, <2>3, Replies DEF Becomes
    <2>5. Stream' = ExpectedReply(goal) /\ cmds' = <<>>
      <3>1. Stream' = Stream \o ExpectedReply(goal)
        BY <1>1, <2>4, ReplyLast
      <3>2. <<>> \o ExpectedReply(goal) = ExpectedReply(goal)
        BY <2>4
      <3> QED
        BY <1>1, <2>1, <3>1, <3>2
    <2>6. OneAnswer'
      BY <1>1, <2>5 DEF OneAnswer, ExpectedReply
    <2> QED
      BY <1>1, <1>2, <1>4, <2>4, <2>6 DEF Timely, Agreed
  <1> QED
    BY <1>2, <1>3, <1>4

LEMMA DeliverTimely ==
  ASSUME Typed, Timely, Deliver, link = "up", ~late
  PROVE  Timely'
  <1>1. UNCHANGED <<pc, role, goal, tries, state, mode, zeros, stray, cmds, late, link>> /\ out # <<>>
    BY DEF Deliver, hostVars, deviceVars
  <1>2. Stream' = Stream
    <2>1. Append(line, Head(out)) \o Tail(out) = line \o out
      BY MoveFragment DEF Typed, Deliver
    <2> QED
      BY <2>1 DEF Deliver, Stream
  <1>3. /\ ~stray /\ pc \notin {"failed", "rawAgain", "toRetry", "open", "rawDone"}
        /\ pc \notin {"toMode", "toWrite"} \cup Agreed
        /\ pc \in {"zeros", "rawWrite", "rawRead"} => Counted
        /\ pc = "toRead" => OneAnswer
    BY <1>1 DEF Timely, Quiet
  <1>4. pc \in {"zeros", "rawWrite", "rawRead"} => Counted'
    BY <1>1, <1>2, <1>3 DEF Counted, Written
  <1>5. pc = "toRead" => OneAnswer'
    BY <1>1, <1>2, <1>3 DEF OneAnswer, ExpectedReply, Command
  <1> QED
    BY <1>1, <1>3, <1>4, <1>5 DEF Timely

LEMMA HostTimely ==
  ASSUME Typed, Turns, Ordered, Timely, Host \/ Deinit, link = "up", ~late
  PROVE  Timely'
  <1>1. /\ ~stray /\ pc \notin {"failed", "rawAgain", "toRetry"}
        /\ pc \in {"open", "rawDone"} => cmds = <<>> /\ out = <<>>
        /\ pc = "open" => zeros = 0
        /\ pc \in {"zeros", "rawWrite", "rawRead"} => Counted
        /\ pc \in {"toMode", "toWrite"} \cup Agreed => Quiet
        /\ pc \in {"toMode", "toWrite"} => mode = state
        /\ pc = "toRead" => OneAnswer
    BY DEF Timely
  <1>2. /\ cmds \in Seq({0, 1, 2, 15}) /\ Len(cmds) \in Nat
        /\ line \in Seq(Fragment) /\ out \in Seq(Fragment)
        /\ goal \in Mode /\ "BBIO" \in Mode
        /\ NZEROS_RAW \in Nat \ {0} /\ SHORT_TRIES \in Nat \ {0} /\ RAW_TRIES \in Nat \ {0}
        /\ zeros \in 0..NZEROS_RAW - 1 /\ tries \in Nat
    BY TriesAssumption DEF TriesAssumption, Typed, TypeOK, Mode
  <1>3. <<>> \o <<>> = <<>>
    OBVIOUS
  <1> USE DEF At, Goto
  <1>4. CASE Open
    <2>1. /\ pc' = "zeros" /\ tries' = 0 /\ zeros' = 0 /\ stray' = stray
          /\ cmds' = <<>> /\ out' = <<>> /\ line' = <<>>
      BY <1>1, <1>4 DEF Open, deviceVars, Turns
    <2>2. Stream' = <<>> /\ Len(cmds') = 0
      BY <2>1 DEF Stream
    <2>3. Counted'
      BY <2>1, <2>2 DEF Counted, Written
    <2> QED
      BY <1>1, <2>1, <2>3 DEF Timely, Agreed
  <1>5. CASE WriteZeros
    <2>1. /\ UNCHANGED <<mode, zeros, stray, out, line>> /\ cmds' = Append(cmds, 0)
          /\ IF tries + 1 = NZEROS_RAW THEN tries' = 0 /\ pc' = "rawWrite"
                                       ELSE tries' = tries + 1 /\ pc' = pc
          /\ pc = "zeros" /\ Counted
      BY <1>1, <1>5 DEF WriteZeros, deviceVars, Write
    <2>2. Stream' = Stream /\ Len(cmds') = Len(cmds) + 1
      BY <1>2, <2>1 DEF Stream
    <2>3. Stream = <<>> => zeros' + Len(cmds') = Written'
      <3>1. Stream = <<>> => zeros + Len(cmds) = Written
        BY <2>1 DEF Counted
      <3> QED
        BY <1>2, <2>1, <2>2, <3>1 DEF Written
    <2>4. Counted'
      BY <1>2, <2>1, <2>2, <2>3 DEF Counted
    <2> QED
      BY <1>1, <2>1, <2>4 DEF Timely, Agreed
  <1>6. CASE RawWrite
    <2>1. /\ UNCHANGED <<mode, zeros, stray, out, line>> /\ cmds' = Append(cmds, 0)
          /\ tries' = tries + 1 /\ pc = "rawWrite" /\ pc' = "rawRead" /\ Counted
      BY <1>1, <1>6 DEF RawWrite, deviceVars, Write
    <2>2. Stream' = Stream /\ Len(cmds') = Len(cmds) + 1
      BY <1>2, <2>1 DEF Stream
    <2>3. Stream = <<>> => zeros' + Len(cmds') = Written'
      <3>1. Stream = <<>> => zeros + Len(cmds) = Written
        BY <2>1 DEF Counted
      <3> QED
        BY <1>2, <2>1, <2>2, <3>1 DEF Written
    <2>4. Counted'
      BY <1>2, <2>1, <2>2, <2>3 DEF Counted
    <2> QED
      BY <1>1, <2>1, <2>4 DEF Timely, Agreed
  <1>7. CASE RawRead
    <2>1. cmds = <<>> /\ out = <<>> /\ pc = "rawRead" /\ Counted
      BY <1>1, <1>7 DEF RawRead, Slept
    <2>2. Stream = line
      BY <1>2, <2>1 DEF Stream
    <2>3. Len(line) >= 2 /\ line[1] = "BB" /\ line[2] = "IO1"
      BY <1>2, <2>1, <2>2 DEF Counted, Written
    <2>4. ExpectedReply("BBIO") = <<"BB", "IO1">>
      BY DEF ExpectedReply
    <2>5. Matches("BBIO") = {TRUE} /\ ~ShortReply("BBIO")
      <3>1. /\ Len(line) >= Len(ExpectedReply("BBIO"))
            /\ \A i \in 1..Len(ExpectedReply("BBIO")) : line[i] = ExpectedReply("BBIO")[i]
        BY <2>3, <2>4
      <3> QED
        BY <1>2, <3>1, WholeReply
    <2>6. tries = 1 /\ ~(tries > RAW_TRIES)
      BY <1>2, <2>1 DEF Counted
    <2>7. pc' = "rawDone" /\ UNCHANGED <<stray, cmds, out>>
      BY <1>7, <2>5, <2>6 DEF RawRead, deviceVars
    <2> QED
      BY <1>1, <2>1, <2>7 DEF Timely, Agreed
  <1>8. CASE RawDone
    <2>1. /\ pc = "rawDone" /\ cmds' = <<>> /\ out' = <<>> /\ line' = <<>> /\ pc' = "toMode"
          /\ state' = "BBIO" /\ mode' = mode /\ stray' = stray
      BY <1>1, <1>8 DEF RawDone, EmptyInbuff, deviceVars
    <2>2. mode = "BBIO"
      BY <2>1, Stages DEF Entering, Raw
    <2> QED
      BY <1>1, <2>1, <2>2 DEF Timely, Quiet, Agreed
  <1>9. CASE ToMode
    <2>1. /\ pc = "toMode" /\ Quiet /\ mode = state /\ pc' = "toWrite"
          /\ UNCHANGED <<cmds, out, mode, state, stray>> /\ line' = <<>>
      BY <1>1, <1>9 DEF ToMode, EmptyInbuff, deviceVars
    <2> QED
      BY <1>1, <2>1 DEF Timely, Quiet, Agreed
  <1>10. CASE ToWrite
    <2>1. /\ pc = "toWrite" /\ Quiet /\ mode = state /\ pc' = "toRead"
          /\ UNCHANGED <<goal, out, line, mode, state, stray>> /\ cmds' = Append(cmds, Command(goal))
      BY <1>1, <1>10 DEF ToWrite, Write, deviceVars
    <2>2. cmds' = <<Command(goal)>> /\ Command(goal)' = Command(goal)
      BY <2>1 DEF Quiet, Command
    <2>3. Stream' = <<>>
      BY <1>3, <2>1 DEF Quiet, Stream
    <2>4. OneAnswer'
      BY <2>1, <2>2, <2>3 DEF OneAnswer
    <2> QED
      BY <1>1, <2>1, <2>4 DEF Timely, Agreed
  <1>11. CASE ToRead
    <2>1. cmds = <<>> /\ out = <<>> /\ pc = "toRead" /\ OneAnswer
      BY <1>1, <1>11 DEF ToRead, Slept
    <2>2. line = ExpectedReply(goal)
      <3>1. Stream = line
        BY <1>2, <2>1 DEF Stream
      <3>2. <<Command(goal)>> # <<>>
        OBVIOUS
      <3> QED
        BY <2>1, <3>1, <3>2 DEF OneAnswer
    <2>3. Matches(goal) = {TRUE} /\ Unread(goal) = <<>>
      <3>1. /\ Len(line) >= Len(ExpectedReply(goal)) /\ Len(line) = Len(ExpectedReply(goal))
            /\ \A i \in 1..Len(ExpectedReply(goal)) : line[i] = ExpectedReply(goal)[i]
        BY <1>2, <2>2
      <3> QED
        BY <1>2, <3>1, WholeReply
    <2>4. PICK match \in Matches(goal) : IF match THEN pc' = "toOk" ELSE pc' = "toRetry"
      BY <1>11 DEF ToRead
    <2>5. pc' = "toOk"
      BY <2>3, <2>4
    <2>6. line' = <<>> /\ UNCHANGED <<stray, cmds, out>>
      BY <1>11, <2>3 DEF ToRead, deviceVars
    <2> QED
      BY <1>1, <2>1, <2>5, <2>6 DEF Timely, Quiet, Agreed
  <1>12. CASE ToOk
    <2>1. /\ pc = "toOk" /\ Quiet /\ line' = <<>> /\ UNCHANGED <<cmds, out, stray, mode, state>>
          /\ pc' = CASE goal = role -> "reopen" [] goal = "BBIO" -> "toMode" [] goal = "console" -> "closed"
      BY <1>1, <1>12 DEF ToOk, EmptyInbuff, deviceVars, Agreed
    <2>2. goal \in {"BBIO", role, "console"} /\ role \in {"SPI", "I2C"}
      BY ModeNames DEF Typed, TypeOK
    <2>3. mode = state
      BY <2>1, Stages DEF Agreed, Moving, Commanded, Stage
    <2>4. pc' \in {"reopen", "toMode", "closed"}
      BY <2>1, <2>2
    <2> QED
      BY <1>1, <2>1, <2>3, <2>4 DEF Timely, Quiet, Agreed
  <1>13. CASE Reopen
    <2>1. pc = "reopen" /\ Quiet /\ pc' = "inUse" /\ UNCHANGED <<cmds, out, line, stray>>
      BY <1>1, <1>13 DEF Reopen, deviceVars, Agreed
    <2> QED
      BY <1>1, <2>1 DEF Timely, Quiet, Agreed
  <1>14. CASE Deinit
    <2>1. /\ pc = "inUse" /\ Quiet /\ line' = <<>> /\ pc' = "toMode"
          /\ UNCHANGED <<cmds, out, stray, mode, state>>
      BY <1>1, <1>14 DEF Deinit, deviceVars, Agreed
    <2>2. mode = state
      BY <2>1, Stages DEF Agreed, Moving, Commanded, Stage
    <2> QED
      BY <1>1, <2>1, <2>2 DEF Timely, Quiet, Agreed
  <1> QED
    BY <1>1, <1>4, <1>5, <1>6, <1>7, <1>8, <1>9, <1>10, <1>11, <1>12, <1>13, <1>14
       DEF Host, RawAgain, ToRetry

LEMMA NextTimely == Typed /\ Turns /\ Ordered /\ Timely /\ [Next]_vars => Timely'
  <1>1. HangUp => Timely'
    BY DEF HangUp, Timely
  <1>2. Timely /\ UNCHANGED vars => Timely'
    <2> SUFFICES ASSUME Timely, UNCHANGED vars PROVE Timely'
      OBVIOUS
    <2>1. UNCHANGED <<pc, goal, tries, state, mode, zeros, stray, cmds, out, line, late, link>>
      BY DEF vars, hostVars, deviceVars
    <2>2. Stream' = Stream /\ Written' = Written
      BY <2>1 DEF Stream, Written
    <2>3. Counted' = Counted
      BY <2>1, <2>2 DEF Counted
    <2>4. OneAnswer' = OneAnswer /\ Quiet' = Quiet
      BY <2>1, <2>2 DEF OneAnswer, Quiet, ExpectedReply, Command
    <2> QED
      BY <2>1, <2>3, <2>4 DEF Timely
  <1>3. Adapter \/ Deliver \/ Host \/ Deinit => UNCHANGED <<late, link>>
    BY DEF Adapter, Deliver, hostVars, Host, Deinit, Open, WriteZeros, RawWrite, RawRead, RawAgain,
           RawDone, ToMode, ToWrite, ToRead, ToRetry, ToOk, Reopen
  <1>4. (Adapter \/ Deliver \/ Host \/ Deinit) /\ ~(link = "up" /\ ~late) => Timely'
    BY <1>3 DEF Timely
  <1> QED
    BY <1>1, <1>2, <1>4, AdapterTimely, DeliverTimely, HostTimely DEF Next, Ended
-----------------------------------------------------------------------------
(* Theorems *)

LEMMA Invariance == Spec => []IInv
  <1>1. IInv /\ [Next]_vars => IInv'
    BY NextTyped, NextOrdered, NextTimely DEF IInv
  <1> QED
    BY <1>1, InitIInv, PTL DEF Spec

\* Every count stays within its loop, and every command and mode is one of the
\* four.
THEOREM Types == Spec => []TypeOK
  <1>1. IInv => TypeOK
    BY DEF IInv, Typed
  <1> QED
    BY <1>1, Invariance, PTL

\* rawMode_toMode: the mode the program believes in is the adapter's, however
\* late the replies of an earlier try were.
THEOREM Agreement == Spec => []ModeAgreement
  <1>1. IInv => ModeAgreement
    <2> SUFFICES ASSUME IInv, link = "up", pc \in {"inUse", "closed"}
                 PROVE  state = mode /\ state = IF pc = "inUse" THEN role ELSE "console"
      BY DEF ModeAgreement
    <2>1. Stage /\ Commanded /\ pc \in Agreed
      BY Stages DEF IInv, Agreed, Moving
    <2>2. state = goal /\ mode = state
      BY <2>1 DEF Stage, Commanded
    <2> QED
      BY <2>1, <2>2 DEF Stage
  <1> QED
    BY <1>1, Invariance, PTL

\* buspirate_init_adapter and buspirate_deinit_adapter: an adapter in time is
\* handed over with an empty line, and no command has acted on the bus.
THEOREM TimelyInSync == Spec => []InSync
  <1>1. IInv => InSync
    <2> SUFFICES ASSUME IInv, link = "up", ~late
                 PROVE  ~stray /\ (pc \in {"reopen", "inUse", "closed"} => cmds \o out \o line = <<>>)
      BY DEF InSync
    <2>1. ~stray /\ (pc \in Agreed => Quiet)
      BY DEF IInv, Timely
    <2>2. <<>> \o <<>> \o <<>> = <<>>
      OBVIOUS
    <2> QED
      BY <2>1, <2>2 DEF Agreed, Quiet
  <1> QED
    BY <1>1, Invariance, PTL

\* Nor does bringing it up or down ever fail, whatever mode it was left in.
THEOREM TimelySuccess == Spec => []TimelySucceeds
  <1>1. IInv => TimelySucceeds
    BY DEF IInv, Timely, TimelySucceeds, Typed, TypeOK
  <1> QED
    BY <1>1, Invariance, PTL
=============================================================================
