----------------------------- MODULE BpSpiProofs ----------------------------
(***************************************************************************)
(* Theorems about BpSpi, for any calls, device, late bytes and size limit: *)
(* while the line is up and no read has been short, host and adapter stay  *)
(* in step.                                                                *)
(***************************************************************************)
EXTENDS BpSpi, SequenceTheorems, TLAPS

\* The answer to the call in progress.
AckThen(data) == <<1>> \o data
Answer == AckThen(sent)

\* The adapter has carried the call out.
Executed ==
  /\ todo = <<>> /\ done = Encoded(op)
  /\ sent \in [1..Asked(op) -> DeviceByte]

\* ... or has refused to, where it was asked for too much.
Refused ==
  /\ Asked(op) > SizeLimit /\ todo = <<>> /\ line \o reply = <<0>>

\* Where the call's command and answer are, at each point of the call.
AtIdle == pc = "idle" => todo = <<>> /\ reply = <<>> /\ line = <<>>
AtAck ==
  pc = "ack" /\ status # "failed" =>
    \/ todo = <<Encoded(op)>> /\ reply = <<>> /\ line = <<>>
    \/ Executed /\ line \o reply = Answer
    \/ Refused
AtData == pc = "data" => Executed /\ line \o reply = sent /\ Asked(op) = op.in

Aligned ==
  /\ AtIdle /\ AtAck /\ AtData
  /\ status = "failed" => pc = "ack" /\ Asked(op) > SizeLimit

\* A call is in progress except between calls; only one that receives bytes
\* waits for them.
CallInProgress ==
  /\ op = NoOp <=> pc = "idle"
  /\ pc = "data" => op.in > 0

IInv ==
  /\ TypeOK
  /\ CallInProgress
  /\ link = "up" /\ ~skew => Aligned
-----------------------------------------------------------------------------
(* Sequences *)

\* A byte that moves from the front of one queue to the end of the next leaves
\* the two together as they were: Deliver.
LEMMA MoveByte ==
  ASSUME NEW s \in Seq(Byte), NEW t \in Seq(Byte), t # <<>>
  PROVE  Append(s, Head(t)) \o Tail(t) = s \o t
<1> DEFINE a == Append(s, Head(t)) \o Tail(t)
           b == s \o t
<1>1. Head(t) \in Byte /\ Tail(t) \in Seq(Byte) /\ Len(Tail(t)) = Len(t) - 1
  BY HeadTailProperties
<1>2. Append(s, Head(t)) \in Seq(Byte) /\ Len(Append(s, Head(t))) = Len(s) + 1
  BY <1>1
<1>3. a \in Seq(Byte) /\ b \in Seq(Byte) /\ Len(a) = Len(b)
  BY <1>1, <1>2
<1>4. \A i \in 1..Len(a) : a[i] = b[i]
  BY <1>1, <1>2, <1>3
<1> QED  BY <1>3, <1>4, SeqEqual

\* An acknowledgement in front of two queues is the first byte of the first, if
\* there is one, and is taken away from both together: ReadAck.
LEMMA TakeAck ==
  ASSUME NEW s \in Seq(Byte), NEW t \in Seq(Byte), NEW u \in Seq(Byte),
         s # <<>>, s \o t = AckThen(u)
  PROVE  Head(s) = 1 /\ Tail(s) \o t = u
<1> DEFINE a == Tail(s) \o t
<1>1. Tail(s) \in Seq(Byte) /\ Len(Tail(s)) = Len(s) - 1
  BY HeadTailProperties
<1>2. Len(s) + Len(t) = 1 + Len(u)
  BY ConcatProperties DEF AckThen
<1>3. Head(s) = 1
  BY (s \o t)[1] = s[1], (<<1>> \o u)[1] = 1 DEF AckThen
<1>4. a \in Seq(Byte) /\ Len(a) = Len(u)
  BY <1>1, <1>2
<1>5. ASSUME NEW i \in 1..Len(a)  PROVE a[i] = u[i]
  <2>1. a[i] = (s \o t)[i + 1]
    BY <1>1, <1>2, <1>4
  <2>2. (<<1>> \o u)[i + 1] = u[i]
    BY <1>4
  <2> QED  BY <2>1, <2>2 DEF AckThen
<1> QED  BY <1>3, <1>4, <1>5, SeqEqual

\* The first byte of two queues is the first of the first.
LEMMA FirstOfTwo ==
  ASSUME NEW s \in Seq(Byte), NEW t \in Seq(Byte), s # <<>>
  PROVE  (s \o t)[1] = Head(s)
OBVIOUS

LEMMA FirstByte ==
  ASSUME NEW s \in Seq(Byte), NEW t \in Seq(Byte), s # <<>>, s \o t = << 0 >>
  PROVE  Head(s) = 0
<1> DEFINE u == s \o t
<1>1. u[1] = Head(s)
  BY FirstOfTwo
<1>2. u = <<0>>
  OBVIOUS
<1> HIDE DEF u
<1>3. u[1] = 0
  BY <1>2
<1> QED  BY <1>1, <1>3

\* A queue as long as the two together is all there is: ReadData.
LEMMA TakeAll ==
  ASSUME NEW s \in Seq(Byte), NEW t \in Seq(Byte), Len(s) >= Len(s \o t)
  PROVE  t = <<>> /\ s \o t = s
OBVIOUS
-----------------------------------------------------------------------------
(* Types *)

\* The number of bytes asked for is that of the call, unless it is negative.
LEMMA AskedIn ==
  ASSUME NEW c, c.in \in Int, c.in < SizeLimit
  PROVE  /\ Asked(c) \in Nat
         /\ c.in >= 0 => Asked(c) = c.in
<1>1. U16 \in Nat /\ U16 > 0 /\ SizeLimit \in Nat /\ SizeLimit < U16
  BY SizeAssumption
<1>2. c.in % U16 \in Nat
  BY <1>1
<1>3. c.in >= 0 => c.in % U16 = c.in
  <2> DEFINE n == c.in
  <2>1. n \in Int /\ n < U16
    BY <1>1
  <2> HIDE DEF n
  <2>2. n >= 0 => n % U16 = n
    BY <1>1, <2>1
  <2> QED  BY <2>2 DEF n
<1> QED  BY <1>2, <1>3 DEF Asked

LEMMA InInt == ASSUME NEW c \in Commands PROVE c.in \in Int
BY DEF Commands, Transfers, SetCSs, Configs

\* What goes over the line is a command again.
LEMMA EncodedType ==
  ASSUME NEW c \in Commands, c.in < SizeLimit
  PROVE  Encoded(c) \in Commands /\ Encoded(c).in = Asked(c)
<1>3. Asked(c) \in Nat /\ (c.in = 0 => Asked(c) = 0)
  BY AskedIn, InInt
<1>1. CASE c \in Transfers \cup Configs
  BY <1>1, <1>3 DEF Encoded, Transfers, Configs, Commands
<1>2. CASE c \in SetCSs
  <2>1. c.out[1] \in Int /\ <<Level(c)>> \in [1..1 -> Int]
    BY <1>2 DEF SetCSs, Level
  <2> QED  BY <1>2, <1>3, <2>1 DEF Encoded, SetCSs, Commands
<1> QED  BY <1>1, <1>2 DEF Commands

\* A sequence of that many bytes, none if there are none to send.
LEMMA IntSeq ==
  ASSUME NEW n \in Int, NEW s \in [1..n -> DeviceByte]
  PROVE  s \in Seq(DeviceByte) /\ s \in Seq(Byte)
<1>1. CASE n >= 0
  <2>1. n \in Nat
    BY <1>1
  <2> QED  BY <2>1, DeviceAssumption
<1>2. CASE ~(n >= 0)
  <2>1. 1..n = {} /\ 1..0 = {} /\ 0 \in Nat
    BY <1>2
  <2>2. s \in [1..0 -> DeviceByte]
    BY <2>1
  <2> QED  BY <2>1, <2>2, DeviceAssumption
<1> QED  BY <1>1, <1>2

LEMMA TypeInit == Init => TypeOK
BY StaleAssumption, SizeAssumption DEF Init, TypeOK, Byte

\* Entering a driver call keeps the types.
LEMMA TypeIssue ==
  ASSUME TypeOK, NEW c \in Commands, c.in < SizeLimit, Issue(c)
  PROVE  TypeOK'
<1>1. user' \in [1..SizeLimit - 1 -> Byte]
  BY SizeAssumption DEF TypeOK, Issue, Cleared, Byte
<1>2. todo' \in Seq(Commands)
  BY EncodedType DEF TypeOK, Issue
<1> QED  BY <1>1, <1>2 DEF TypeOK, Issue

\* So does returning from it, the rest being left as it is.
LEMMA TypeReturn ==
  ASSUME TypeOK, Return, UNCHANGED <<link, todo, reply>>, skew' \in BOOLEAN,
         line' \in Seq(Byte), user' \in [1..SizeLimit - 1 -> Byte]
  PROVE  TypeOK'
<1>1. ready' \in 0..3
  BY DEF TypeOK, Return, ConfigOrder
<1> QED  BY <1>1 DEF TypeOK, Return

LEMMA TypeNext ==
  ASSUME TypeOK, CallInProgress, [Next]_vars
  PROVE  TypeOK'
<1>1. CASE Configure
  <2>1. Command(ConfigOrder[ready + 1], <<>>, 0) \in Configs
    BY <1>1 DEF Configure, ConfigOrder, Command, Configs, TypeOK
  <2> QED  BY <1>1, <2>1, TypeIssue, SizeAssumption DEF Configure, Configs, Commands
<1>2. CASE Call
  <2>1. PICK c \in Requests : Accepted(c) /\ Issue(c)
    BY <1>2 DEF Call
  <2>2. c \in Commands /\ c.in < SizeLimit
    BY <2>1, RequestsAssumption, SizeAssumption
    DEF Commands, Accepted, Transfers, SetCSs
  <2> QED  BY <2>1, <2>2, TypeIssue
<1>3. CASE CallRejected \/ CallCrashes
  BY <1>3 DEF CallRejected, CallCrashes, TypeOK, adapterVars
<1>4. CASE ReadAck
  <2>4. skew' = skew \/ skew' = (skew \/ Asked(op) > 0)
    BY <1>4 DEF ReadAck
  <2>5. skew' \in BOOLEAN
    BY <2>4 DEF TypeOK
  <2>1. line' \in Seq(Byte) /\ UNCHANGED <<NDEBUG, user, link, todo, reply>> /\ skew' \in BOOLEAN
    BY <1>4, <2>5 DEF ReadAck, TypeOK
  <2>2. CASE Return
    BY <2>1, <2>2, TypeReturn DEF TypeOK
  <2>3. CASE UNCHANGED <<op, ready, done, sent>> /\ pc' \in {"ack", "data"}
                /\ status' \in {"running", "failed"}
    BY <2>1, <2>3 DEF TypeOK
  <2> QED  BY <1>4, <2>2, <2>3 DEF ReadAck, At, Running
<1>5. CASE ReadData
  <2>1. Taken \in Nat /\ Taken <= Len(line)
    <3>1. op \in Commands
      BY <1>5 DEF ReadData, At, TypeOK, CallInProgress
    <3>2. op.in \in Int /\ op.in > 0
      BY <1>5, <3>1, InInt DEF ReadData, At, CallInProgress
    <3> QED  BY <3>2 DEF Taken, TypeOK
  <2>2. line' \in Seq(Byte)
    BY <1>5, <2>1 DEF ReadData, TypeOK
  <2>3. user' \in [1..SizeLimit - 1 -> Byte]
    BY <1>5, <2>1 DEF ReadData, TypeOK
  <2> QED  BY <1>5, <2>2, <2>3, TypeReturn DEF ReadData, TypeOK
<1>6. CASE Adapter
  <2>1. Head(todo) \in Commands /\ Tail(todo) \in Seq(Commands)
    BY <1>6, HeadTailProperties DEF Adapter, TypeOK
  <2> DEFINE n == Head(todo).in
  <2>3. sent' \in [1..n -> DeviceByte] \/ sent' = <<>>
    BY <1>6 DEF Adapter
  <2>4. sent' \in Seq(DeviceByte) /\ sent' \in Seq(Byte)
    <3>1. n \in Int
      BY <2>1, InInt
    <3> HIDE DEF n
    <3> QED  BY <2>3, <3>1, IntSeq, EmptySeq, DeviceAssumption
  <2>6. reply' \in Seq(Byte)
    <3>1. reply \o <<1>> \in Seq(Byte) /\ Append(reply, 0) \in Seq(Byte)
      BY DEF TypeOK, Byte
    <3>2. \/ reply' = (reply \o <<1>>) \o sent'
          \/ reply' = Append(reply, 0)
          \/ reply' = <<>>
      BY <1>6 DEF Adapter
    <3>3. (reply \o <<1>>) \o sent' \in Seq(Byte)
      BY <2>4, <3>1, ConcatProperties
    <3> QED  BY <3>1, <3>2, <3>3, EmptySeq
  <2>7. done' \in Commands \cup {NoOp} /\ UNCHANGED <<hostVars, user, link, line, skew>>
        /\ todo' \in Seq(Commands)
    BY <1>6, <2>1 DEF Adapter
  <2> QED  BY <2>4, <2>6, <2>7 DEF TypeOK, hostVars
<1>7. CASE Deliver
  BY <1>7 DEF Deliver, TypeOK, hostVars
<1>8. CASE HangUp
  <2>1. todo' \in Seq(Commands)
    <3>1. todo \in Seq(Commands) /\ <<>> \in Seq(Commands)
      BY EmptySeq DEF TypeOK
    <3>2. todo' = todo \/ todo' = <<>>
      BY <1>8 DEF HangUp
    <3> QED  BY <3>1, <3>2
  <2> QED  BY <1>8, <2>1 DEF HangUp, TypeOK, hostVars
<1>9. CASE UNCHANGED vars
  BY <1>9 DEF vars, hostVars, adapterVars, TypeOK
<1> QED
  BY <1>1, <1>2, <1>3, <1>4, <1>5, <1>6, <1>7, <1>8, <1>9 DEF Next, Ended
-----------------------------------------------------------------------------
(* The call in progress *)

LEMMA ProgressInit == Init => CallInProgress
BY DEF Init, CallInProgress

LEMMA ProgressNext ==
  ASSUME TypeOK, CallInProgress, [Next]_vars
  PROVE  CallInProgress'
<1>1. ASSUME NEW c \in Commands, Issue(c)  PROVE CallInProgress'
  BY <1>1, NoOpAssumption DEF Issue, CallInProgress, Commands
<1>2. CASE Configure
  <2>1. Command(ConfigOrder[ready + 1], <<>>, 0) \in Commands
    BY <1>2 DEF Configure, ConfigOrder, Command, Configs, Commands, TypeOK
  <2> QED  BY <1>1, <1>2, <2>1 DEF Configure
<1>3. CASE Call
  BY <1>1, <1>3, RequestsAssumption DEF Call, Commands
<1>4. CASE ReadAck
  BY <1>4 DEF ReadAck, Return, At, CallInProgress
<1>5. CASE ReadData
  BY <1>5 DEF ReadData, Return, CallInProgress
<1>6. CASE UNCHANGED <<op, pc>>
  BY <1>6 DEF CallInProgress
<1> QED
  BY <1>2, <1>3, <1>4, <1>5, <1>6
  DEF Next, CallRejected, CallCrashes, Adapter, Deliver, HangUp, Ended, vars, hostVars
-----------------------------------------------------------------------------
(* Host and adapter *)

LEMMA AlignedInit == Init /\ ~skew => Aligned
BY DEF Init, Aligned, AtIdle, AtAck, AtData

\* A call is entered with nothing under way, and puts its command there.
LEMMA AlignedIssue ==
  ASSUME Aligned, At("idle"), link = "up", NEW c \in Commands, Issue(c)
  PROVE  Aligned'
<1>1. todo' = <<Encoded(c)>> /\ reply' = <<>> /\ line' = <<>> /\ op' = c
  BY DEF Issue, Aligned, AtIdle, At
<1>2. Encoded(op)' = Encoded(c)
  BY <1>1 DEF Encoded, Level
<1> QED  BY <1>1, <1>2 DEF Issue, Aligned, AtIdle, AtAck, AtData, At, Running

\* What is asked for in the call in progress.
LEMMA OpAsked ==
  ASSUME TypeOK, CallInProgress, pc # "idle"
  PROVE  /\ op \in Commands /\ op.in \in Int /\ op.in < SizeLimit
         /\ Asked(op) \in Nat /\ (op.in >= 0 => Asked(op) = op.in)
         /\ Encoded(op).in = Asked(op)
<1>1. op \in Commands /\ op.in < SizeLimit
  BY DEF TypeOK, CallInProgress
<1>2. op.in \in Int
  BY <1>1, InInt
<1> QED  BY <1>1, <1>2, AskedIn, EncodedType

\* A refusal is read as what it is.
LEMMA RefusedAck ==
  ASSUME IInv, Refused, ReadAck, link = "up"
  PROVE  Aligned'
<1>1. line # <<>> /\ line \in Seq(Byte) /\ reply \in Seq(Byte) /\ line \o reply = <<0>>
      /\ status = "running" /\ pc = "ack" /\ Asked(op) > SizeLimit
  BY DEF ReadAck, At, Running, Refused, IInv, TypeOK
<1>2. Head(line) = 0
  BY <1>1, FirstByte
<1>3. status' = "failed" /\ UNCHANGED <<op, pc>>
  BY <1>2 DEF ReadAck, IsAck
<1> QED  BY <1>1, <1>3 DEF Aligned, AtIdle, AtAck, AtData, Asked

LEMMA AlignedAck ==
  ASSUME IInv, Aligned, ReadAck, link = "up", ~skew', ~Refused
  PROVE  Aligned'
<1>6. pc = "ack" /\ status = "running" /\ line # <<>>
  BY DEF ReadAck, At, Running
<1>1. Executed /\ line \o reply = Answer /\ line # <<>>
  BY <1>6 DEF Aligned, AtAck
<1>7. /\ op.in \in Int /\ op.in < SizeLimit
      /\ Asked(op) \in Nat /\ (op.in >= 0 => Asked(op) = op.in)
  BY <1>6, OpAsked DEF IInv
<1>2. sent \in Seq(Byte)
  BY DeviceAssumption DEF IInv, TypeOK
<1>3. Head(line) = 1 /\ Tail(line) \o reply = sent
  <2>1. line \in Seq(Byte) /\ reply \in Seq(Byte)
    BY DEF IInv, TypeOK
  <2>2. line \o reply = AckThen(sent)
    BY <1>1 DEF Answer
  <2> QED  BY <1>1, <1>2, <2>1, <2>2, TakeAck
<1>4. CASE op.in > 0
  <2>1. pc' = "data" /\ line' = Tail(line) /\ UNCHANGED <<op, status, todo, reply, done, sent>>
    BY <1>3, <1>4, <1>7 DEF ReadAck, IsAck
  <2>2. Executed' /\ Asked(op)' = op'.in
    BY <1>1, <1>4, <1>7, <2>1 DEF Executed, Encoded, Level, Asked
  <2> QED  BY <1>3, <1>6, <2>1, <2>2 DEF Aligned, AtIdle, AtAck, AtData
<1>5. CASE ~(op.in > 0)
  <2>1. Asked(op) = 0
    <3>1. skew' = (skew \/ Asked(op) > 0)
      BY <1>3, <1>5, <1>7 DEF ReadAck, IsAck
    <3>2. ~(Asked(op) > 0)
      BY <3>1, Zenon
    <3> QED  BY <1>7, <3>2
  <2>2. sent = <<>>
    BY <1>1, <2>1 DEF Executed
  <2>3. Tail(line) = <<>> /\ reply = <<>>
    BY <1>1, <1>3, <2>2, HeadTailProperties, ConcatEqualIffEmpty DEF IInv, TypeOK
  <2>4. pc' = "idle" /\ status' = status /\ todo' = todo /\ reply' = reply /\ line' = Tail(line)
    BY <1>3, <1>5, <1>7 DEF ReadAck, IsAck, Return
  <2> QED
    BY <1>1, <1>6, <2>3, <2>4 DEF Executed, Aligned, AtIdle, AtAck, AtData
<1> QED  BY <1>4, <1>5

\* A read that is not short takes what the device sent, and nothing is left.
LEMMA WholeRead ==
  ASSUME IInv, Aligned, ReadData, link = "up", ~skew'
  PROVE  Executed /\ line = sent /\ reply = <<>> /\ line' = <<>> /\ Taken = op.in
<1>1. Executed /\ line \o reply = sent /\ Asked(op) = op.in
  BY DEF ReadData, At, Aligned, AtData
<1>2. op.in \in Nat
  BY OpAsked DEF IInv, CallInProgress, ReadData, At
<1>3. Len(sent) = op.in
  BY <1>1, <1>2 DEF Executed
<1>4. Taken = op.in /\ Len(line) >= op.in
  <2>1. ~(Taken < op.in)
    BY DEF ReadData
  <2>2. Len(line) \in Nat
    BY DEF IInv, TypeOK
  <2> QED  BY <1>2, <2>1, <2>2 DEF Taken
<1>5. line = sent /\ reply = <<>>
  BY <1>1, <1>3, <1>4, TakeAll DEF IInv, TypeOK
<1>6. line' = <<>>
  BY <1>3, <1>4, <1>5, SubSeqEmpty DEF ReadData
<1> QED  BY <1>1, <1>4, <1>5, <1>6

\* What has been left behind is not taken away again, nor does the line return.
LEMMA SkewStays ==
  ASSUME [Next]_vars
  PROVE  (link' = "up" => link = "up") /\ (~skew' => ~skew)
<1>1. CASE ReadAck
  <2>1. link' = link /\ (skew' = skew \/ skew' = (skew \/ Asked(op) > 0))
    BY <1>1 DEF ReadAck
  <2>2. ~skew' => ~skew
    BY <2>1, Zenon
  <2> QED  BY <2>1, <2>2
<1>2. CASE ReadData
  BY <1>2 DEF ReadData
<1>3. CASE HangUp
  BY <1>3 DEF HangUp
<1>4. CASE UNCHANGED <<link, skew>>
  BY <1>4
<1> QED
  BY <1>1, <1>2, <1>3, <1>4
  DEF Next, vars, Configure, Call, CallRejected, CallCrashes, Issue, Adapter, Deliver, Ended

LEMMA AlignedNext ==
  ASSUME IInv, [Next]_vars, link' = "up", ~skew'
  PROVE  Aligned'
<1>1. link = "up" /\ ~skew
  BY SkewStays DEF IInv
<1>2. Aligned
  BY <1>1 DEF IInv
<1>3. CASE Configure
  <2>1. Command(ConfigOrder[ready + 1], <<>>, 0) \in Commands
    BY <1>3 DEF Configure, ConfigOrder, Command, Configs, Commands, IInv, TypeOK
  <2> QED  BY <1>1, <1>2, <1>3, <2>1, AlignedIssue DEF Configure
<1>4. CASE Call
  BY <1>1, <1>2, <1>4, AlignedIssue, RequestsAssumption DEF Call, Commands
<1>5. CASE CallRejected \/ CallCrashes
  BY <1>2, <1>5 DEF CallRejected, CallCrashes, At, Aligned, AtIdle, AtAck, AtData, adapterVars
<1>6. CASE ReadAck
  BY <1>1, <1>2, <1>6, AlignedAck, RefusedAck
<1>7. CASE ReadData
  <2>1. reply = <<>> /\ line' = <<>> /\ todo = <<>>
    BY <1>1, <1>2, <1>7, WholeRead DEF Executed
  <2>2. pc' = "idle" /\ status' = status /\ status = "running" /\ todo' = todo /\ reply' = reply
    BY <1>7 DEF ReadData, Return, At, Running
  <2> QED  BY <2>1, <2>2 DEF Aligned, AtIdle, AtAck, AtData
<1>8. CASE Adapter
  <2>7. UNCHANGED <<op, pc, status, line>> /\ todo # <<>>
    BY <1>8 DEF Adapter, hostVars
  <2>8. CASE status = "failed"
    BY <1>2, <2>7, <2>8 DEF Aligned, AtIdle, AtAck, AtData, Asked
  <2>9. CASE status # "failed"
    <3>1. pc = "ack" /\ todo = <<Encoded(op)>> /\ reply = <<>> /\ line = <<>>
      <4>1. pc \in {"idle", "ack", "data"}
        BY DEF IInv, TypeOK
      <4> QED
        BY <1>2, <2>7, <2>9, <4>1 DEF Aligned, AtIdle, AtAck, AtData, Executed, Refused
    <3>2. Encoded(op).in = Asked(op) /\ Head(todo) = Encoded(op) /\ Tail(todo) = <<>>
      <4>1. Head(<<Encoded(op)>>) = Encoded(op) /\ Tail(<<Encoded(op)>>) = <<>>
        OBVIOUS
      <4> QED  BY <3>1, <4>1, OpAsked DEF IInv
    <3>3. todo' = <<>> /\ Encoded(op)' = Encoded(op) /\ Asked(op)' = Asked(op)
      BY <1>8, <2>7, <3>2 DEF Adapter, Encoded, Level, Asked
    <3>4. \/ /\ sent' \in [1..Asked(op) -> DeviceByte] /\ done' = Encoded(op)
             /\ reply' = (<<>> \o <<1>>) \o sent'
          \/ /\ Asked(op) > SizeLimit /\ reply' = Append(<<>>, 0)
      BY <1>1, <1>8, <3>1, <3>2 DEF Adapter
    <3>5. (Executed /\ line \o reply = Answer)' \/ Refused'
      <4>1. CASE /\ sent' \in [1..Asked(op) -> DeviceByte] /\ done' = Encoded(op)
                 /\ reply' = (<<>> \o <<1>>) \o sent'
        <5>1. sent' \in Seq(Byte)
          BY TypeNext, DeviceAssumption DEF IInv, TypeOK
        <5>2. <<>> \o ((<<>> \o <<1>>) \o sent') = <<1>> \o sent'
          <6>1. <<1>> \in Seq(Byte) /\ <<>> \in Seq(Byte)
            BY DEF Byte
          <6>2. <<>> \o <<1>> = <<1>>
            OBVIOUS
          <6>3. <<1>> \o sent' \in Seq(Byte)
            BY <5>1, <6>1, ConcatProperties
          <6> QED  BY <6>2, <6>3, ConcatEmptySeq
        <5>3. (line \o reply = Answer)'
          BY <2>7, <3>1, <4>1, <5>2 DEF Answer, AckThen
        <5> QED  BY <3>3, <4>1, <5>3 DEF Executed
      <4>2. CASE Asked(op) > SizeLimit /\ reply' = Append(<<>>, 0)
        <5>1. <<>> \o Append(<<>>, 0) = <<0>>
          OBVIOUS
        <5> QED  BY <2>7, <3>1, <3>3, <4>2, <5>1 DEF Refused
      <4> QED  BY <3>4, <4>1, <4>2
    <3> QED  BY <2>7, <2>9, <3>1, <3>5 DEF Aligned, AtIdle, AtAck, AtData
  <2> QED  BY <2>8, <2>9
<1>9. CASE Deliver
  <2>1. line' \o reply' = line \o reply
    BY <1>9, MoveByte DEF Deliver, IInv, TypeOK
  <2>2. UNCHANGED <<op, pc, status, todo, sent>> /\ reply # <<>>
    BY <1>9 DEF Deliver, hostVars
  <2>3. (Executed => Executed') /\ Asked(op)' = Asked(op)
    BY <1>9 DEF Deliver, hostVars, Executed, Encoded, Level, Asked
  <2>4. Refused => Refused'
    BY <2>1, <2>2, <2>3 DEF Refused
  <2> QED
    BY <1>2, <2>1, <2>2, <2>3, <2>4
    DEF Aligned, AtIdle, AtAck, AtData, Answer
<1>10. CASE HangUp
  BY <1>10 DEF HangUp
<1>11. CASE UNCHANGED vars
  BY <1>2, <1>11 DEF vars, hostVars, adapterVars,
     Aligned, AtIdle, AtAck, AtData, Executed, Refused, Answer, Encoded, Level, Asked
<1> QED
  BY <1>3, <1>4, <1>5, <1>6, <1>7, <1>8, <1>9, <1>10, <1>11 DEF Next, Ended
-----------------------------------------------------------------------------
(* Theorems *)

LEMMA Inductive == Spec => []IInv
<1>1. Init => IInv
  BY TypeInit, ProgressInit, AlignedInit DEF IInv
<1>2. IInv /\ [Next]_vars => IInv'
  BY TypeNext, ProgressNext, AlignedNext DEF IInv
<1> QED  BY <1>1, <1>2, PTL DEF Spec

\* The driver keeps its types: whatever the calls, the caller's buffer is
\* filled with bytes and never beyond its end.
THEOREM TypeCorrect == Spec => []TypeOK
<1>1. IInv => TypeOK
  BY DEF IInv
<1> QED  BY <1>1, Inductive, PTL

\* Between two calls nothing is under way, on a clean line without short reads.
THEOREM StaysInStep == Spec => []InStep
<1>1. IInv => InStep
  BY DEF IInv, Aligned, AtIdle, InStep
<1> QED  BY <1>1, Inductive, PTL

\* There no answer takes the driver down.
THEOREM NoFalseAlarm == Spec => []FailsJustly
<1>1. IInv => FailsJustly
  BY DEF IInv, Aligned, FailsJustly, TypeOK
<1> QED  BY <1>1, Inductive, PTL

\* There a call that returns has been carried out as made, and its buffer holds
\* what the device sent.
THEOREM ReturnsOwnAnswer == Spec => AnswersOwnCall
<1>1. ASSUME IInv, [Next]_vars, op # NoOp, op' = NoOp, link = "up", ~skew'
      PROVE  CarriedOut
  <2>1. ~skew /\ op \in Commands
    BY <1>1, SkewStays DEF IInv, TypeOK
  <2>2. Aligned
    BY <1>1, <2>1 DEF IInv
  <2>3. ASSUME Executed, \A n \in 1..op.in : user'[n] = sent[n]  PROVE CarriedOut
    <3>1. done = Encoded(op) /\ done.in = Asked(op)
      BY <1>1, <2>3, OpAsked DEF Executed, IInv, CallInProgress
    <3>2. CASE op.cmd = "CMD_CS"
      BY <2>1, <2>3, <3>1, <3>2
      DEF CarriedOut, Encoded, Commands, Transfers, SetCSs, Configs
    <3>3. CASE op.cmd # "CMD_CS"
      BY <2>1, <2>3, <3>1, <3>3
      DEF CarriedOut, Encoded, Commands, Transfers, SetCSs, Configs
    <3> QED  BY <3>2, <3>3
  <2>4. CASE ReadAck
    <3>1. pc = "ack" /\ status = "running" /\ op' # op
      BY <1>1, <2>4 DEF ReadAck, At, Running
    <3>4. ~Refused
      <4>1. Refused /\ ReadAck => Head(line) = 0
        <5> SUFFICES ASSUME Refused, ReadAck PROVE Head(line) = 0
          OBVIOUS
        <5>1. line # <<>> /\ line \in Seq(Byte) /\ reply \in Seq(Byte) /\ line \o reply = <<0>>
          BY <1>1 DEF ReadAck, At, Refused, IInv, TypeOK
        <5> QED  BY <5>1, FirstByte
      <4>2. Head(line) = 0 => op' = op
        BY <1>1, <2>4 DEF ReadAck, IsAck
      <4> QED  BY <2>4, <3>1, <4>1, <4>2
    <3>5. Executed
      <4>1. line # <<>>
        BY <1>1, <2>4 DEF ReadAck
      <4> QED  BY <2>2, <3>1, <3>4, <4>1 DEF Aligned, AtAck
    <3>3. op.in \in Int
      BY <2>1, InInt
    <3>2. ~(op.in > 0)
      BY <1>1, <2>4, <3>1, <3>3 DEF ReadAck
    <3>6. 1..op.in = {}
      BY <3>2, <3>3
    <3> QED  BY <2>3, <3>5, <3>6
  <2>5. CASE ReadData
    <3>1. Executed /\ line = sent /\ Taken = op.in
      BY <1>1, <2>2, <2>5, WholeRead
    <3>2. op.in \in Nat /\ op.in < SizeLimit
      BY <1>1, <2>1, <2>5, OpAsked DEF IInv, CallInProgress, ReadData, At
    <3>3. \A n \in 1..op.in : user'[n] = sent[n]
      BY <1>1, <2>5, <3>1, <3>2, SizeAssumption DEF ReadData, IInv, TypeOK
    <3> QED  BY <2>3, <3>1, <3>3
  <2>6. CASE Configure \/ Call
    BY <1>1, <2>6 DEF Configure, Call, At, IInv, CallInProgress
  <2>7. CASE UNCHANGED op
    BY <1>1, <2>7
  <2> QED
    BY <1>1, <2>4, <2>5, <2>6, <2>7
    DEF Next, CallRejected, CallCrashes, Adapter, Deliver, HangUp, Ended, vars, hostVars
<1>2. IInv /\ [Next]_vars => [op # NoOp /\ op' = NoOp /\ link = "up" /\ ~skew' => CarriedOut]_vars
  BY <1>1
<1> QED  BY <1>2, Inductive, PTL DEF Spec, AnswersOwnCall
=============================================================================
