----------------------------- MODULE OptsProofs -----------------------------
(***************************************************************************)
(* TLAPS proofs about Opts: of a daemon and its parents one process goes   *)
(* on, and only with the options the rules of opts.h allow, for any        *)
(* command line; and no word of the line is lost on the way to the         *)
(* workbench.                                                              *)
(***************************************************************************)
EXTENDS Opts, SequenceTheorems, TLAPS

\* The processes are born one after the other, each by a parent that then does
\* nothing but exit; only a daemon has them.
Born ==
  /\ pc \in [Process -> {"parse", "fork", "parent", "check"} \cup Settled]
  /\ pc["first"] # "unborn" /\ pc["second"] # "parse"
  /\ pc["third"] \in {"unborn", "check", "main", "exit 1"}
  /\ pc["first"] = "fork" => daemon
  /\ pc["second"] # "unborn" => daemon /\ pc["first"] \in {"parent", "exit 0"}
  /\ pc["third"] # "unborn" => pc["second"] \in {"parent", "exit 0"}

\* The counters, that who goes on has checked them, and that who has been refused
\* behind the parser has broken a rule.
Checked ==
  /\ cnt \in [Option -> Nat]
  /\ (\E p \in Process : GoesOn(p)) => opts_check
  /\ Parsing => argv = <<>>
  /\ (\E p \in Process : pc[p] = "exit 1") /\ argv # <<>> => ~opts_check

IInv == Born /\ Checked
-----------------------------------------------------------------------------
LEMMA InitIInv == Init => IInv
  BY DEF Init, IInv, Born, Checked, GoesOn, Process, Settled

\* While the options are parsed there is one process.
LEMMA Alone ==
  ASSUME Born, Parsing
  PROVE  pc["second"] = "unborn" /\ pc["third"] = "unborn"
         /\ \A p \in Process : pc[p] \in {"parse", "unborn"}
  BY DEF Born, Parsing, Process

\* Counting keeps the counters numbers.
LEMMA CountTyped ==
  ASSUME cnt \in [Option -> Nat], cnt' = cnt \/ \E o \in Option : Count(o)
  PROVE  cnt' \in [Option -> Nat]
  BY DEF Count

\* A step of the parser that stays in it.
LEMMA CountStep ==
  ASSUME IInv, Parsing, UNCHANGED <<pc, argv>>, cnt' = cnt \/ \E o \in Option : Count(o)
  PROVE  IInv'
  <1>1. Born'
    BY Alone DEF IInv, Born, Parsing
  <1>2. cnt' \in [Option -> Nat]
    BY CountTyped DEF IInv, Checked
  <1>3. \A p \in Process : ~GoesOn(p)' /\ pc'[p] # "exit 1"
    BY Alone DEF IInv, GoesOn
  <1>4. argv' = <<>>
    BY DEF IInv, Checked
  <1> QED
    BY <1>1, <1>2, <1>3, <1>4 DEF IInv, Checked

\* A step of the parser that leaves it.
LEMMA LeaveStep ==
  ASSUME IInv, Parsing, NEW where \in {"fork", "check", "exit 0", "exit 1"}, Goto("first", where),
         where = "fork" => daemon', where = "exit 1" => UNCHANGED argv,
         cnt' = cnt \/ \E o \in Option : Count(o)
  PROVE  IInv'
  <1>1. /\ pc' = [pc EXCEPT !["first"] = where]
        /\ pc \in [Process -> {"parse", "fork", "parent", "check"} \cup Settled]
        /\ pc["second"] = "unborn" /\ pc["third"] = "unborn"
    BY Alone DEF IInv, Born, Goto
  <1>2. pc'["first"] = where /\ pc'["second"] = "unborn" /\ pc'["third"] = "unborn"
        /\ pc' \in [Process -> {"parse", "fork", "parent", "check"} \cup Settled]
    BY <1>1 DEF Process, Settled
  <1>3. Born'
    BY <1>2 DEF Born
  <1>4. cnt' \in [Option -> Nat]
    BY CountTyped DEF IInv, Checked
  <1>5. ~Parsing' /\ \A p \in Process : ~GoesOn(p)' /\ (pc'[p] = "exit 1" => argv' = <<>>)
    BY <1>2 DEF GoesOn, Process, Parsing, IInv, Checked
  <1> QED
    BY <1>3, <1>4, <1>5 DEF IInv, Checked

LEMMA ParseStep == IInv /\ Parse => IInv'
  <1> SUFFICES ASSUME IInv, Parse PROVE IInv'
    OBVIOUS
  <1>1. ASSUME AddAdapter \/ SetLogLevel \/ SetDaemon \/ MoveOperand PROVE IInv'
    <2>1. Parsing /\ UNCHANGED <<pc, argv>> /\ (cnt' = cnt \/ \E o \in Option : Count(o))
      BY <1>1 DEF AddAdapter, SetLogLevel, SetDaemon, MoveOperand, AtWord, opts, Option, WithArgument
    <2> QED
      BY <2>1, CountStep
  <1>2. CASE Inform
    <2>1. Parsing /\ Goto("first", "exit 0") /\ \E o \in Option : Count(o)
      BY <1>2 DEF Inform, AtWord, Option, opts_help
    <2> QED
      BY <2>1, LeaveStep
  <1>3. CASE Refuse
    <2>1. Parsing /\ Goto("first", "exit 1") /\ cnt' = cnt /\ argv' = argv
      BY <1>3 DEF Refuse, AtWord, opts, opts_help
    <2> QED
      BY <2>1, LeaveStep
  <1>4. CASE EndOfOptions
    <2>1. Parsing /\ cnt' = cnt /\ daemon' = daemon
          /\ \/ Goto("first", "exit 1") /\ argv' = argv
             \/ Goto("first", IF daemon THEN "fork" ELSE "check")
      BY <1>4 DEF EndOfOptions, opts, opts_help
    <2> QED
      BY <2>1, LeaveStep
  <1> QED
    BY <1>1, <1>2, <1>3, <1>4 DEF Parse

\* A process that gets to its end, to the check or past it, without forking.
LEMMA OneMoves ==
  ASSUME IInv, NEW p \in Process, NEW where \in {"check", "main", "exit 0", "exit 1"}, Goto(p, where),
         pc[p] = "parent" => where = "exit 0", pc[p] \in {"parent", "fork", "check"},
         where = "exit 0" => pc[p] = "parent", UNCHANGED <<cnt, daemon, argv>>,
         where = "main" => opts_check, where = "exit 1" => ~opts_check
  PROVE  IInv'
  <1>1. /\ pc \in [Process -> {"parse", "fork", "parent", "check"} \cup Settled]
        /\ pc' = [pc EXCEPT ![p] = where]
    BY DEF IInv, Born, Goto
  <1>2. /\ pc' \in [Process -> {"parse", "fork", "parent", "check"} \cup Settled]
        /\ pc'[p] = where /\ \A q \in Process : q # p => pc'[q] = pc[q]
    BY <1>1 DEF Settled
  <1>3. Born'
    BY <1>2 DEF IInv, Born, Process
  <1>4. opts_check' = opts_check
    BY DEF opts_check
  <1>5. ~Parsing /\ ~Parsing'
    BY <1>2, Alone DEF IInv, Parsing, Born, Process
  <1>6. \A q \in Process : pc'[q] = "main" => opts_check
    BY <1>2 DEF IInv, Checked, GoesOn
  <1>7. \A q \in Process : pc'[q] = "exit 1" /\ argv # <<>> => ~opts_check
    BY <1>2 DEF IInv, Checked
  <1>8. Checked'
    BY <1>4, <1>5, <1>6, <1>7 DEF IInv, Checked, GoesOn
  <1> QED
    BY <1>3, <1>8 DEF IInv

LEMMA ForkStep ==
  ASSUME IInv, NEW p \in Process, Fork(p)
  PROVE  IInv'
  <1>1. /\ pc \in [Process -> {"parse", "fork", "parent", "check"} \cup Settled]
        /\ pc[p] = "fork" /\ UNCHANGED <<cnt, daemon, argv>>
        /\ pc' = [pc EXCEPT ![p] = "parent", ![Child(p)] = IF p = "first" THEN "fork" ELSE "check"]
    BY DEF IInv, Born, Fork, opts
  <1>2. p = "first" \/ p = "second"
    BY <1>1 DEF IInv, Born, Process
  <1>3. /\ pc' \in [Process -> {"parse", "fork", "parent", "check"} \cup Settled]
        /\ pc'[p] = "parent" /\ pc'[Child(p)] = (IF p = "first" THEN "fork" ELSE "check")
        /\ \A q \in Process : q # p /\ q # Child(p) => pc'[q] = pc[q]
    BY <1>1, <1>2 DEF Settled, Child, Process
  <1>4. Born'
    BY <1>1, <1>2, <1>3 DEF IInv, Born, Child, Process
  <1>5. Checked'
    BY <1>1, <1>2, <1>3, Alone DEF IInv, Checked, GoesOn, opts_check, Child, Parsing, Process
  <1> QED
    BY <1>4, <1>5 DEF IInv

LEMMA StepStep ==
  ASSUME IInv, NEW p \in Process, Step(p)
  PROVE  IInv'
  <1>1. CASE ForkFails(p)
    BY <1>1, OneMoves DEF ForkFails, opts
  <1>2. CASE ParentExits(p)
    BY <1>2, OneMoves DEF ParentExits, opts
  <1>3. CASE Check(p)
    BY <1>3, OneMoves DEF Check, opts
  <1> QED
    BY <1>1, <1>2, <1>3, ForkStep DEF Step

LEMMA IInvKept == IInv /\ [Next]_vars => IInv'
  <1>1. IInv /\ UNCHANGED vars => IInv'
    <2> SUFFICES ASSUME IInv, UNCHANGED vars PROVE IInv'
      OBVIOUS
    <2>1. UNCHANGED <<pc, cnt, daemon, argv>>
      BY DEF vars, opts
    <2>2. Born'
      BY <2>1 DEF IInv, Born
    <2>3. Checked'
      BY <2>1 DEF IInv, Checked, GoesOn, opts_check, Parsing
    <2> QED
      BY <2>2, <2>3 DEF IInv
  <1> QED
    BY <1>1, ParseStep, StepStep DEF Next, Ended

THEOREM InvariantHolds == Spec => []IInv
  BY InitIInv, IInvKept, PTL DEF Spec
-----------------------------------------------------------------------------
\* One process at most goes on, and no other is left but a parent about to
\* exit; a refusal reaches the shell unless a daemon refuses.
THEOREM OneDoesGoOn == Spec => []OneGoesOn
  <1>1. ASSUME IInv PROVE OneGoesOn
    BY <1>1 DEF IInv, Born, OneGoesOn, GoesOn, Process, Settled
  <1> QED
    BY <1>1, InvariantHolds, PTL

\* A table that asks for no mandatory option "precisely"; the program's own does
\* not, and is a table as the model assumes it.
NonePrecisely(rules) == \A o \in Option : rules[o].max = precisely => rules[o].req = 0

LEMMA OwnTable ==
  NonePrecisely(req_opts) /\ req_opts \in [Option -> [req : Nat, max : Int]]
  BY DEF NonePrecisely, req_opts, not_req, mandatory, at_least, precisely

\* With such a table the program goes on only with options as opts.h documents
\* them, and what has got past the parser is refused only for a rule it breaks.
THEOREM RulesHold ==
  ASSUME NonePrecisely(Rules)
  PROVE  Spec => []RulesAsDocumented
  <1>1. ASSUME IInv PROVE RulesAsDocumented
    <2>1. ASSUME NEW o \in Option
          PROVE  Meets(Rules[o], cnt[o]) <=> Documented(Rules[o], cnt[o])
      <3>1. Rules[o].req \in Nat /\ Rules[o].max \in Int /\ cnt[o] \in Nat
        BY <1>1, RulesAssumption DEF RulesAssumption, IInv, Checked
      <3>2. Rules[o].max = precisely => Rules[o].req = 0
        BY DEF NonePrecisely
      <3> QED
        BY <3>1, <3>2 DEF Meets, Documented, precisely
    <2> QED
      BY <1>1, <2>1 DEF IInv, Checked, opts_check, RulesAsDocumented
  <1> QED
    BY <1>1, InvariantHolds, PTL
-----------------------------------------------------------------------------
(* The words of the line *)

\* The words that options have used, their own and their arguments.
Taken == 2 * (cnt["-d"] + cnt["-v"]) + cnt["-z"]

\* A process that has got past the end of the options.
Beyond == {"fork", "parent", "check", "main"}

\* What the workbench gets is what WorkbenchArgs says, from then on.
Args ==
  /\ Used + Len(argv) - 1 = Words
  /\ SubSeq(argv, Len(argv) - Len(Behind(at)) + 1, Len(argv)) = Behind(at)
  /\ Operands(argv, Len(argv) - 1 - Len(Behind(at)))
  /\ Len(argv) > 1 => argv[1] = Marker /\ Marker \in {line[k] : k \in 1..Words}

\* Each operand moved has its place in the line, in their order.
Placed ==
  \E place \in [1..Len(moved) -> 1..at - 1] :
    /\ \A k, l \in 1..Len(moved) : k < l => place[k] < place[l]
    /\ \A k \in 1..Len(moved) : moved[k] = line[place[k]] /\ ~IsArgument(place[k])

\* Every word passed is one of an option or is kept for the workbench.
Scanned ==
  /\ line \in Seq(Word) /\ Words <= MaxWords
  /\ at \in 1..Words + 1 /\ moved \in Seq(Text) /\ adapter_strs \in Seq(Word)
  /\ last = Program \/ \E k \in 1..Words : last = line[k]
  /\ cnt \in [Option -> Nat] /\ \A o \in Option : cnt[o] < at
  /\ daemon \in BOOLEAN /\ argv \in Seq(Word \cup {Program})
  /\ Parsing => Taken + Len(moved) = at - 1 /\ ~IsArgument(at)
  /\ Placed
  /\ (\E p \in Process : pc[p] \in Beyond) => Args

LEMMA InitScanned == Init => Scanned
  <1> SUFFICES ASSUME Init PROVE Scanned
    OBVIOUS
  <1>1. PICK n \in 0..MaxWords : line \in [1..n -> Word]
    BY DEF Init
  <1>2. n \in Nat /\ n <= MaxWords
    BY TextAssumption DEF TextAssumption
  <1>3. line \in Seq(Word) /\ Words = n
    BY <1>1, <1>2 DEF Words
  <1>4. /\ at = 1 /\ moved = <<>> /\ last = Program /\ cnt = [o \in Option |-> 0]
        /\ adapter_strs = <<>> /\ argv = <<>>
        /\ pc = [p \in Process |-> IF p = "first" THEN "parse" ELSE "unborn"]
    BY DEF Init
  <1>5. daemon \in BOOLEAN
    BY DEF Init
  <1>6. <<>> \in Seq(Text) /\ <<>> \in Seq(Word) /\ <<>> \in Seq(Word \cup {Program}) /\ Len(<<>>) = 0
    OBVIOUS
  <1>7. Taken = 0
    BY <1>4 DEF Taken, Option, WithArgument
  <1>8. \A p \in Process : pc[p] \notin Beyond
    BY <1>4 DEF Beyond, Process
  <1>9. Placed
    <2>1. [k \in 1..0 |-> 1] \in [1..0 -> 1..at - 1] /\ 1..0 = {}
      OBVIOUS
    <2> QED
      BY <1>4, <1>6, <2>1 DEF Placed
  <1>10. ~IsArgument(at)
    BY <1>4 DEF IsArgument
  <1> QED
    BY <1>2, <1>3, <1>4, <1>5, <1>6, <1>7, <1>8, <1>9, <1>10 DEF Scanned

\* The word behind one that is no option with an argument is no argument, and
\* neither is that behind such an option's argument.
LEMMA NextWord ==
  ASSUME NEW k \in Nat \ {0}, ~IsArgument(k)
  PROVE  /\ line[k] \notin WithArgument => ~IsArgument(k + 1)
         /\ line[k] \in WithArgument => ~IsArgument(k + 2)
  <1>1. ASSUME IsArgument(k + 1), line[k] \notin WithArgument PROVE FALSE
    BY <1>1 DEF IsArgument
  <1>2. ASSUME IsArgument(k + 2), line[k] \in WithArgument PROVE FALSE
    <2>1. PICK j \in 1..k + 1 :
            /\ (k + 2 - j) % 2 = 1 /\ \A m \in j..k + 1 : line[m] \in WithArgument
            /\ j > 1 => line[j - 1] \notin WithArgument
      BY <1>2 DEF IsArgument
    <2>2. j # k + 1
      BY <1>2, <2>1
    <2>3. j # k
      BY <2>1
    <2>4. j \in 1..k - 1 /\ (k - j) % 2 = 1
      BY <2>1, <2>2, <2>3
    <2>5. \A m \in j..k - 1 : line[m] \in WithArgument
      BY <2>1
    <2> QED
      BY <2>1, <2>4, <2>5 DEF IsArgument
  <1> QED
    BY <1>1, <1>2

\* Going on in the line leaves the operands at their places.
LEMMA PlacedKept ==
  ASSUME Placed, UNCHANGED <<line, moved>>, at \in Int, at' \in Int, at <= at'
  PROVE  Placed'
  <1>1. PICK place \in [1..Len(moved) -> 1..at - 1] :
          /\ \A k, l \in 1..Len(moved) : k < l => place[k] < place[l]
          /\ \A k \in 1..Len(moved) : moved[k] = line[place[k]] /\ ~IsArgument(place[k])
    BY DEF Placed
  <1>2. place \in [1..Len(moved') -> 1..at' - 1]
    BY <1>1
  <1>3. \A k : IsArgument(k)' <=> IsArgument(k)
    BY DEF IsArgument
  <1> QED
    BY <1>1, <1>2, <1>3 DEF Placed

\* What the options have used is a number of words.
LEMMA TakenNumber ==
  ASSUME cnt \in [Option -> Nat]
  PROVE  /\ cnt["-d"] \in Nat /\ cnt["-v"] \in Nat /\ cnt["-z"] \in Nat /\ Taken \in Nat
         /\ {"-d", "-v", "-z"} \subseteq Option
  <1>1. {"-d", "-v", "-z"} \subseteq Option
    BY DEF Option, WithArgument
  <1>2. cnt["-d"] \in Nat /\ cnt["-v"] \in Nat /\ cnt["-z"] \in Nat
    BY <1>1
  <1> QED
    BY <1>1, <1>2 DEF Taken

\* An option and its argument are passed.
LEMMA OptionScanned ==
  ASSUME Scanned, Parsing, NEW o \in Option, Count(o), NEW n \in {1, 2}, Pass(n), at + n <= Words + 1,
         line[at] = o,
         UNCHANGED <<line, argv>>, adapter_strs' \in Seq(Word), daemon' \in BOOLEAN,
         \A p \in Process : pc'[p] \notin Beyond,
         Parsing' => (o \in {"-d", "-v"} /\ n = 2) \/ (o = "-z" /\ n = 1)
  PROVE  Scanned'
  <1>1. /\ line \in Seq(Word) /\ Words \in Nat /\ Words' = Words /\ Words <= MaxWords /\ at \in 1..Words + 1
        /\ moved \in Seq(Text) /\ Len(moved) \in Nat /\ cnt \in [Option -> Nat] /\ argv' = argv
    BY DEF Scanned, Words
  <1>2. at' = at + n /\ last' = line[at + n - 1] /\ moved' = moved /\ at + n - 1 \in 1..Words
    BY <1>1 DEF Pass
  <1>3. cnt' = [cnt EXCEPT ![o] = cnt[o] + 1]
    BY DEF Count
  <1>4. cnt' \in [Option -> Nat] /\ \A q \in Option : cnt'[q] < at'
    <2>1. cnt' \in [Option -> Nat]
      BY <1>1, <1>3
    <2>2. ASSUME NEW q \in Option PROVE cnt'[q] < at'
      <3>1. cnt[q] \in Nat /\ cnt[q] < at /\ at \in Nat
        BY <1>1 DEF Scanned
      <3>2. cnt'[q] = cnt[q] + 1 \/ cnt'[q] = cnt[q]
        BY <1>1, <1>3
      <3>3. at' = at + n /\ n >= 1 /\ n \in Nat
        BY <1>2
      <3> QED
        BY <3>1, <3>2, <3>3
    <2> QED
      BY <2>1, <2>2
  <1>5. Parsing' => Taken' + Len(moved') = at' - 1
    <2> SUFFICES ASSUME Parsing' PROVE Taken' + Len(moved') = at' - 1
      OBVIOUS
    <2> DEFINE d == cnt["-d"]
               v == cnt["-v"]
               z == cnt["-z"]
    <2>1. {"-d", "-v", "-z"} \subseteq Option /\ d \in Nat /\ v \in Nat /\ z \in Nat
      BY <1>1, TakenNumber
    <2>2. 2 * (d + v) + z + Len(moved) = at - 1
      BY DEF Scanned, Taken
    <2>3. /\ cnt'["-d"] = IF o = "-d" THEN d + 1 ELSE d
          /\ cnt'["-v"] = IF o = "-v" THEN v + 1 ELSE v
          /\ cnt'["-z"] = IF o = "-z" THEN z + 1 ELSE z
      BY <1>1, <1>3, <2>1
    <2>4. Taken' = 2 * (cnt'["-d"] + cnt'["-v"]) + cnt'["-z"]
      BY DEF Taken
    <2> HIDE DEF d, v, z
    <2>5. Taken' = 2 * (d + v) + z + n
      <3>1. CASE o = "-d" /\ n = 2
        <4>1. cnt'["-d"] = d + 1 /\ cnt'["-v"] = v /\ cnt'["-z"] = z
          BY <2>3, <3>1
        <4> QED
          BY <2>1, <2>4, <3>1, <4>1
      <3>2. CASE o = "-v" /\ n = 2
        <4>1. cnt'["-d"] = d /\ cnt'["-v"] = v + 1 /\ cnt'["-z"] = z
          BY <2>3, <3>2
        <4> QED
          BY <2>1, <2>4, <3>2, <4>1
      <3>3. CASE o = "-z" /\ n = 1
        <4>1. cnt'["-d"] = d /\ cnt'["-v"] = v /\ cnt'["-z"] = z + 1
          BY <2>3, <3>3
        <4> QED
          BY <2>1, <2>4, <3>3, <4>1
      <3> QED
        BY <3>1, <3>2, <3>3
    <2>6. at \in Int /\ n \in Int /\ Len(moved) \in Int
      BY <1>1
    <2>7. at' = at + n /\ Len(moved') = Len(moved)
      BY <1>2
    <2> QED
      BY <2>1, <2>2, <2>5, <2>6, <2>7
  <1>6. Parsing' => ~IsArgument(at)'
    <2> SUFFICES ASSUME Parsing' PROVE ~IsArgument(at)'
      OBVIOUS
    <2>1. at \in Nat \ {0} /\ ~IsArgument(at)
      BY <1>1 DEF Scanned
    <2>2. ~IsArgument(at + n)
      BY <2>1, NextWord DEF WithArgument
    <2>3. at' = at + n /\ line' = line
      BY <1>2
    <2> QED
      BY ONLY <2>2, <2>3 DEF IsArgument
  <1>7. Placed'
    BY <1>1, <1>2, PlacedKept DEF Scanned
  <1> QED
    BY <1>1, <1>2, <1>4, <1>5, <1>6, <1>7 DEF Scanned

\* Nothing of the line changes, and nobody gets past the end of the options.
LEMMA NothingScanned ==
  ASSUME Scanned, UNCHANGED <<line, scan, opts, argv>>,
         ~Parsing' \/ UNCHANGED pc,
         (\E p \in Process : pc'[p] \in Beyond) => \E p \in Process : pc[p] \in Beyond
  PROVE  Scanned'
  <1>1. UNCHANGED <<line, at, moved, last, cnt, daemon, adapter_strs, argv>>
    BY DEF scan, opts
  <1>2. UNCHANGED <<Words, Taken, Args, Placed>>
    BY <1>1 DEF Words, Taken, Args, Used, Behind, Operands, IsArgument, Placed
  <1>3. Parsing' => Parsing
    BY DEF Parsing
  <1>4. IsArgument(at)' <=> IsArgument(at)
    BY <1>1 DEF IsArgument
  <1> QED
    BY <1>1, <1>2, <1>3, <1>4 DEF Scanned

\* The parts of sequences the line is taken apart into.
LEMMA RestOfLine ==
  ASSUME NEW s \in Seq(Word), NEW n \in 1..Len(s) + 1
  PROVE  /\ SubSeq(s, n + 1, Len(s)) \in Seq(Word)
         /\ Len(SubSeq(s, n + 1, Len(s))) = IF n <= Len(s) THEN Len(s) - n ELSE 0
  <1>1. CASE n <= Len(s)
    BY <1>1
  <1>2. CASE ~(n <= Len(s))
    <2>1. SubSeq(s, n + 1, Len(s)) = <<>>
      BY <1>2
    <2>2. <<>> \in Seq(Word) /\ Len(<<>>) = 0
      OBVIOUS
    <2> QED
      BY <1>2, <2>1, <2>2
  <1> QED
    BY <1>1, <1>2

LEMMA Joined ==
  ASSUME NEW W, NEW s \in Seq(W), NEW t \in Seq(W)
  PROVE  /\ s \o t \in Seq(W) /\ Len(s \o t) = Len(s) + Len(t)
         /\ \A k \in 1..Len(t) : (s \o t)[Len(s) + k] = t[k]
  OBVIOUS

LEMMA EndOf ==
  ASSUME NEW W, NEW s \in Seq(W), NEW l \in Nat, l <= Len(s)
  PROVE  /\ SubSeq(s, Len(s) - l + 1, Len(s)) \in Seq(W)
         /\ Len(SubSeq(s, Len(s) - l + 1, Len(s))) = l
         /\ \A k \in 1..l : SubSeq(s, Len(s) - l + 1, Len(s))[k] = s[Len(s) - l + k]
  <1> DEFINE m == Len(s) - l + 1
  <1>1. m \in 1..Len(s) + 1 /\ Len(s) \in Nat /\ 1 + Len(s) - m = l
    OBVIOUS
  <1>2. \A k \in 1..l : k + m - 1 = Len(s) - l + k /\ k + m - 1 \in 1..Len(s)
    OBVIOUS
  <1>3. SubSeq(s, m, Len(s)) \in Seq(W) /\ Len(SubSeq(s, m, Len(s))) = 1 + Len(s) - m
        /\ \A k \in 1..1 + Len(s) - m : SubSeq(s, m, Len(s))[k] = s[k + m - 1]
    <2> HIDE DEF m
    <2> QED
      BY <1>1
  <1> QED
    BY <1>1, <1>2, <1>3

LEMMA EndIs ==
  ASSUME NEW W, NEW a \in Seq(W), NEW b \in Seq(W), NEW n \in Nat, Len(a) = n + Len(b),
         \A k \in 1..Len(b) : a[n + k] = b[k]
  PROVE  SubSeq(a, Len(a) - Len(b) + 1, Len(a)) = b
  <1> DEFINE t == SubSeq(a, Len(a) - Len(b) + 1, Len(a))
  <1>1. Len(b) \in Nat /\ Len(b) <= Len(a) /\ Len(a) - Len(b) = n
    OBVIOUS
  <1>2. t \in Seq(W) /\ Len(t) = Len(b) /\ \A k \in 1..Len(b) : t[k] = a[Len(a) - Len(b) + k]
    BY <1>1, EndOf
  <1> HIDE DEF t
  <1>3. t = b
    BY <1>1, <1>2, SeqEqual
  <1> QED
    BY <1>3 DEF t

LEMMA RestShape ==
  ASSUME NEW W, NEW s \in Seq(W), NEW m \in Seq(W), NEW b \in Seq(W)
  PROVE  LET a == s \o (m \o b)
         IN  /\ m \o b \in Seq(W) /\ Len(m \o b) = Len(m) + Len(b)
             /\ a \in Seq(W) /\ Len(a) = Len(s) + Len(m \o b)
             /\ SubSeq(a, Len(a) - Len(b) + 1, Len(a)) = b
             /\ s # <<>> => a[1] = s[1]
             /\ \A k \in 1..Len(m) : a[Len(s) + k] = m[k]
  <1> DEFINE r == m \o b
             a == s \o r
             n == Len(s) + Len(m)
  <1>1. r \in Seq(W)
    BY Joined
  <1>2. Len(r) = Len(m) + Len(b) /\ \A k \in 1..Len(b) : r[Len(m) + k] = b[k]
    BY Joined, Zenon
  <1> HIDE DEF r
  <1>3. a \in Seq(W)
    BY <1>1, Joined
  <1>4. Len(a) = Len(s) + Len(r) /\ \A k \in 1..Len(r) : a[Len(s) + k] = r[k]
    BY <1>1, Joined, Zenon
  <1>5. s # <<>> => a[1] = s[1]
    <2> SUFFICES ASSUME s # <<>> PROVE a[1] = s[1]
      OBVIOUS
    <2>1. Len(s) \in Nat \ {0} /\ Len(r) \in Nat
      BY <1>1, EmptySeq
    <2>2. 1 \in 1..Len(s) + Len(r) /\ 1 <= Len(s)
      BY <2>1
    <2> QED
      BY <1>1, <2>2, ConcatProperties
  <1> HIDE DEF a
  <1>6. Len(m) \in Nat /\ Len(b) \in Nat /\ Len(s) \in Nat /\ n \in Nat /\ Len(a) = n + Len(b)
    BY <1>2, <1>4
  <1>7. ASSUME NEW k \in 1..Len(b) PROVE a[n + k] = b[k]
    <2>1. Len(m) + k \in 1..Len(r) /\ Len(s) + (Len(m) + k) = n + k
      BY <1>2, <1>6
    <2> QED
      BY <1>2, <1>4, <2>1
  <1> HIDE DEF n
  <1>8. SubSeq(a, Len(a) - Len(b) + 1, Len(a)) = b
    BY <1>3, <1>6, <1>7, EndIs
  <1>9. ASSUME NEW k \in 1..Len(m) PROVE a[Len(s) + k] = m[k]
    <2>1. k \in 1..Len(r)
      BY <1>2, <1>6
    <2>2. r[k] = m[k]
      <3>1. k \in 1..Len(m) + Len(b)
        BY <1>6
      <3> QED
        BY <1>6, ConcatProperties DEF r
    <2> QED
      BY <1>4, <2>1, <2>2
  <1> QED
    BY <1>1, <1>2, <1>3, <1>4, <1>5, <1>8, <1>9, Zenon DEF a, r

\* What is left of the line is as the workbench should have it.
LEMMA RestRight ==
  ASSUME Scanned, Parsing, at <= Words => line[at] = Marker,
         UNCHANGED <<line, scan, opts>>,
         LET rest == moved \o SubSeq(line, at + 1, Words)
         IN  (rest = <<>> \/ Remaining(rest)[1] = Marker) /\ argv' = Remaining(rest)
  PROVE  Args' /\ argv' \in Seq(Word \cup {Program})
  <1> DEFINE b == SubSeq(line, at + 1, Words)
             rest == moved \o b
             x == IF at <= Words THEN Marker ELSE last
             W == Word \cup {Program}
  <1>1. /\ line \in Seq(Word) /\ Words \in Nat /\ at \in 1..Words + 1 /\ Words = Len(line)
        /\ moved \in Seq(Text) /\ Len(moved) \in Nat /\ cnt \in [Option -> Nat]
    BY DEF Scanned, Words
  <1>2. b \in Seq(Word) /\ Len(b) = (IF at <= Words THEN Words - at ELSE 0) /\ Len(b) \in Nat
    BY <1>1, RestOfLine
  <1>3. x \in W
    BY <1>1 DEF Scanned, Word
  <1>4. argv' = <<x>> \o rest /\ (rest = <<>> \/ (<<x>> \o rest)[1] = Marker)
    BY DEF Remaining
  <1>5. UNCHANGED <<line, at, moved, last, cnt, daemon, adapter_strs>>
    BY DEF scan, opts
  <1>6. Words' = Words /\ Behind(at)' = b
    BY <1>5 DEF Words, Behind
  <1> HIDE DEF b, W, x
  <1>7. moved \in Seq(W) /\ b \in Seq(W)
    BY <1>1, <1>2 DEF W, Word
  <1>8. /\ argv' \in Seq(W) /\ Len(argv') = 1 + Len(moved) + Len(b) /\ argv'[1] = x
        /\ SubSeq(argv', Len(argv') - Len(b) + 1, Len(argv')) = b
        /\ (rest # <<>>) <=> (Len(argv') > 1)
        /\ \A k \in 1..Len(moved) : argv'[1 + k] = moved[k]
    <2> DEFINE h == <<x>>
    <2>1. h \in Seq(W)
      BY <1>3
    <2>2. Len(h) = 1 /\ h[1] = x /\ h # <<>> /\ argv' = h \o (moved \o b)
      BY <1>4
    <2> HIDE DEF h
    <2>3. /\ moved \o b \in Seq(W) /\ Len(moved \o b) = Len(moved) + Len(b)
          /\ h \o (moved \o b) \in Seq(W) /\ Len(h \o (moved \o b)) = Len(h) + Len(moved \o b)
          /\ SubSeq(h \o (moved \o b), Len(h \o (moved \o b)) - Len(b) + 1, Len(h \o (moved \o b))) = b
          /\ h # <<>> => (h \o (moved \o b))[1] = h[1]
          /\ \A k \in 1..Len(moved) : (h \o (moved \o b))[Len(h) + k] = moved[k]
      <3> HIDE DEF rest
      <3> QED
        BY ONLY <1>7, <2>1, RestShape
    <2>4. rest = moved \o b
      OBVIOUS
    <2> HIDE DEF rest
    <2>5. /\ rest \in Seq(W) /\ Len(rest) = Len(moved) + Len(b)
          /\ argv' \in Seq(W) /\ Len(argv') = Len(h) + Len(rest)
          /\ SubSeq(argv', Len(argv') - Len(b) + 1, Len(argv')) = b
          /\ argv'[1] = x
          /\ \A k \in 1..Len(moved) : argv'[1 + k] = moved[k]
      BY <2>2, <2>3, <2>4, Zenon
    <2>6. Len(rest) \in Nat /\ Len(h) = 1 /\ Len(argv') = Len(h) + Len(rest)
      BY <2>2, <2>5
    <2>7. Len(argv') = 1 + Len(moved) + Len(b)
      <3> DEFINE q == Len(rest)
                 p == Len(moved)
                 k == Len(b)
      <3>1. p \in Nat /\ k \in Nat /\ q = p + k /\ Len(argv') = 1 + q
        BY <1>1, <1>2, <2>5, <2>6
      <3> HIDE DEF p, k, q
      <3>2. Len(argv') = 1 + p + k
        BY <3>1
      <3> QED
        BY <3>2 DEF p, k
    <2>8. (rest # <<>>) <=> (Len(argv') > 1)
      <3>1. rest # <<>> <=> Len(rest) # 0
        BY <2>5, EmptySeq
      <3> QED
        BY <2>6, <3>1
    <2> QED
      BY <2>5, <2>7, <2>8, Zenon
  <1> HIDE DEF rest
  <1>9. Used' + Len(argv') - 1 = Words'
    <2>1. Taken + Len(moved) = at - 1
      BY DEF Scanned
    <2>2. Taken \in Nat
      BY <1>1, TakenNumber
    <2>3. Used' = Taken + (IF at <= Words THEN 1 ELSE 0)
      BY <1>5, <1>6 DEF Used, Taken
    <2>4. at \in Nat /\ at <= Words + 1 /\ Words \in Nat /\ Len(moved) \in Nat
      BY <1>1
    <2>5. Len(argv') = 1 + Len(moved) + Len(b) /\ Words' = Words
      BY <1>6, <1>8
    <2> DEFINE n == Len(argv')
               k == Len(b)
               q == Len(moved)
    <2>6. k \in Nat /\ k = IF at <= Words THEN Words - at ELSE 0
      BY <1>2
    <2> HIDE DEF n, k, q
    <2>7. Used' + n - 1 = Words
      <3>1. n = 1 + q + k /\ Taken + q = at - 1 /\ q \in Nat
        BY <2>1, <2>4, <2>5 DEF n, k, q
      <3>2. CASE at <= Words
        BY <2>2, <2>3, <2>4, <2>6, <3>1, <3>2
      <3>3. CASE ~(at <= Words)
        BY <2>2, <2>3, <2>4, <2>6, <3>1, <3>3
      <3> QED
        BY <3>2, <3>3
    <2> QED
      BY <2>5, <2>7 DEF n
  <1>10. Len(argv') > 1 => argv'[1] = Marker /\ Marker \in {line[k] : k \in 1..Words}
    <2> SUFFICES ASSUME Len(argv') > 1 PROVE x = Marker /\ \E k \in 1..Words : line[k] = Marker
      BY <1>8
    <2>1. rest # <<>>
      BY <1>8
    <2>2. x = Marker
      BY <1>4, <1>8, <2>1
    <2>3. Marker # Program
      BY DEF Marker, Program
    <2> QED
      BY <1>1, <2>2, <2>3 DEF Scanned, x
  <1>11. Operands(argv, Len(argv) - 1 - Len(Behind(at)))'
    <2>1. PICK place \in [1..Len(moved) -> 1..at - 1] :
            /\ \A k, l \in 1..Len(moved) : k < l => place[k] < place[l]
            /\ \A k \in 1..Len(moved) : moved[k] = line[place[k]] /\ ~IsArgument(place[k])
      BY DEF Scanned, Placed
    <2>2. Len(argv') - 1 - Len(b) = Len(moved)
      <3> DEFINE n == Len(argv')
                 k == Len(b)
                 q == Len(moved)
      <3>1. n = 1 + q + k /\ q \in Nat /\ k \in Nat
        BY <1>1, <1>2, <1>8
      <3> HIDE DEF n, k, q
      <3>2. n - 1 - k = q
        BY <3>1
      <3> QED
        BY <3>2 DEF n, k, q
    <2>3. \A k \in 1..Len(moved) : k \in Nat /\ k + 1 = 1 + k
      BY <1>1
    <2>4. \A k \in 1..Len(moved) : argv'[k + 1] = line[place[k]] /\ ~IsArgument(place[k])
      BY <1>8, <2>1, <2>3
    <2>5. \A k : IsArgument(k)' <=> IsArgument(k)
      BY <1>5 DEF IsArgument
    <2> DEFINE P == [1..Len(moved) -> 1..at - 1]
               Places(p) == /\ \A k, l \in 1..Len(moved) : k < l => p[k] < p[l]
                            /\ \A k \in 1..Len(moved) :
                                  argv'[k + 1] = line[p[k]] /\ ~IsArgument(p[k])'
    <2>6. Places(place)
      BY <2>1, <2>4, <2>5
    <2>7. \E p \in P : Places(p)
      <3> HIDE DEF Places
      <3> QED
        BY <2>1, <2>6
    <2>8. Operands(argv, Len(argv) - 1 - Len(Behind(at)))' <=> \E p \in P : Places(p)
      BY ONLY <1>5, <1>6, <2>2 DEF Operands
    <2> QED
      BY <2>7, <2>8
  <1> QED
    BY <1>5, <1>6, <1>8, <1>9, <1>10, <1>11 DEF Args, W

\* While the options are parsed nobody is past their end, and none is then if
\* the first process stays or exits.
LEMMA NobodyBeyond ==
  ASSUME Born, Parsing, UNCHANGED pc \/ Goto("first", "exit 0") \/ Goto("first", "exit 1")
  PROVE  (\A p \in Process : pc'[p] \notin Beyond) /\ (~Parsing' \/ UNCHANGED pc)
  <1>1. \A p \in Process : pc[p] \in {"parse", "unborn"}
    BY Alone
  <1>2. CASE UNCHANGED pc
    BY <1>1, <1>2 DEF Beyond
  <1>3. ASSUME NEW where \in {"exit 0", "exit 1"}, Goto("first", where)
        PROVE  (\A p \in Process : pc'[p] \notin Beyond) /\ ~Parsing'
    <2>1. pc' = [pc EXCEPT !["first"] = where] /\ "first" \in DOMAIN pc /\ DOMAIN pc = Process
      BY <1>3 DEF Goto, Born, Process
    <2>2. pc'["first"] = where /\ \A p \in Process : pc'[p] \in {"parse", "unborn", where}
      BY <1>1, <2>1
    <2> QED
      BY <2>2 DEF Beyond, Parsing
  <1> QED
    BY <1>2, <1>3

LEMMA OptionActions ==
  ASSUME Born, Scanned, AddAdapter \/ SetLogLevel \/ SetDaemon \/ Inform
  PROVE  Scanned'
  <1>1. /\ Parsing /\ at <= Words /\ line \in Seq(Word) /\ Words = Len(line) /\ Words \in Nat /\ at \in 1..Words
        /\ adapter_strs \in Seq(Word) /\ daemon \in BOOLEAN /\ line[at] \in Option
    BY DEF Scanned, Words, AddAdapter, SetLogLevel, SetDaemon, Inform, AtWord, Option, WithArgument
  <1>2. CASE AddAdapter
    <2>1. /\ Count("-d") /\ "-d" \in Option /\ line[at] = "-d" /\ Pass(2) /\ at < Words
          /\ adapter_strs' = Append(adapter_strs, line[at + 1])
          /\ UNCHANGED <<line, daemon, argv, pc>>
      BY <1>2 DEF AddAdapter, AtWord, HasArgument, Argument, Option, WithArgument
    <2>2. at + 2 <= Words + 1 /\ at + 1 \in 1..Words
      BY <1>1, <2>1
    <2>3. adapter_strs' \in Seq(Word)
      BY <1>1, <2>1, <2>2
    <2>4. \A p \in Process : pc'[p] \notin Beyond
      BY <1>1, <2>1, NobodyBeyond
    <2> QED
      BY <1>1, <2>1, <2>2, <2>3, <2>4, OptionScanned
  <1>3. CASE SetLogLevel
    <2>1. /\ Count("-v") /\ "-v" \in Option /\ line[at] = "-v" /\ Pass(2) /\ at < Words
          /\ UNCHANGED <<line, daemon, adapter_strs, argv, pc>>
      BY <1>3 DEF SetLogLevel, AtWord, HasArgument, Option, WithArgument
    <2>2. at + 2 <= Words + 1
      BY <1>1, <2>1
    <2>3. \A p \in Process : pc'[p] \notin Beyond
      BY <1>1, <2>1, NobodyBeyond
    <2> QED
      BY <1>1, <2>1, <2>2, <2>3, OptionScanned
  <1>4. CASE SetDaemon
    <2>1. /\ Count("-z") /\ "-z" \in Option /\ line[at] = "-z" /\ Pass(1) /\ daemon' \in BOOLEAN
          /\ UNCHANGED <<line, adapter_strs, argv, pc>>
      BY <1>4 DEF SetDaemon, AtWord, Option
    <2>2. at + 1 <= Words + 1
      BY <1>1
    <2>3. \A p \in Process : pc'[p] \notin Beyond
      BY <1>1, <2>1, NobodyBeyond
    <2> QED
      BY <1>1, <2>1, <2>2, <2>3, OptionScanned
  <1>5. CASE Inform
    <2>1. /\ Count(line[at]) /\ Pass(1) /\ Goto("first", "exit 0")
          /\ UNCHANGED <<line, daemon, adapter_strs, argv>>
      BY <1>5 DEF Inform, opts_help
    <2>2. at + 1 <= Words + 1
      BY <1>1
    <2>3. (\A p \in Process : pc'[p] \notin Beyond) /\ ~Parsing'
      <3>1. pc'["first"] = "exit 0"
        BY <2>1 DEF Goto, Born, Process
      <3> QED
        BY <1>1, <2>1, <3>1, NobodyBeyond DEF Parsing
    <2> QED
      BY <1>1, <2>1, <2>2, <2>3, OptionScanned
  <1> QED
    BY <1>2, <1>3, <1>4, <1>5

LEMMA OperandScanned ==
  ASSUME Born, Scanned, MoveOperand
  PROVE  Scanned'
  <1>1. /\ line \in Seq(Word) /\ Words \in Nat /\ Words = Len(line) /\ at \in 1..Words /\ line[at] \in Text
        /\ moved \in Seq(Text) /\ Len(moved) \in Nat /\ Parsing /\ cnt \in [Option -> Nat]
    BY DEF Scanned, Words, MoveOperand, AtWord
  <1>2. /\ at' = at + 1 /\ moved' = Append(moved, line[at])
        /\ UNCHANGED <<line, last, cnt, daemon, adapter_strs, argv, pc>>
    BY DEF MoveOperand, opts
  <1>3. Words' = Words /\ Taken' = Taken
    BY <1>2 DEF Words, Taken
  <1>4. moved' \in Seq(Text) /\ Len(moved') = Len(moved) + 1
    BY <1>1, <1>2
  <1>5. Taken' + Len(moved') = at' - 1
    <2>1. Taken \in Nat
      BY <1>1, TakenNumber
    <2>2. Taken + Len(moved) = at - 1 /\ at \in Int
      BY <1>1 DEF Scanned
    <2> QED
      BY <1>1, <1>2, <1>3, <1>4, <2>1, <2>2
  <1>6. at' \in 1..Words + 1 /\ \A o \in Option : cnt[o] < at'
    <2>1. \A o \in Option : cnt[o] \in Nat /\ cnt[o] < at
      BY DEF Scanned
    <2> QED
      BY <1>1, <1>2, <2>1
  <1>7. \A p \in Process : pc'[p] \notin Beyond
    BY <1>1, <1>2, NobodyBeyond
  <1>8. ~IsArgument(at)'
    <2>1. at \in Nat \ {0} /\ ~IsArgument(at) /\ line[at] \notin WithArgument
      BY <1>1, TextAssumption DEF Scanned, TextAssumption, Option
    <2>2. ~IsArgument(at + 1)
      BY <2>1, NextWord
    <2>3. at' = at + 1 /\ line' = line
      BY <1>2
    <2> QED
      BY ONLY <2>2, <2>3 DEF IsArgument
  <1>9. Placed'
    <2>1. PICK place \in [1..Len(moved) -> 1..at - 1] :
            /\ \A k, l \in 1..Len(moved) : k < l => place[k] < place[l]
            /\ \A k \in 1..Len(moved) : moved[k] = line[place[k]] /\ ~IsArgument(place[k])
      BY DEF Scanned, Placed
    <2> DEFINE n == Len(moved)
               wider == [k \in 1..n + 1 |-> IF k = n + 1 THEN at ELSE place[k]]
    <2>2. n \in Nat /\ at \in Nat \ {0} /\ \A k \in 1..n + 1 : k # n + 1 => k \in 1..n
      BY <1>1
    <2>3. /\ moved'[n + 1] = line[at] /\ \A k \in 1..n : moved'[k] = moved[k]
      BY <1>1, <1>2
    <2>4. Len(moved') = n + 1 /\ at' = at + 1 /\ line' = line
      BY <1>2, <1>4
    <2>5. ~IsArgument(at) /\ \A k : IsArgument(k)' <=> IsArgument(k)
      BY <1>1, <1>2 DEF Scanned, IsArgument
    <2> HIDE DEF n
    <2>6. /\ \A k \in 1..n + 1 : wider[k] \in 1..at
          /\ wider \in [1..n + 1 -> 1..at]
      BY <2>1, <2>2 DEF n
    <2>7. \A k, l \in 1..n + 1 : k < l => wider[k] < wider[l]
      <3> SUFFICES ASSUME NEW k \in 1..n + 1, NEW l \in 1..n + 1, k < l PROVE wider[k] < wider[l]
        OBVIOUS
      <3>1. k \in 1..n /\ wider[k] = place[k] /\ place[k] \in 1..at - 1
        BY <2>1, <2>2 DEF n
      <3>2. CASE l = n + 1
        BY <2>2, <3>1, <3>2
      <3>3. CASE l # n + 1
        <4>1. l \in 1..n /\ wider[l] = place[l]
          BY <2>2, <3>3
        <4> QED
          BY <2>1, <3>1, <4>1 DEF n
      <3> QED
        BY <3>2, <3>3
    <2>8. ASSUME NEW k \in 1..n + 1 PROVE moved'[k] = line[wider[k]] /\ ~IsArgument(wider[k])
      <3>1. CASE k = n + 1
        BY <2>3, <2>5, <3>1
      <3>2. CASE k # n + 1
        BY <2>1, <2>2, <2>3, <3>2 DEF n
      <3> QED
        BY <3>1, <3>2
    <2> HIDE DEF wider
    <2>9. at' - 1 = at
      BY <2>2, <2>4
    <2> QED
      BY <2>4, <2>5, <2>6, <2>7, <2>8, <2>9 DEF Placed
  <1> QED
    BY <1>2, <1>3, <1>4, <1>5, <1>6, <1>7, <1>8, <1>9 DEF Scanned

LEMMA EndScanned ==
  ASSUME Born, Scanned, EndOfOptions
  PROVE  Scanned'
  <1> DEFINE rest == moved \o SubSeq(line, at + 1, Words)
  <1>1. Parsing /\ (at <= Words => line[at] = Marker) /\ UNCHANGED <<line, scan, opts>>
    BY DEF EndOfOptions
  <1>2. CASE rest # <<>> /\ Remaining(rest)[1] # Marker
    <2>1. Goto("first", "exit 1") /\ UNCHANGED argv
      BY <1>2 DEF EndOfOptions, opts_help
    <2> QED
      BY <1>1, <2>1, NobodyBeyond, NothingScanned
  <1>3. CASE ~(rest # <<>> /\ Remaining(rest)[1] # Marker)
    <2>1. argv' = Remaining(rest) /\ Goto("first", IF daemon THEN "fork" ELSE "check")
      BY <1>3 DEF EndOfOptions
    <2>2. Args' /\ argv' \in Seq(Word \cup {Program})
      BY <1>1, <1>3, <2>1, RestRight
    <2>3. ~Parsing'
      BY <2>1 DEF Goto, Born, Process, Parsing
    <2>4. UNCHANGED <<line, at, moved, last, cnt, daemon, adapter_strs>> /\ Words' = Words
      BY <1>1 DEF scan, opts, Words
    <2>5. Placed'
      BY <2>4, PlacedKept DEF Scanned
    <2> QED
      BY <2>2, <2>3, <2>4, <2>5 DEF Scanned
  <1> QED
    BY <1>2, <1>3

LEMMA StepScanned ==
  ASSUME Born, Scanned, NEW p \in Process, Step(p)
  PROVE  Scanned'
  <1>1. pc[p] \in {"fork", "parent", "check"} /\ UNCHANGED <<line, scan, opts, argv>>
    BY DEF Step, Fork, ForkFails, ParentExits, Check
  <1>2. ~Parsing
    BY <1>1, Alone
  <1>3. ~Parsing'
    <2>1. pc["first"] # "parse" /\ "first" \in Process /\ DOMAIN pc = Process
      BY <1>2 DEF Parsing, Born, Process
    <2>2. CASE Fork(p)
      BY <2>1, <2>2 DEF Fork, Parsing
    <2>3. CASE ~Fork(p)
      BY <2>1, <2>3 DEF Step, ForkFails, ParentExits, Check, Goto, Parsing
    <2> QED
      BY <2>2, <2>3
  <1>4. pc[p] \in Beyond
    BY <1>1 DEF Beyond
  <1> QED
    BY <1>1, <1>3, <1>4, NothingScanned

LEMMA ScannedKept == Born /\ Scanned /\ [Next]_vars => Scanned'
  <1> SUFFICES ASSUME Born, Scanned, [Next]_vars PROVE Scanned'
    OBVIOUS
  <1>1. CASE Refuse
    <2>1. Parsing /\ Goto("first", "exit 1") /\ UNCHANGED <<line, scan, opts, argv>>
      BY <1>1 DEF Refuse, AtWord, opts_help
    <2> QED
      BY <2>1, NobodyBeyond, NothingScanned
  <1>2. CASE UNCHANGED vars
    BY <1>2, NothingScanned DEF vars
  <1> QED
    BY <1>1, <1>2, OptionActions, OperandScanned, EndScanned, StepScanned DEF Next, Parse, Ended

LEMMA ScannedHolds == Spec => [](IInv /\ Scanned)
  <1>1. Init => IInv /\ Scanned
    BY InitIInv, InitScanned
  <1>2. (IInv /\ Scanned) /\ [Next]_vars => (IInv /\ Scanned)'
    BY IInvKept, ScannedKept DEF IInv
  <1> QED
    BY <1>1, <1>2, PTL DEF Spec

\* The words read, the counters and the states of the processes are what the
\* code's types allow; no option is counted more often than there are words.
THEOREM TypeCorrect == Spec => []TypeOK
  <1>1. ASSUME IInv, Scanned PROVE TypeOK
    <2>1. /\ line \in Seq(Word) /\ Words \in Nat /\ Words <= MaxWords /\ MaxWords \in Nat /\ at \in 1..Words + 1
          /\ cnt \in [Option -> Nat]
      BY <1>1, TextAssumption DEF Scanned, Words, TextAssumption
    <2>2. cnt \in [Option -> 0..MaxWords]
      <3>1. \A o \in Option : cnt[o] \in Nat /\ cnt[o] < at
        BY <1>1 DEF Scanned
      <3>2. \A o \in Option : cnt[o] \in 0..MaxWords
        BY <2>1, <3>1
      <3> QED
        BY <2>1, <3>2
    <2>3. last \in Word \cup {Program}
      BY <1>1, <2>1 DEF Scanned, Words
    <2> QED
      BY <1>1, <2>1, <2>2, <2>3 DEF TypeOK, Scanned, IInv, Born
  <1> QED
    BY <1>1, ScannedHolds, PTL

\* The workbench gets every word the options have not used, those behind the
\* marker last and in their order, and none if there is no marker.
THEOREM WordsKept == Spec => []WorkbenchArgs
  <1>1. ASSUME Scanned PROVE WorkbenchArgs
    BY <1>1 DEF Scanned, WorkbenchArgs, GoesOn, Beyond, Args
  <1> QED
    BY <1>1, ScannedHolds, PTL
=============================================================================
