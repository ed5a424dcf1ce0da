-------------------------------- MODULE Opts --------------------------------
(***************************************************************************)
(* The command line of EHWE: opts_init, opts_parse, opts_parse_opt,        *)
(* become_daemon and opts_check of src/opts.c under the first half of      *)
(* main.  The words of the line are taken as getopt_long takes them, the   *)
(* rules of req_opts are checked, and a daemon forks twice in between.     *)
(* What is left of the line is for the workbench.  Lifecycle begins where  *)
(* this module ends, with the -d options in adapter_strs.                  *)
(***************************************************************************)
EXTENDS Integers, Sequences

CONSTANTS
  Text,        \* words that are no option and not the marker
  Rules,       \* the table opts_check goes by: req_opts in this program
  MaxWords     \* bound: words of a command line

\* long_options; a long name stands for its letter.
WithArgument == {"-v", "-d"}
Option == WithArgument \cup {"-z", "-D", "-h", "-u", "-V"}
Unknown == "-x"
Marker == "--"
Program == "ehwe"
Word == Option \cup {Unknown, Marker} \cup Text

ASSUME RulesAssumption == Rules \in [Option -> [req : Nat, max : Int]]

ASSUME TextAssumption ==
  /\ Text \cap (Option \cup {Unknown, Marker, Program}) = {}
  /\ MaxWords \in Nat

VARIABLES
  line,          \* the command line, the program's name left out
  at,            \* the word getopt_long is at
  moved,         \* operands it has moved behind the options
  last,          \* the word before: argv[optind - 1]
  cnt,           \* of each option, in req_opts
  daemon,        \* opts.daemon
  adapter_strs,  \* opts.adapter_strs
  argv,          \* what is left for the workbench
  pc             \* of each process: the one the shell started and two forks

scan == <<at, moved, last>>
opts == <<cnt, daemon, adapter_strs>>
vars == <<line, scan, opts, argv, pc>>

Process == {"first", "second", "third"}
Settled == {"unborn", "main", "exit 0", "exit 1"}

\* opts_init: every counter is reset.
Init ==
  /\ line \in UNION {[1..n -> Word] : n \in 0..MaxWords}
  /\ at = 1 /\ moved = <<>> /\ last = Program
  /\ cnt = [o \in Option |-> 0]
  /\ daemon = FALSE /\ adapter_strs = <<>> /\ argv = <<>>
  /\ pc = [p \in Process |-> IF p = "first" THEN "parse" ELSE "unborn"]

Goto(p, where) == pc' = [pc EXCEPT ![p] = where]

\* opts_help prints what its flags ask for and ends the process (ehwe_exit).
opts_help(flag) == Goto("first", IF flag = "HELP_EXIT" THEN "exit 0" ELSE "exit 1")
-----------------------------------------------------------------------------
(* getopt_long and opts_parse_opt *)

Parsing == pc["first"] = "parse"
Words == Len(line)
AtWord(words) == Parsing /\ at <= Words /\ line[at] \in words
HasArgument == at < Words
Argument == line[at + 1]

\* Mutant: the argument is passed over twice.
PassTooFar(n) == at' = at + n + 1 /\ last' = line[at + n - 1] /\ UNCHANGED moved

\* getopt_long passes over n words; the last of them is before what follows.
Pass(n) == at' = at + n /\ last' = line[at + n - 1] /\ UNCHANGED moved
Count(o) == cnt' = [cnt EXCEPT ![o] = @ + 1]

AddAdapter ==
  /\ AtWord({"-d"}) /\ HasArgument
  /\ Count("-d") /\ adapter_strs' = Append(adapter_strs, Argument)
  /\ Pass(2)
  /\ UNCHANGED <<line, daemon, argv, pc>>

SetLogLevel ==
  /\ AtWord({"-v"}) /\ HasArgument
  /\ Count("-v") /\ Pass(2)
  /\ UNCHANGED <<line, daemon, adapter_strs, argv, pc>>

SetDaemon ==
  /\ AtWord({"-z"})
  /\ Count("-z") /\ daemon' = TRUE
  /\ Pass(1)
  /\ UNCHANGED <<line, adapter_strs, argv, pc>>

\* Help, version, documentation: exit with 0, whatever else is on the line.
Inform ==
  /\ AtWord({"-D", "-h", "-u", "-V"})
  /\ Count(line[at]) /\ Pass(1)
  /\ opts_help("HELP_EXIT")
  /\ UNCHANGED <<line, daemon, adapter_strs, argv>>

\* '?': no such option, or no argument for it.
Refuse ==
  /\ AtWord({Unknown} \cup WithArgument)
  /\ line[at] # Unknown => ~HasArgument
  /\ opts_help("HELP_EXIT_ERR")
  /\ UNCHANGED <<line, scan, opts, argv>>

\* An operand is moved behind the options.
MoveOperand ==
  /\ AtWord(Text)
  /\ at' = at + 1 /\ moved' = Append(moved, line[at])
  /\ UNCHANGED <<line, last, opts, argv, pc>>

\* Mutant: the words behind the marker come before the operands moved there.
RemainingRotated(rest) ==
  <<IF at <= Words THEN Marker ELSE last>>
    \o SubSeq(rest, Len(moved) + 1, Len(rest)) \o SubSeq(rest, 1, Len(moved))

\* What is left: argv[optind - 1] and all behind it.
Remaining(rest) == <<IF at <= Words THEN Marker ELSE last>> \o rest

\* opts_parse from the end of the options: what is left has to follow a "--".
EndOfOptions ==
  /\ Parsing /\ (at <= Words => line[at] = Marker)
  /\ LET rest == moved \o SubSeq(line, at + 1, Words)
     IN  IF rest # <<>> /\ Remaining(rest)[1] # Marker
           THEN opts_help("HELP_EXIT_ERR") /\ UNCHANGED argv
           ELSE argv' = Remaining(rest) /\ Goto("first", IF daemon THEN "fork" ELSE "check")
  /\ UNCHANGED <<line, scan, opts>>
-----------------------------------------------------------------------------
(* become_daemon; its result is ignored *)

Child(p) == IF p = "first" THEN "second" ELSE "third"

\* The second process forks again, the third goes on (from the root directory).
Fork(p) ==
  /\ pc[p] = "fork"
  /\ pc' = [pc EXCEPT ![p] = "parent", ![Child(p)] = IF p = "first" THEN "fork" ELSE "check"]
  /\ UNCHANGED <<line, scan, opts, argv>>

ForkFails(p) == pc[p] = "fork" /\ Goto(p, "check") /\ UNCHANGED <<line, scan, opts, argv>>

\* Mutants: the parent polls until its child has exited; it goes on as well.
ParentPolls(p) ==
  /\ pc[p] = "parent"
  /\ IF pc[Child(p)] \in {"exit 0", "exit 1"} THEN Goto(p, "exit 0") ELSE UNCHANGED pc
  /\ UNCHANGED <<line, scan, opts, argv>>
ParentGoesOn(p) ==
  pc[p] = "parent" /\ Goto(p, "check") /\ UNCHANGED <<line, scan, opts, argv>>

ParentExits(p) ==
  pc[p] = "parent" /\ Goto(p, "exit 0") /\ UNCHANGED <<line, scan, opts, argv>>
-----------------------------------------------------------------------------
(* opts_check *)

not_req == 0
mandatory == 1
at_least == 0
precisely == -1

req_opts ==
  [o \in Option |-> [req |-> IF o = "-d" THEN mandatory ELSE not_req,
                     max |-> IF o = "-z" THEN precisely ELSE at_least]]

\* Mutant: one occurrence fewer than required will do.
MeetsLoosely(rule, n) == n + 1 >= rule.req /\ (rule.max > 0 => n <= rule.max)

Meets(rule, n) ==
  /\ ~(n < rule.req)
  /\ ~(rule.max > 0 /\ n > rule.max)
  /\ ~(rule.max = precisely /\ n # rule.max /\ rule.req > 0)

opts_check == \A o \in Option : Meets(Rules[o], cnt[o])

Check(p) ==
  /\ pc[p] = "check"
  /\ Goto(p, IF opts_check THEN "main" ELSE "exit 1")
  /\ UNCHANGED <<line, scan, opts, argv>>

Step(p) == Fork(p) \/ ForkFails(p) \/ ParentExits(p) \/ Check(p)
Parse ==
  \/ AddAdapter \/ SetLogLevel \/ SetDaemon \/ Inform \/ Refuse \/ MoveOperand \/ EndOfOptions
Ended == (\A p \in Process : pc[p] \in Settled) /\ UNCHANGED vars

Next == Parse \/ Ended \/ \E p \in Process : Step(p)

\* Each process runs on.
Fairness == WF_vars(Parse) /\ \A p \in Process : WF_vars(Step(p))
Spec == Init /\ [][Next]_vars /\ Fairness
-----------------------------------------------------------------------------
(* Properties *)

TypeOK ==
  /\ line \in Seq(Word) /\ moved \in Seq(Text) /\ adapter_strs \in Seq(Word)
  /\ at \in 1..Words + 1
  /\ last \in Word \cup {Program}
  /\ cnt \in [Option -> 0..MaxWords]
  /\ daemon \in BOOLEAN
  /\ argv \in Seq(Word \cup {Program})
  /\ pc \in [Process -> {"parse", "fork", "parent", "check"} \cup Settled]

GoesOn(p) == pc[p] = "main"

\* The words behind the k-th; those the options have used; and the argument of
\* an option: an odd number of -d and -v stand in a row before it.
Behind(k) == SubSeq(line, k + 1, Words)
Used == 2 * (cnt["-d"] + cnt["-v"]) + cnt["-z"] + (IF at <= Words THEN 1 ELSE 0)
IsArgument(k) ==
  \E j \in 1..k - 1 :
    /\ (k - j) % 2 = 1 /\ \A m \in j..k - 1 : line[m] \in WithArgument
    /\ j > 1 => line[j - 1] \notin WithArgument

\* n words from the second of s on stand in the line before the end of the
\* options, in the same order, and none of them is an argument.
Operands(s, n) ==
  \E place \in [1..n -> 1..at - 1] :
    /\ \A k, l \in 1..n : k < l => place[k] < place[l]
    /\ \A k \in 1..n : s[k + 1] = line[place[k]] /\ ~IsArgument(place[k])

\* No word is lost, taken twice or put in another place: those the options have
\* not used are the workbench's, first the operands before the end of the
\* options and then the words behind the marker, each in their order; and there
\* are none unless the user has written a "--".
WorkbenchArgs ==
  (\E p \in Process : GoesOn(p)) =>
    /\ Used + Len(argv) - 1 = Words
    /\ SubSeq(argv, Len(argv) - Len(Behind(at)) + 1, Len(argv)) = Behind(at)
    /\ Operands(argv, Len(argv) - 1 - Len(Behind(at)))
    /\ Len(argv) > 1 => argv[1] = Marker /\ Marker \in {line[k] : k \in 1..Words}

\* ehwe takes only options, and what comes after the marker is sent to the
\* workbench: so say opts_parse and the README.  An operand written before the
\* marker is moved behind it by getopt_long, and reaches the workbench too.
OnlyBehindMarker ==
  (\E p \in Process : GoesOn(p)) /\ at <= Words => Tail(argv) = Behind(at)

\* The rule of opts.h for the number of times an option is seen.
Documented(rule, n) ==
  /\ n >= rule.req
  /\ rule.max > 0 => n <= rule.max
  /\ rule.max = precisely /\ rule.req > 0 => n = rule.req

\* The program goes on only with options as documented, and a line that has got
\* past the parser is refused only for a rule it breaks.  With a table that has
\* "precisely" for a mandatory option it is not so: opts_check compares the
\* count with -1 then, and refuses every line.
RulesAsDocumented ==
  /\ (\E p \in Process : GoesOn(p)) => \A o \in Option : Documented(Rules[o], cnt[o])
  /\ (\E p \in Process : pc[p] = "exit 1") /\ argv # <<>> =>
       \E o \in Option : ~Documented(Rules[o], cnt[o])

\* One process at most opens the adapters, and no other is left running then
\* but a parent about to exit; and the shell is told of a refusal, unless the
\* refusing process is a daemon, whose parent has exited with 0.
OneGoesOn ==
  \A p \in Process :
    /\ GoesOn(p) =>
         \A q \in Process \ {p} : pc[q] \in {"unborn", "parent", "exit 0"}
    /\ pc[p] = "exit 1" => pc["first"] = "exit 1" \/ daemon

\* Every process comes to its end or to the workbench, whatever fork does.
Settles == <>[](\A p \in Process : pc[p] \in Settled)
=============================================================================
