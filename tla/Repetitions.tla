----------------------------- MODULE Repetitions ------------------------------
(***************************************************************************)
(* The main program (src/flogsim.cpp): the same experiment again and       *)
(* again.  Every repetition has a collective, a timeline and a choice of   *)
(* failed nodes of its own (lib/fault_injector.cpp), but the metrics, the  *)
(* counters and the sequence numbers are global, and the header of the csv *)
(* table is printed once (src/results_printer.cpp).                        *)
(*                                                                         *)
(* A configuration has five more fields: repeat; faults, the fault         *)
(* injector, "none", "list" or "uniform"; F and robust, for uniform; and   *)
(* seeded, whether --seed is given.                                        *)
(***************************************************************************)
EXTENDS Collective
LOCAL INSTANCE TLC

VARIABLES
  program,  \* "run" until it is "exit"; "refused" by the fault injector, or "abort"
  round,    \* the number of the repetition, i
  metrics,  \* Metrics::map, a function from names
  messages, \* MsgTask::issued()
  lastTree, lastGather, \* end of the last CpuEvent of node 0 with that tag
  senders,  \* Correction::correction_participant
  drawn,    \* what the generator yielded to the gossip of this repetition
  known,    \* what it is known to yield after it was seeded
  header,   \* the set of headers printed: at most one, a set of metrics
  rows      \* the rows printed

mvars == <<program, round, metrics, messages, lastTree, lastGather, senders, drawn, known, header, rows>>

-----------------------------------------------------------------------------
(* The choice of the failed nodes. *)

(* UniformFaults: "There is at most one alive node." *)
Refused(c) == c.faults = "uniform" /\ c.F + Cardinality(c.robust) >= c.P

FailedSets(c) ==
  {nodes \in SUBSET ((0 .. c.P - 1) \ c.robust) : Cardinality(nodes) = c.F}

(* Mutant of Redraw: the generator is seeded once, not in every repetition. *)
RedrawUnseeded(c) == FailedSets(c)

(* reset_seed: with a seed every repetition draws what the first one drew. *)
Redraw(c) == IF c.faults = "uniform" /\ ~ c.seeded THEN FailedSets(c) ELSE {c.failed}

(* The nodes that are drawn are part of the configuration: the command line *)
(* is the same with others.                                                 *)
ASSUME ExperimentsAssumption ==
  \A c \in Configurations :
    /\ {"P", "parallelism", "phases", "receivers", "failed", "faults", "F", "robust"} \subseteq DOMAIN c
    /\ ~ Refused(c) => \A nodes \in {c.failed} \cup FailedSets(c) :
         nodes = c.failed \/ c.faults = "uniform" => [c EXCEPT !.failed = nodes] \in Configurations

-----------------------------------------------------------------------------
(* What the collective records while it runs. *)

(* Task t starts an operation of node 0. *)
OccupiesRoot(t) ==
  /\ CpuFree(0, Clock(t))
  /\ \/ t.type = "SendStart" /\ t.sender = 0 /\ sendGap[0] <= Clock(t)
     \/ t.type = "RecvStart" /\ t.receiver = 0 /\ recvGap[0] <= Clock(t)

LastOperation(t, tag, last) ==
  IF OccupiesRoot(t) /\ t.tag = tag THEN LaterOf(last, Clock(t) + conf.o) ELSE last

Known(name) == IF name \in DOMAIN metrics THEN metrics[name] ELSE 0

(* CheckedCorrection: the nodes that heard from both sides. *)
Corrected == {n \in Node : local[n].left.minRecv < IntMax /\ local[n].right.minRecv < IntMax}
Widest(gaps) == CHOOSE i \in gaps : \A j \in gaps : j <= i

CheckedMetrics ==
  LET left  == Widest({-1} \cup {local[n].left.minRecv - 1 : n \in Corrected})
      right == Widest({-1} \cup {local[n].right.minRecv - 1 : n \in Corrected})
  IN [CorrectedGapLeft |-> left, CorrectedGapRight |-> right,
      CorrectedGap |-> IF Corrected = {} THEN -1 ELSE left + right]

(* metrics[...] += 1 for each of the nodes: none, no metric. *)
Participants(nodes) ==
  IF nodes = {} THEN <<>>
  ELSE [name \in {"CorrectionParticipants"} |-> Known(name) + Cardinality(nodes)]

(* What the phases record when the root finishes. *)
PhaseMetrics(kind) ==
  CASE kind \in {"Tree", "MultiTree"} -> [RootTreeEnd |-> lastTree]
    [] kind = "Gather"                -> [RootGatherEnd |-> lastGather]
    [] kind = "Opportunistic"         -> Participants(senders)
    [] kind = "Checked"               -> CheckedMetrics @@ Participants(Corrected)
    [] OTHER                          -> <<>>

RootMetrics ==
  LET upto[i \in 0 .. Last] ==
        IF i = 0 THEN <<>> ELSE PhaseMetrics(conf.phases[i].kind) @@ upto[i - 1]
  IN upto[Last]

(* Collective::accept(FinishTask) *)
FinishMetrics(t) ==
  IF t.type # "Finish" \/ t.sender \notin worked THEN <<>>
  ELSE [ColouringTime |-> colouredTime] @@ (IF t.sender = 0 THEN RootMetrics ELSE <<>>)

(* store_metrics(), when the loop ends. *)
StoredMetrics == IF status' \in {"done", "limit"} THEN [TotalRuntime |-> totalTime'] ELSE <<>>

Record(t) ==
  /\ metrics' = StoredMetrics @@ FinishMetrics(t) @@ metrics
  /\ messages' = messages + (IF t.type = "SendEnd" THEN 1 ELSE 0)
  /\ lastTree' = LastOperation(t, "TREE", lastTree)
  /\ lastGather' = LastOperation(t, "GATHER", lastGather)
  /\ senders' = senders \cup {u.sender : u \in {v \in queue' : v.type = "SendStart" /\ v.tag \in {"RING_LEFT", "RING_RIGHT"}}}

(* Gossip::post_sends: the number drawn leaves out the sender. *)
Drawn(t) ==
  {IF u.receiver > u.sender THEN u.receiver - 1 ELSE u.receiver :
     u \in {v \in queue' \ queue : t.type = "Idle" /\ v.type = "SendStart" /\ v.tag = "GOSSIP"}}

(* A generator that is seeded alike yields what it yielded before. *)
Draw(t) ==
  /\ drawn' = IF Drawn(t) = {} THEN drawn ELSE Append(drawn, CHOOSE d \in Drawn(t) : TRUE)
  /\ conf.seeded => \A k \in DOMAIN drawn' \cap DOMAIN known : drawn'[k] = known[k]

Simulate ==
  /\ program = "run" /\ status = "running"
  /\ (\E t \in Upcoming : Take(t) /\ Record(t) /\ Draw(t))
  /\ UNCHANGED <<program, round, known, header, rows>>

-----------------------------------------------------------------------------
(* Between two repetitions. *)

(* Metrics::reset_metrics: zero, but still known. *)
ResetMetrics == [name \in DOMAIN metrics |-> 0]

(* Mutant of ResetCounters: messages are counted over all repetitions. *)
KeepCounters == messages

ResetCounters == 0

(* A collective, a timeline and a queue of its own; Sequence goes on. *)
Begin(failed) ==
  /\ conf' = [conf EXCEPT !.failed = failed]
  /\ queue' = {[type |-> IF n \in failed THEN "Failure" ELSE "Init", tag |-> "INIT", time |-> 0,
                seq |-> nextSeq + n, sender |-> n, receiver |-> n] : n \in Node}
  /\ now' = 0 /\ nextSeq' = nextSeq + conf.P
  /\ pending' = [n \in Node |-> FALSE] /\ count' = 0
  /\ wasIdle' = [n \in Node |-> conf.parallelism]
  /\ cpu' = [n \in Node |-> [k \in Thread |-> 0]]
  /\ sendGap' = [n \in Node |-> 0] /\ recvGap' = [n \in Node |-> 0]
  /\ worked' = {} /\ finished' = {} /\ failures' = {} /\ totalTime' = 0
  /\ status' = "running"
  /\ local' = [n \in Node |-> InitialState(n \in FirstReached, Len(conf.receivers[n]))]
  /\ start' = TimeMax
  /\ done' = {} /\ coloured' = {0} /\ colouredTime' = 0

(* The next iteration of the loop of main. *)
Continue ==
  IF round + 1 < conf.repeat
  THEN /\ (\E failed \in Redraw(conf) : Begin(failed))
       /\ round' = round + 1
       /\ metrics' = ResetMetrics /\ messages' = ResetCounters
       /\ lastTree' = 0 /\ lastGather' = 0 /\ senders' = {}
       /\ drawn' = <<>> /\ known' = IF Len(drawn) > Len(known) THEN drawn ELSE known
       /\ UNCHANGED program
  ELSE /\ program' = "exit"
       /\ UNCHANGED <<vars, round, metrics, messages, lastTree, lastGather, senders, drawn, known>>

(* node_stat(), the number of messages and the metrics, and, which is not  *)
(* printed, what was left to chance.                                       *)
Row == [failed |-> conf.failed, drawn |-> drawn, failures |-> Cardinality(failures),
        finished |-> Cardinality(finished \ failures), messages |-> messages, metrics |-> metrics]

(* intro() and results() *)
Report ==
  /\ program = "run" /\ status \in {"done", "limit"}
  /\ rows' = Append(rows, Row)
  /\ header' = IF round = 0 THEN {DOMAIN metrics} ELSE header
  /\ Continue

(* The exception is caught: no row, and the loop goes on. *)
Catch ==
  /\ program = "run" /\ status = "thrown"
  /\ UNCHANGED <<header, rows>>
  /\ Continue

(* An assertion ends the program, that of pop() or of a phase. *)
Abort ==
  /\ program = "run"
  /\ \/ EmptyPop /\ UNCHANGED cvars
     \/ status = "asserted" /\ UNCHANGED vars
  /\ program' = "abort"
  /\ UNCHANGED <<round, metrics, messages, lastTree, lastGather, senders, drawn, known, header, rows>>

RInit ==
  /\ CInit
  /\ program = IF Refused(conf) THEN "refused" ELSE "run"
  /\ round = 0 /\ metrics = <<>> /\ messages = 0
  /\ lastTree = 0 /\ lastGather = 0 /\ senders = {}
  /\ drawn = <<>> /\ known = <<>> /\ header = {} /\ rows = <<>>

Ended == program # "run" /\ UNCHANGED <<vars, mvars>>

RNext == Simulate \/ Report \/ Catch \/ Abort \/ Ended
RSpec == RInit /\ [][RNext]_<<vars, mvars>>

-----------------------------------------------------------------------------
(* What a row says of a metric: a repetition that does not record it prints *)
(* 0 if an earlier one did, and nothing otherwise.                          *)
Value(row, name) == IF name \in DOMAIN row.metrics THEN row.metrics[name] ELSE 0

(* A repetition leaves no trace in the next one: with the same failed nodes *)
(* and the same draws it has the same result, although the sequence numbers *)
(* go on and metrics and counters are global.                               *)
RepetitionsAgree ==
  \A i, j \in DOMAIN rows : rows[i].failed = rows[j].failed /\ rows[i].drawn = rows[j].drawn =>
    /\ [rows[i] EXCEPT !.metrics = <<>>] = [rows[j] EXCEPT !.metrics = <<>>]
    /\ \A name \in DOMAIN rows[i].metrics : Value(rows[i], name) = Value(rows[j], name)

(* With a seed the experiment can be reproduced: all rows are the same, and *)
(* with the header they form a table.  Without one, the header of the first *)
(* repetition may lack a metric that a later one is the first to record.    *)
SeedReproduces ==
  conf.seeded => \A i \in DOMAIN rows : rows[i] = rows[1] /\ header = {DOMAIN rows[i].metrics}
=============================================================================
