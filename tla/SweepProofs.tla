---------------------------- MODULE SweepProofs ----------------------------
(***************************************************************************)
(* For any list of tests, number of runs, sweeps and faults: what is in    *)
(* the manifest, the logs and the summaries that Sweep leaves behind.      *)
(***************************************************************************)
EXTENDS Sweep, FiniteSetTheorems, SequenceTheorems, TLAPS

\* A run may still be started by this process: it is not in "finally", nor over.
Active ==
  \/ pc \in {"command", "hung", "record"}
  \/ pc \in {"open", "fill"} /\ ~finally

\* Where the three loops are.
LoopsAgree ==
  /\ pc = "record" => k <= Last
  /\ pc \notin {"open", "fill"} => ~finally
  /\ pc = "fill" => todo # <<>>
  /\ Active => sweeps >= 1

\* The rows so far of this sweep are those of the runs before the present one.
RowsKeepUp(start) ==
  /\ Active => Len(manifest) = start + k - 1
  /\ finally /\ pending = "ok" => Len(manifest) = start + Last
  /\ pc = "off" /\ ended = "ok" => Len(manifest) = start + Last

\* The header is owed by a sweep that found none and has written no row.
HeaderKept ==
  /\ header \in {0, 1} /\ (manifest # <<>> => header = 1)
  /\ owed <=> Active /\ header = 0

RowsInv ==
  /\ TypeOK
  /\ LoopsAgree
  /\ HeaderKept
  /\ \E start \in 0..Len(manifest) : InOrderFrom(start) /\ RowsKeepUp(start)

\* A run that succeeded and waits for its manifest row.
Waiting(f) ==
  IF pc = "record" /\ code = 0 /\ ~opts.dry /\ f \in LogsOf(TestOf(k)) THEN 1 ELSE 0

\* The row that a torn log is going to lose.
Doomed(f) == IF f \in torn THEN 1 ELSE 0

\* Only the first of the two rows of "loopback" may have been written without the other.
LogsAgree ==
  \A f \in Logs :
    /\ Recorded(f) + Waiting(f) + Doomed(f) <= logs[f] + 2 * short[f]
    /\ f # "load" => logs[f] <= Recorded(f) + Waiting(f) + cut

LogsInv == RowsInv /\ LogsAgree

\* A summary shows the rows of its test, if there are any and nothing else.
ShowsLogs(test) ==
  LogsOf(test) \cap spoilt = {} /\ logs[FirstLog(test)] # 0 =>
    \A f \in LogsOf(test) : summary[f] = logs[f]

\* The summaries that are not to be written any more in this call do.
SummariesFollow ==
  /\ pc \in {"open", "fill"} =>
       \/ todo = <<"rtt", "loopback", "tx">>
       \/ todo = <<"loopback", "tx">> /\ ShowsLogs("rtt")
       \/ todo = <<"tx">> /\ ShowsLogs("rtt") /\ ShowsLogs("loopback")
       \/ todo = <<>> /\ ShowsLogs("rtt") /\ ShowsLogs("loopback") /\ ShowsLogs("tx")
  /\ SummariesAreCurrent

SummaryInv == RowsInv /\ SummariesFollow

\* After an untroubled "tx" run the bit it uses is off, unless the random bit hid it.
CleanIsOff ==
  clean => ~bits[opts.mode] \/ (opts.mode = "constant" /\ bits["random"])

CleanInv == RowsInv /\ CleanIsOff
-----------------------------------------------------------------------------
(* The plan, the steps' helpers.                                           *)

\* What the assumption on the constants says of them.
LEMMA Numbers ==
  /\ Len(Tests) \in Nat /\ Points \in Nat /\ Points > 0 /\ Last \in Nat
  /\ MaxSweeps \in Nat /\ FaultBudget \in Nat
  /\ \A i \in 1..Len(Tests) : Tests[i] \in {"rtt", "loopback", "tx"}
<1>1. Len(Tests) \in Nat /\ Points \in Nat /\ Points > 0
  BY SweepAssumption, LenProperties
<1>2. Last \in Nat
  BY <1>1 DEF Last
<1> QED BY <1>1, <1>2, SweepAssumption

\* Every run of the plan is one of a test.
LEMMA TestKinds ==
  \A n \in 1..Last : TestOf(n) \in {"rtt", "loopback", "tx"}
<1> SUFFICES ASSUME NEW n \in 1..Last
             PROVE  TestOf(n) \in {"rtt", "loopback", "tx"}
  OBVIOUS
<1> DEFINE L == Len(Tests)
           q == (n - 1) \div Points
<1>1. L \in Nat /\ Points \in Nat /\ Points > 0 /\ n - 1 \in Nat /\ n - 1 < L * Points
  BY Numbers DEF Last
<1>2. q \in Int /\ q >= 0 /\ q * Points <= n - 1
  BY <1>1
<1>3. q < L
  <2> HIDE DEF q, L
  <2>1. SUFFICES ASSUME q >= L PROVE FALSE
    BY <1>1, <1>2
  <2>2. q * Points >= L * Points
    BY <1>1, <1>2, <2>1
  <2> QED BY <1>1, <1>2, <2>2
<1>4. q + 1 \in 1..L
  BY <1>1, <1>2, <1>3
<1> QED BY <1>4, Numbers DEF TestOf

\* What is appended comes last.
LEMMA Appending ==
  ASSUME NEW S, NEW q \in Seq(S), NEW d \in S, NEW p, p = Append(q, d)
  PROVE  /\ p \in Seq(S) /\ Len(p) = Len(q) + 1 /\ Len(q) \in Nat /\ p # <<>>
         /\ DOMAIN q = 1..Len(q) /\ DOMAIN p = 1..Len(p)
         /\ \A i \in DOMAIN q : p[i] = q[i]
         /\ p[Len(p)] = d
  BY AppendProperties, LenProperties

\* The orders in which summaries are left to write.
LEMMA Tails ==
  /\ Summaries = <<"rtt", "loopback", "tx">>
  /\ Head(Summaries) = "rtt" /\ Tail(Summaries) = <<"loopback", "tx">>
  /\ Head(<<"loopback", "tx">>) = "loopback" /\ Tail(<<"loopback", "tx">>) = <<"tx">>
  /\ Head(<<"tx">>) = "tx" /\ Tail(<<"tx">>) = << >>
  /\ Summaries # << >> /\ <<"loopback", "tx">> # << >> /\ <<"tx">> # << >>
  /\ Summaries \in Seq({"rtt", "loopback", "tx"}) /\ << >> \in Seq({"rtt", "loopback", "tx"})
  BY DEF Summaries

\* The type of every variable.
LEMMA Types ==
  ASSUME TypeOK
  PROVE  /\ opts \in Options /\ opts.mode \in {"random", "constant"}
         /\ opts.stop \in BOOLEAN /\ opts.update \in BOOLEAN /\ opts.dry \in BOOLEAN
         /\ k \in 1..(Last + 1) /\ k \in Int /\ code \in {0, 1}
         /\ todo \in Seq({"rtt", "loopback", "tx"})
         /\ bits \in [{"random", "constant"} -> BOOLEAN]
         /\ logs \in [Logs -> Nat] /\ summary \in [Logs -> Nat \cup {Torn}]
         /\ short \in [Logs -> Nat] /\ torn \subseteq spoilt /\ spoilt \subseteq Logs
         /\ header \in Nat /\ cut \in Nat /\ sweeps \in 0..MaxSweeps /\ sweeps \in Nat
         /\ Len(manifest) \in Nat /\ DOMAIN manifest = 1..Len(manifest)
<1>1. Len(manifest) \in Nat /\ DOMAIN manifest = 1..Len(manifest)
  BY LenProperties DEF TypeOK
<1>2. k \in Int /\ sweeps \in Nat
  BY Numbers DEF TypeOK
<1> QED BY <1>1, <1>2 DEF TypeOK, Options, Promise!Contents

\* What a return code does: the row is written next, or the sweep ends without it.
LEMMA Returning ==
  ASSUME NEW c \in {0, 1}, Returned(c), opts.stop \in BOOLEAN
  PROVE  /\ code' = c
         /\ \/ /\ pc' = "open" /\ todo' = Summaries /\ finally' = TRUE /\ pending' = "error"
               /\ header' = (IF owed THEN header + 1 ELSE header) /\ owed' = FALSE
               /\ manifest' = manifest /\ cut' = cut + 1 /\ c = 1
            \/ /\ pc' = "record" /\ UNCHANGED <<todo, finally, pending>>
               /\ UNCHANGED <<manifest, header, owed, cut>>
  BY DEF Returned, Summarize, CloseManifest, call, record

\* The outcomes of the two commands that measure round trips and loads.
LEMMA Outcomes ==
  ASSUME NEW o \in Promise!RttOutcomes \cup Promise!LoopbackOutcomes
  PROVE  /\ o.code \in {0, 1} /\ o.rows \subseteq Logs
         /\ o \in Promise!RttOutcomes =>
              o.rows = IF o.code = 0 THEN {"rtt"} ELSE {}
         /\ o \in Promise!LoopbackOutcomes =>
              \/ o.code = 0 /\ o.rows = {"load", "loss"}
              \/ o.code = 1 /\ o.rows \in {{}, {"load"}}
  BY DEF Promise!RttOutcomes, Promise!LoopbackOutcomes, Logs

\* The outcomes of "fpga-tx-test".
LEMMA TxOutcomes ==
  ASSUME NEW b \in [{"random", "constant"} -> BOOLEAN], NEW m \in {"random", "constant"},
         NEW o \in {Promise!UntroubledTx(b, m)} \cup Promise!TroubledTx(b, m)
  PROVE  o[1] \in {0, 1} /\ o[2] \in [{"random", "constant"} -> BOOLEAN]
<1>1. Promise!Flipped(b, m) \in [{"random", "constant"} -> BOOLEAN]
  BY DEF Promise!Flipped
<1>2. Promise!UntroubledTx(b, m) \in
        {<<1, Promise!Flipped(b, m)>>, <<0, b>>}
  BY DEF Promise!UntroubledTx
<1>3. Promise!TroubledTx(b, m) = {0, 1} \X {b, Promise!Flipped(b, m)}
  BY DEF Promise!TroubledTx
<1> HIDE DEF Promise!Flipped
<1>4. CASE o = <<1, Promise!Flipped(b, m)>> \/ o = <<0, b>>
  BY <1>1, <1>4
<1>5. CASE o \in {0, 1} \X {b, Promise!Flipped(b, m)}
  BY <1>1, <1>5
<1> QED BY <1>2, <1>3, <1>4, <1>5

\* One if the log is one of these.
OneIf(f, rows) == IF f \in rows THEN 1 ELSE 0

\* What becomes of a log: a row that is written, or was lost, is paid for.
LogGoesOn(f, rows) ==
  /\ logs[f] <= logs'[f] /\ logs'[f] <= logs[f] + OneIf(f, rows)
  /\ logs[f] + 2 * short[f] + OneIf(f, rows) + Doomed(f)'
       <= logs'[f] + 2 * short'[f] + Doomed(f)

\* Of the rows written some are cut short, and may leave a piece of a line.
LEMMA WritingRows ==
  ASSUME TypeOK, NEW rows, NEW missing, NEW pieces \in SUBSET missing, missing \subseteq Logs,
         Written(rows, missing, pieces)
  PROVE  /\ logs' \in [Logs -> Nat] /\ short' \in [Logs -> Nat]
         /\ torn' \subseteq spoilt' /\ spoilt' \subseteq Logs
         /\ \A f \in Logs : LogGoesOn(f, rows)
<1>y. /\ logs \in [Logs -> Nat] /\ short \in [Logs -> Nat]
      /\ torn \subseteq spoilt /\ spoilt \subseteq Logs
  BY Types
<1>1. logs' \in [Logs -> Nat] /\ short' \in [Logs -> Nat]
  BY <1>y DEF Written
<1>2. torn' \subseteq spoilt' /\ spoilt' \subseteq Logs
  BY <1>y DEF Written
<1>3. ASSUME NEW f \in Logs PROVE LogGoesOn(f, rows)
  <2>1. /\ logs'[f] = IF f \in rows \ (missing \cup torn) THEN logs[f] + 1 ELSE logs[f]
        /\ short'[f] = IF f \in missing THEN short[f] + 1 ELSE short[f]
        /\ f \in torn' <=> (f \in torn /\ f \notin rows \ missing) \/ f \in pieces
    BY <1>y DEF Written
  <2>2. logs[f] \in Nat /\ short[f] \in Nat
    BY <1>y
  <2>3. CASE f \in missing
    BY <2>1, <2>2, <2>3 DEF LogGoesOn, OneIf, Doomed
  <2>4. CASE f \notin missing
    BY <2>1, <2>2, <2>4 DEF LogGoesOn, OneIf, Doomed
  <2> QED BY <2>3, <2>4
<1> QED BY <1>1, <1>2, <1>3

\* What becomes of the logs when a command appends its rows.
LEMMA AddingRows ==
  ASSUME TypeOK, NEW rows \in SUBSET Logs, \E missing : AddRows(rows, missing)
  PROVE  /\ logs' \in [Logs -> Nat] /\ short' \in [Logs -> Nat]
         /\ torn' \subseteq spoilt' /\ spoilt' \subseteq Logs
         /\ \A f \in Logs : LogGoesOn(f, rows)
<1>1. PICK missing : AddRows(rows, missing)
  OBVIOUS
<1>2. PICK pieces \in SUBSET missing : Written(rows, missing, pieces)
  BY <1>1 DEF AddRows
<1>3. missing \subseteq Logs
  BY <1>1 DEF AddRows
<1> QED BY <1>2, <1>3, WritingRows

\* The logs of a test.
LEMMA TestLogs ==
  ASSUME NEW test \in {"rtt", "loopback", "tx"}
  PROVE  LogsOf(test) \subseteq Logs /\ FirstLog(test) \in LogsOf(test)
  BY DEF LogsOf, FirstLog, Logs

\* Whatever the run under way does when it is cut, it adds a row to each log at most.
LEMMA Cutting ==
  ASSUME TypeOK, CutRun
  PROVE  /\ logs' \in [Logs -> Nat] /\ short' \in [Logs -> Nat]
         /\ torn' \subseteq spoilt' /\ spoilt' \subseteq Logs
         /\ bits' \in [{"random", "constant"} -> BOOLEAN] /\ clean' \in BOOLEAN
         /\ \A f \in Logs : LogGoesOn(f, {}) \/ LogGoesOn(f, Logs)
         /\ ~Unrecorded => logs' = logs
         /\ pc # "command" => logs' = logs
         /\ UNCHANGED <<bits, clean>> \/ ~clean'
<1>1. /\ logs \in [Logs -> Nat] /\ bits \in [{"random", "constant"} -> BOOLEAN]
      /\ short \in [Logs -> Nat] /\ torn \subseteq spoilt /\ spoilt \subseteq Logs
      /\ clean \in BOOLEAN /\ opts.mode \in {"random", "constant"}
  BY Types DEF TypeOK
<1>2. CASE UNCHANGED <<fpga, files>>
  <2>1. UNCHANGED <<logs, torn, spoilt, short, bits, clean>>
    BY <1>2 DEF fpga, files
  <2>2. \A f \in Logs : LogGoesOn(f, {})
    <3> TAKE f \in Logs
    <3>1. logs[f] \in Nat /\ short[f] \in Nat
      BY <1>1
    <3> QED BY <2>1, <3>1 DEF LogGoesOn, OneIf, Doomed
  <2> QED BY <1>1, <2>1, <2>2
<1>3. CASE ~UNCHANGED <<fpga, files>>
  <2> DEFINE test == TestOf(k)
  <2>1. /\ Running({"rtt", "loopback", "tx"})
        /\ \/ \E rows \in {{}, {FirstLog(test)}, LogsOf(test)} : Written(rows, {}, {})
           \/ \E f \in LogsOf(test) : Written({FirstLog(test), f}, {f}, {f})
        /\ IF test = "tx"
             THEN bits' \in {bits, Promise!Flipped(bits, opts.mode)} /\ clean' = FALSE
             ELSE UNCHANGED fpga
    BY <1>3, Zenon DEF CutRun
  <2>2. test \in {"rtt", "loopback", "tx"} /\ pc = "command" /\ Unrecorded
    BY <2>1 DEF Running, Unrecorded
  <2>3. PICK rows, missing : /\ rows \subseteq Logs /\ missing \subseteq Logs
                            /\ Written(rows, missing, missing)
    <3>1. LogsOf(test) \subseteq Logs /\ FirstLog(test) \in LogsOf(test)
      BY <2>2, TestLogs
    <3> HIDE DEF test
    <3>2. CASE \E rows \in {{}, {FirstLog(test)}, LogsOf(test)} : Written(rows, {}, {})
      <4>1. PICK rows \in {{}, {FirstLog(test)}, LogsOf(test)} : Written(rows, {}, {})
        BY <3>2
      <4>2. rows \subseteq Logs /\ {} \subseteq Logs
        BY <3>1
      <4> QED BY <4>1, <4>2
    <3>3. CASE \E f \in LogsOf(test) : Written({FirstLog(test), f}, {f}, {f})
      <4>1. PICK f \in LogsOf(test) : Written({FirstLog(test), f}, {f}, {f})
        BY <3>3
      <4>2. {FirstLog(test), f} \subseteq Logs /\ {f} \subseteq Logs
        BY <3>1
      <4> QED BY <4>1, <4>2
    <3> QED BY <2>1, <3>2, <3>3 DEF test
  <2>4. /\ logs' \in [Logs -> Nat] /\ short' \in [Logs -> Nat]
        /\ torn' \subseteq spoilt' /\ spoilt' \subseteq Logs
        /\ \A f \in Logs : LogGoesOn(f, rows)
    BY <2>3, WritingRows
  <2>5. \A f \in Logs : LogGoesOn(f, {}) \/ LogGoesOn(f, Logs)
    <3> TAKE f \in Logs
    <3>1. OneIf(f, rows) = OneIf(f, {}) \/ OneIf(f, rows) = OneIf(f, Logs)
      BY DEF OneIf
    <3> QED BY <2>4, <3>1 DEF LogGoesOn
  <2>6. /\ bits' \in [{"random", "constant"} -> BOOLEAN] /\ clean' \in BOOLEAN
        /\ UNCHANGED <<bits, clean>> \/ ~clean'
    <3>1. Promise!Flipped(bits, opts.mode) \in [{"random", "constant"} -> BOOLEAN]
      BY <1>1 DEF Promise!Flipped
    <3> QED BY <1>1, <2>1, <3>1 DEF fpga
  <2> QED BY <2>2, <2>4, <2>5, <2>6
<1> QED BY <1>2, <1>3

-----------------------------------------------------------------------------
(* Every variable keeps its type, and the manifest the rows of its runs.   *)

\* A process that has not begun has no rows.
LEMMA LoopsInit == Init => RowsInv
<1> SUFFICES ASSUME Init PROVE RowsInv
  OBVIOUS
<1>1. TypeOK
  <2>1. /\ opts \in Options /\ k \in 1..(Last + 1) /\ code \in {0, 1}
        /\ sweeps \in 0..MaxSweeps /\ faults \in 0..FaultBudget
    BY Numbers DEF Init, Options, Promise!Contents
  <2>2. /\ logs \in [Logs -> Nat] /\ summary \in [Logs -> Nat \cup {Torn}]
        /\ bits \in [Promise!Contents -> BOOLEAN] /\ short \in [Logs -> Nat]
    BY DEF Init
  <2>3. /\ todo \in Seq({"rtt", "loopback", "tx"})
        /\ manifest \in Seq(Rows)
    BY EmptySeq DEF Init
  <2> QED BY <2>1, <2>2, <2>3 DEF Init, TypeOK
<1>2. LoopsAgree /\ HeaderKept
  BY DEF Init, LoopsAgree, HeaderKept, Active
<1>3. 0 \in 0..Len(manifest) /\ InOrderFrom(0) /\ RowsKeepUp(0)
  <2>1. Len(manifest) = 0
    BY DEF Init
  <2> QED BY <2>1 DEF Init, InOrderFrom, RowsKeepUp, Active
<1> QED BY <1>1, <1>2, <1>3 DEF RowsInv

\* The bounds of the counters that only StartSweep, Fault and the exits raise.
LEMMA Budgets ==
  ASSUME TypeOK
  PROVE  /\ Fault => faults' \in 0..FaultBudget
         /\ sweeps < MaxSweeps => sweeps + 1 \in 0..MaxSweeps
  BY Numbers DEF TypeOK, Fault

\* Every step keeps the type of every variable.
LEMMA TypesKept == RowsInv /\ [Next]_vars => TypeOK'
<1> SUFFICES ASSUME RowsInv, [Next]_vars
             PROVE  TypeOK'
  OBVIOUS
<1>t. TypeOK /\ LoopsAgree
  BY DEF RowsInv
<1>y. /\ opts \in Options /\ opts.mode \in {"random", "constant"}
      /\ opts.stop \in BOOLEAN /\ opts.update \in BOOLEAN /\ opts.dry \in BOOLEAN
      /\ k \in 1..(Last + 1) /\ k \in Int /\ code \in {0, 1}
      /\ todo \in Seq({"rtt", "loopback", "tx"})
      /\ bits \in [{"random", "constant"} -> BOOLEAN]
      /\ logs \in [Logs -> Nat] /\ summary \in [Logs -> Nat \cup {Torn}]
      /\ header \in Nat /\ cut \in Nat /\ sweeps \in 0..MaxSweeps /\ sweeps \in Nat
      /\ short \in [Logs -> Nat] /\ torn \subseteq spoilt /\ spoilt \subseteq Logs
  BY <1>t, Types
<1>h. (IF owed THEN header + 1 ELSE header) \in Nat
  BY <1>y
<1> DEFINE Ends == {"none", "ok", "error", "rebuilt", "crash", "broken", "refused"}
<1>m. manifest \in Seq(Rows) /\ {pending, ended} \subseteq Ends
  BY <1>t DEF TypeOK
<1>b. ASSUME pc' \in {"off", "command", "hung", "record", "open", "fill"},
             opts' \in Options, k' \in 1..(Last + 1), code' \in {0, 1},
             todo' \in Seq({"rtt", "loopback", "tx"}),
             finally' \in BOOLEAN, owed' \in BOOLEAN, clean' \in BOOLEAN,
             pending' \in Ends, ended' \in Ends,
             bits' \in [{"random", "constant"} -> BOOLEAN], logs' \in [Logs -> Nat],
             short' \in [Logs -> Nat], torn' \subseteq spoilt', spoilt' \subseteq Logs,
             manifest' \in Seq(Rows), header' \in Nat, cut' \in Nat,
             summary' \in [Logs -> Nat \cup {Torn}],
             sweeps' \in 0..MaxSweeps, faults' \in 0..FaultBudget
      PROVE  TypeOK'
  BY <1>b DEF TypeOK, Promise!Contents
<1>r. ASSUME NEW c \in {0, 1}, Returned(c), UNCHANGED <<opts, k, ended, summary, sweeps>>,
             bits' \in [{"random", "constant"} -> BOOLEAN], logs' \in [Logs -> Nat],
             short' \in [Logs -> Nat], torn' \subseteq spoilt', spoilt' \subseteq Logs,
             clean' \in BOOLEAN, faults' \in 0..FaultBudget
      PROVE  TypeOK'
  <2>1. /\ code' = c
        /\ \/ /\ pc' = "open" /\ todo' = Summaries /\ finally' = TRUE /\ pending' = "error"
              /\ header' = (IF owed THEN header + 1 ELSE header) /\ owed' = FALSE
              /\ manifest' = manifest /\ cut' = cut + 1
           \/ /\ pc' = "record" /\ UNCHANGED <<todo, finally, pending>>
              /\ UNCHANGED <<manifest, header, owed, cut>>
    BY <1>y, <1>r, Returning
  <2>2. pc' \in {"open", "record"} /\ code' \in {0, 1} /\ manifest' \in Seq(Rows)
    BY <1>m, <1>r, <2>1
  <2>3. todo' \in Seq({"rtt", "loopback", "tx"}) /\ pending' \in Ends
    BY <1>y, <1>m, <2>1, Tails
  <2>4. header' \in Nat /\ cut' \in Nat
    BY <1>y, <1>h, <2>1
  <2>5. owed' \in BOOLEAN /\ finally' \in BOOLEAN
    BY <1>t, <2>1 DEF TypeOK
  <2> QED BY <1>t, <1>y, <1>m, <1>b, <1>r, <2>2, <2>3, <2>4, <2>5 DEF TypeOK
<1>c. ASSUME CutRun, UNCHANGED <<opts, summary, sweeps>>, owed' = FALSE,
             pc' \in {"off", "open"}, k' \in {1, k}, code' \in {0, code},
             todo' \in {<<>>, Summaries}, finally' \in BOOLEAN, pending' \in Ends,
             ended' \in Ends, UNCHANGED manifest, header' \in Nat,
             faults' \in 0..FaultBudget, cut' \in {cut, cut + 1}
      PROVE  TypeOK'
  <2>1. /\ logs' \in [Logs -> Nat] /\ short' \in [Logs -> Nat]
        /\ torn' \subseteq spoilt' /\ spoilt' \subseteq Logs
        /\ bits' \in [{"random", "constant"} -> BOOLEAN] /\ clean' \in BOOLEAN
    BY <1>t, <1>c, Cutting
  <2>2. k' \in 1..(Last + 1) /\ code' \in {0, 1} /\ cut' \in Nat
    BY <1>y, <1>c, Numbers
  <2>4. todo' \in Seq({"rtt", "loopback", "tx"})
    BY <1>c, Tails
  <2>3. manifest' \in Seq(Rows)
    BY <1>m, <1>c
  <2> QED BY <1>y, <1>b, <1>c, <2>1, <2>2, <2>3, <2>4
<1>1. ASSUME NEW o \in Options, StartSweep(o) PROVE TypeOK'
  <2>1. clean' \in BOOLEAN /\ owed' \in BOOLEAN /\ finally' \in BOOLEAN
    BY <1>1, <1>t DEF StartSweep, Summarize, call, TypeOK
  <2>2. sweeps' \in 0..MaxSweeps /\ k' \in 1..(Last + 1) /\ opts' \in Options
    BY <1>1, <1>t, Budgets, Numbers DEF StartSweep
  <2>3. faults' \in 0..FaultBudget
    BY <1>1, <1>t, Budgets DEF StartSweep, TypeOK
  <2>4. /\ pc' \in {"command", "open"} /\ ended' = "none"
        /\ todo' \in {todo, Summaries} /\ pending' \in {pending, "error"}
        /\ UNCHANGED <<code, bits, logs, torn, spoilt, short, manifest, header, cut, summary>>
    BY <1>1 DEF StartSweep, Summarize, call, files
  <2>5. todo' \in Seq({"rtt", "loopback", "tx"})
    BY <1>y, <2>4, Tails
  <2> QED BY <1>t, <1>y, <1>m, <1>b, <2>1, <2>2, <2>3, <2>4, <2>5
<1>0. CASE DryRun
  <2>1. /\ pc' = "record" /\ code' = 0
        /\ UNCHANGED <<opts, k, todo, finally, pending, ended, bits, clean, logs, torn, spoilt,
                       short, manifest, header, owed, cut, summary, sweeps, faults>>
    BY <1>0 DEF DryRun, call, fpga, files, record
  <2> QED BY <1>t, <1>y, <1>m, <1>b, <2>1 DEF TypeOK
<1>2. CASE RunRttOrLoopback
  <2>1. PICK o \in Promise!RttOutcomes \cup Promise!LoopbackOutcomes :
          /\ Fault \/ UNCHANGED faults
          /\ \E missing : AddRows(o.rows, missing)
          /\ Returned(o.code)
    BY <1>2 DEF RunRttOrLoopback
  <2>2. /\ o.code \in {0, 1} /\ logs' \in [Logs -> Nat] /\ short' \in [Logs -> Nat]
        /\ torn' \subseteq spoilt' /\ spoilt' \subseteq Logs
    BY <1>t, <2>1, Outcomes, AddingRows
  <2>3. faults' \in 0..FaultBudget
    BY <1>t, <2>1, Budgets DEF TypeOK
  <2>4. UNCHANGED <<opts, k, ended, bits, clean, summary, sweeps>>
    BY <1>2 DEF RunRttOrLoopback, fpga
  <2> QED BY <1>t, <1>y, <1>r, <2>1, <2>2, <2>3, <2>4 DEF TypeOK
<1>3. CASE RunTx
  <2>1. PICK o \in {Promise!UntroubledTx(bits, opts.mode)}
                     \cup Promise!TroubledTx(bits, opts.mode) :
          /\ clean' \in BOOLEAN
          /\ Fault \/ UNCHANGED faults
          /\ bits' = o[2]
          /\ \E missing : AddRows(IF o[1] = 0 THEN {"tx"} ELSE {}, missing)
          /\ Returned(o[1])
    BY <1>3 DEF RunTx
  <2>2. o[1] \in {0, 1} /\ bits' \in [{"random", "constant"} -> BOOLEAN]
    BY <1>y, <2>1, TxOutcomes
  <2>3. /\ logs' \in [Logs -> Nat] /\ short' \in [Logs -> Nat]
        /\ torn' \subseteq spoilt' /\ spoilt' \subseteq Logs
    <3>1. (IF o[1] = 0 THEN {"tx"} ELSE {}) \in SUBSET Logs
      BY DEF Logs
    <3> QED BY <1>t, <2>1, <3>1, AddingRows
  <2>4. faults' \in 0..FaultBudget
    BY <1>t, <2>1, Budgets DEF TypeOK
  <2>5. UNCHANGED <<opts, k, ended, summary, sweeps>>
    BY <1>3 DEF RunTx
  <2> QED BY <1>r, <2>1, <2>2, <2>3, <2>4, <2>5
<1>4. CASE Record
  <2> DEFINE row == [sweep |-> sweeps, run |-> k, code |-> code, dry |-> opts.dry]
  <2>1. sweeps \in 1..MaxSweeps /\ k \in 1..Last
    BY <1>t, <1>y, <1>4, Numbers DEF Record, LoopsAgree, Active
  <2>2. row \in Rows
    BY <1>y, <2>1 DEF Rows
  <2>3. manifest' \in Seq(Rows)
    <3> HIDE DEF row
    <3>1. manifest' = Append(manifest, row)
      BY <1>4 DEF Record, row
    <3> QED BY <1>m, <2>2, <3>1, AppendProperties
  <2>4. /\ k' \in 1..(Last + 1) /\ header' \in Nat /\ owed' = FALSE /\ code' = 0
        /\ UNCHANGED <<opts, ended, bits, clean, logs, torn, spoilt, short, cut, summary,
                       sweeps, faults>>
    BY <1>h, <1>y, <1>4, <2>1, Numbers DEF Record, fpga, files
  <2>5. /\ pc' \in {"open", "command"} /\ todo' \in {todo, Summaries}
        /\ finally' \in BOOLEAN /\ pending' \in Ends
    BY <1>t, <1>m, <1>4 DEF Record, Summarize, call, TypeOK
  <2> QED BY <1>t, <1>y, <1>m, <1>b, <2>3, <2>4, <2>5, Tails DEF TypeOK
<1>5. CASE LoopsEnd
  <2>1. /\ pc' = "open" /\ todo' = Summaries /\ finally' = TRUE /\ pending' = "ok"
        /\ header' \in Nat /\ owed' = FALSE
        /\ UNCHANGED <<opts, k, code, ended, bits, clean, logs, torn, spoilt, short, manifest,
                       cut, summary, sweeps, faults>>
    BY <1>h, <1>5 DEF LoopsEnd, Summarize, CloseManifest, fpga, files
  <2> QED BY <1>t, <1>y, <1>m, <1>b, <2>1, Tails DEF TypeOK
<1>6. CASE OpenSummary \/ FillSummary
  <2>1. /\ pc' \in {"open", "fill"} /\ todo' \in {todo, Tail(todo)} /\ todo # <<>>
        /\ UNCHANGED <<opts, k, code, finally, pending, ended, bits, clean, logs, torn, spoilt,
                       short, manifest, header, owed, cut, sweeps, faults>>
    BY <1>t, <1>6 DEF OpenSummary, FillSummary, fpga, files, record, LoopsAgree
  <2>2. todo' \in Seq({"rtt", "loopback", "tx"})
    <3>1. todo \in Seq({"rtt", "loopback", "tx"}) /\ todo # <<>>
      BY <1>y, <2>1
    <3>2. Tail(todo) \in Seq({"rtt", "loopback", "tx"})
      BY <3>1, HeadTailProperties
    <3> QED BY <2>1, <3>1, <3>2
  <2>3. summary' \in [Logs -> Nat \cup {Torn}]
    BY <1>y, <1>6 DEF OpenSummary, FillSummary
  <2> QED BY <1>t, <1>y, <1>m, <1>b, <2>1, <2>2, <2>3 DEF TypeOK
<1>7. CASE SummarizeReturns
  <2>1. /\ pc' \in {"off", "command"} /\ k' \in {1, k} /\ code' \in {0, code}
        /\ todo' \in {todo, <<>>} /\ finally' \in {finally, FALSE}
        /\ pending' \in {pending, "none"} /\ ended' \in {ended, pending}
        /\ UNCHANGED <<opts, bits, clean, logs, torn, spoilt, short, manifest, header, owed,
                       cut, summary, sweeps, faults>>
    BY <1>7 DEF SummarizeReturns, Over, fpga, files, record, call
  <2>2. k' \in 1..(Last + 1)
    BY <1>y, <2>1, Numbers
  <2>3. todo' \in Seq({"rtt", "loopback", "tx"})
    BY <1>y, <2>1, Tails
  <2> QED BY <1>t, <1>y, <1>m, <1>b, <2>1, <2>2, <2>3 DEF TypeOK
<1>8. CASE Hang
  <2>1. bits' \in [{"random", "constant"} -> BOOLEAN] /\ clean' \in BOOLEAN
    BY <1>t, <1>y, <1>8 DEF Hang, Promise!Flipped, fpga, TypeOK
  <2>2. /\ pc' = "hung" /\ faults' \in 0..FaultBudget
        /\ UNCHANGED <<opts, k, code, todo, finally, pending, ended, logs, torn, spoilt, short,
                       manifest, header, owed, cut, summary, sweeps>>
    BY <1>t, <1>8, Budgets DEF Hang, call, files, record
  <2> QED BY <1>t, <1>y, <1>m, <1>b, <2>1, <2>2 DEF TypeOK
<1>9. CASE SummarizeRaises
  <2>1. /\ faults' \in 0..FaultBudget
        /\ UNCHANGED <<opts, bits, clean, logs, torn, spoilt, short, summary, sweeps, manifest,
                       cut>>
    BY <1>t, <1>9, Budgets DEF SummarizeRaises, Raised, CloseManifest, fpga, files, record,
       TypeOK
  <2>2. /\ pc' \in {"off", "open"} /\ k' \in {1, k} /\ code' \in {0, code}
        /\ todo' \in {<<>>, Summaries} /\ finally' \in BOOLEAN
        /\ pending' \in {"none", "error"} /\ ended' \in {ended, "broken"}
    BY <1>9 DEF SummarizeRaises, Over, Summarize
  <2>3. header' \in Nat /\ owed' \in BOOLEAN
    BY <1>h, <1>t, <1>9 DEF SummarizeRaises, CloseManifest, record, TypeOK
  <2>4. k' \in 1..(Last + 1)
    BY <1>y, <2>2, Numbers
  <2>5. todo' \in Seq({"rtt", "loopback", "tx"})
    BY <2>2, Tails
  <2> QED BY <1>t, <1>y, <1>m, <1>b, <2>1, <2>2, <2>3, <2>4, <2>5 DEF TypeOK
<1>10. CASE Rebuild
  <2>1. /\ pc' = "open" /\ todo' = Summaries /\ finally' = TRUE /\ pending' = "rebuilt"
        /\ ended' = "none"
        /\ UNCHANGED <<opts, k, code, bits, clean, logs, torn, spoilt, short, manifest, header,
                       owed, cut, summary, sweeps, faults>>
    BY <1>10 DEF Rebuild, Summarize, fpga, files, record
  <2> QED BY <1>t, <1>y, <1>m, <1>b, <2>1, Tails DEF TypeOK
<1>11. CASE Interrupt
  <2>1. faults' \in 0..FaultBudget
    BY <1>t, <1>11, Numbers DEF Interrupt, TypeOK
  <2>2. /\ CutRun /\ cut' \in {cut, cut + 1} /\ owed' = FALSE /\ header' \in Nat
        /\ pc' = "open" /\ todo' = Summaries /\ finally' = TRUE /\ pending' = "error"
        /\ UNCHANGED <<opts, k, code, ended, manifest, summary, sweeps>>
    BY <1>h, <1>y, <1>11 DEF Interrupt, Summarize, CloseManifest
  <2> QED BY <1>c, <1>m, <2>1, <2>2
<1>12. CASE Crash
  <2>1. /\ CutRun /\ cut' \in {cut, cut + 1} /\ owed' = FALSE
        /\ pc' = "off" /\ todo' = <<>> /\ finally' = FALSE /\ pending' = "none"
        /\ k' = 1 /\ code' = 0 /\ ended' = "crash" /\ faults' \in 0..FaultBudget
        /\ UNCHANGED <<opts, manifest, header, summary, sweeps>>
    BY <1>t, <1>12, Budgets DEF Crash, Over
  <2> QED BY <1>c, <1>y, <2>1
<1>13. CASE UNCHANGED vars
  BY <1>t, <1>13 DEF vars, call, fpga, files, record, TypeOK
<1>14. CASE Refuse
  <2>1. /\ ended' = "refused"
        /\ UNCHANGED <<pc, opts, k, code, todo, finally, pending, bits, clean, logs, torn, spoilt,
                       short, manifest, header, owed, cut, summary, sweeps, faults>>
    BY <1>14 DEF Refuse, call, fpga, files, record
  <2> QED BY <1>t, <1>y, <1>m, <1>b, <2>1 DEF TypeOK
<1> QED BY <1>0, <1>1, <1>2, <1>3, <1>4, <1>5, <1>6, <1>7, <1>8, <1>9, <1>10, <1>11, <1>12, <1>13,
           <1>14 DEF Next, Step

\* The steps, by what they do to the loops, the manifest and the call of summarize.
Starting ==
  /\ pc = "off" /\ k' = 1 /\ sweeps' = sweeps + 1 /\ ended' = "none"
  /\ \/ pc' = "command" /\ owed' = (header = 0) /\ UNCHANGED <<finally, pending>>
     \/ pc' = "open" /\ finally' = TRUE /\ pending' = "error" /\ UNCHANGED owed
  /\ UNCHANGED <<manifest, header>>

Ran ==
  /\ pc = "command" /\ k <= Last /\ pc' \in {"record", "hung"}
  /\ UNCHANGED <<k, finally, pending, ended, manifest, header, owed, sweeps>>

Recording ==
  /\ pc = "record"
  /\ manifest' = Append(manifest, [sweep |-> sweeps, run |-> k, code |-> code, dry |-> opts.dry])
  /\ header' = (IF owed THEN header + 1 ELSE header) /\ owed' = FALSE /\ k' = k + 1
  /\ \/ pc' = "open" /\ finally' = FALSE /\ pending' = "none"
     \/ pc' = "command" /\ UNCHANGED <<finally, pending>>
  /\ UNCHANGED <<ended, sweeps>>

Closing(end) ==
  /\ Active
  /\ pc' = "open" /\ finally' = TRUE /\ pending' = end
  /\ header' \in {header, IF owed THEN header + 1 ELSE header} /\ owed' = FALSE
  /\ end = "ok" => pc = "command" /\ k = Last + 1
  /\ UNCHANGED <<k, ended, manifest, sweeps>>

Writing ==
  /\ pc \in {"open", "fill"}
  /\ pc' = "open" \/ (pc' = "fill" /\ todo' # <<>>)
  /\ UNCHANGED <<k, finally, pending, ended, manifest, header, owed, sweeps>>

GoingOn ==
  /\ pc = "open" /\ ~finally /\ pc' = "command"
  /\ UNCHANGED <<k, finally, pending, ended, manifest, header, owed, sweeps>>

Ending(end) ==
  /\ pc # "off" /\ pc' = "off" /\ k' = 1 /\ finally' = FALSE /\ pending' = "none"
  /\ ended' = end
  /\ end = "ok" => finally /\ pending = "ok"
  /\ owed' = FALSE
  /\ UNCHANGED <<manifest, header, sweeps>>

Rebuilding ==
  /\ pc = "off" /\ pc' = "open" /\ finally' = TRUE /\ pending' = "rebuilt"
  /\ ended' = "none"
  /\ UNCHANGED <<k, manifest, header, owed, sweeps>>

Refusing ==
  /\ pc = "off" /\ ended' = "refused"
  /\ UNCHANGED <<pc, k, finally, pending, manifest, header, owed, sweeps>>

\* Every step is one of these, or leaves all that alone.
LEMMA Steps ==
  ASSUME RowsInv, Next
  PROVE  \/ Starting \/ Ran \/ Recording \/ Writing \/ GoingOn \/ Rebuilding \/ Refusing
         \/ \E end \in {"ok", "error"} : Closing(end)
         \/ \E end \in {"ok", "error", "rebuilt", "none", "broken", "crash", "refused"} :
              Ending(end)
<1>t. TypeOK /\ LoopsAgree /\ HeaderKept
  BY DEF RowsInv
<1>y. /\ opts.mode \in {"random", "constant"} /\ opts.stop \in BOOLEAN
      /\ bits \in [{"random", "constant"} -> BOOLEAN]
      /\ todo \in Seq({"rtt", "loopback", "tx"})
  BY <1>t, Types
<1>r. ASSUME NEW c \in {0, 1}, Returned(c), pc = "command", k <= Last,
             UNCHANGED <<k, ended, sweeps>>
      PROVE  Ran \/ Closing("error")
  <2>1. \/ /\ pc' = "open" /\ finally' = TRUE /\ pending' = "error"
           /\ header' = (IF owed THEN header + 1 ELSE header) /\ owed' = FALSE
           /\ manifest' = manifest
        \/ /\ pc' = "record" /\ UNCHANGED <<finally, pending>>
           /\ UNCHANGED <<manifest, header, owed>>
    BY <1>y, <1>r, Returning
  <2> QED BY <1>r, <2>1 DEF Ran, Closing, Active
<1>1. ASSUME NEW o \in Options, StartSweep(o) PROVE Starting
  BY <1>1 DEF StartSweep, Starting, Summarize, call
<1>0. CASE DryRun
  BY <1>0 DEF DryRun, Ran, call, record
<1>2. CASE RunRttOrLoopback
  <2>1. PICK o \in Promise!RttOutcomes \cup Promise!LoopbackOutcomes : Returned(o.code)
    BY <1>2 DEF RunRttOrLoopback, Running
  <2>2. o.code \in {0, 1}
    BY Outcomes
  <2>3. pc = "command" /\ k <= Last /\ UNCHANGED <<k, ended, sweeps>>
    BY <1>2 DEF RunRttOrLoopback, Running
  <2> QED BY <1>r, <2>1, <2>2, <2>3
<1>3. CASE RunTx
  <2>1. PICK o \in {Promise!UntroubledTx(bits, opts.mode)}
                     \cup Promise!TroubledTx(bits, opts.mode) : Returned(o[1])
    BY <1>3 DEF RunTx
  <2>2. o[1] \in {0, 1}
    BY <1>y, TxOutcomes
  <2>3. pc = "command" /\ k <= Last /\ UNCHANGED <<k, ended, sweeps>>
    BY <1>3 DEF RunTx, Running
  <2> QED BY <1>r, <2>1, <2>2, <2>3
<1>4. CASE Record
  BY <1>4 DEF Record, Recording, Summarize, call
<1>5. CASE LoopsEnd
  <2>1. Closing("ok")
    BY <1>5 DEF LoopsEnd, Closing, Active, Summarize, CloseManifest
  <2> QED BY <2>1
<1>6. CASE OpenSummary \/ FillSummary
  BY <1>6 DEF OpenSummary, FillSummary, Writing, record
<1>7. CASE SummarizeReturns
  <2>1. CASE finally
    <3>1. Ending(pending)
      BY <1>t, <1>7, <2>1 DEF SummarizeReturns, Over, Ending, record, HeaderKept, Active
    <3>2. pending \in {"ok", "error", "rebuilt", "none", "broken", "crash", "refused"}
      BY <1>t DEF TypeOK
    <3> QED BY <3>1, <3>2
  <2>2. CASE ~finally
    BY <1>7, <2>2 DEF SummarizeReturns, GoingOn, record, call
  <2> QED BY <2>1, <2>2
<1>8. CASE Hang
  BY <1>8 DEF Hang, Running, Ran, call, record
<1>9. CASE SummarizeRaises
  <2>1. CASE finally
    <3>1. Ending("broken")
      BY <1>t, <1>9, <2>1 DEF SummarizeRaises, Raised, Over, Ending, record, HeaderKept, Active
    <3> QED BY <3>1
  <2>2. CASE ~finally
    <3>1. Closing("error")
      BY <1>9, <2>2 DEF SummarizeRaises, Raised, Summarize, CloseManifest, Closing, Active
    <3> QED BY <3>1
  <2> QED BY <2>1, <2>2
<1>10. CASE Rebuild
  BY <1>10 DEF Rebuild, Summarize, Rebuilding, record
<1>11. CASE Interrupt
  <2>1. Closing("error")
    BY <1>11 DEF Interrupt, Summarize, CloseManifest, Closing, Active
  <2> QED BY <2>1
<1>12. CASE Crash
  <2>1. Ending("crash")
    BY <1>12 DEF Crash, Over, Ending
  <2> QED BY <2>1
<1>13. CASE Refuse
  BY <1>13 DEF Refuse, Refusing, call, record
<1> QED BY <1>0, <1>1, <1>2, <1>3, <1>4, <1>5, <1>6, <1>7, <1>8, <1>9, <1>10, <1>11, <1>12,
           <1>13 DEF Next, Step

\* The loops and the header.
LEMMA LoopsKept == RowsInv /\ [Next]_vars => LoopsAgree' /\ HeaderKept'
<1> SUFFICES ASSUME RowsInv, [Next]_vars
             PROVE  LoopsAgree' /\ HeaderKept'
  OBVIOUS
<1>t. LoopsAgree /\ HeaderKept /\ sweeps \in Nat /\ k \in Int /\ owed \in BOOLEAN
  BY Types DEF RowsInv, TypeOK
<1> USE DEF LoopsAgree, HeaderKept, Active
<1>1. CASE Starting
  <2>1. /\ k' = 1 /\ sweeps' = sweeps + 1 /\ pc = "off"
        /\ manifest' = manifest /\ header' = header
        /\ \/ pc' = "command" /\ finally' = finally
           \/ pc' = "open" /\ finally' = TRUE
    BY <1>1 DEF Starting
  <2>2. /\ pc' = "command" => (owed' <=> header = 0)
        /\ pc' = "open" => ~owed'
    <3>1. CASE pc' = "command" /\ owed' = (header = 0)
      BY <3>1, Zenon
    <3>2. CASE pc' = "open" /\ UNCHANGED owed
      BY <1>1, <1>t, <3>2 DEF Starting
    <3> QED BY <1>1, <3>1, <3>2, Zenon DEF Starting
  <2>3. LoopsAgree'
    BY <1>t, <2>1
  <2>4. HeaderKept'
    BY <1>t, <2>1, <2>2
  <2> QED BY <2>3, <2>4
<1>2. CASE Ran
  BY <1>2, <1>t DEF Ran
<1>3. CASE Recording
  <2>1. manifest' # <<>>
    <3> DEFINE row == [sweep |-> sweeps, run |-> k, code |-> code, dry |-> opts.dry]
          R == Rows
    <3>0. opts.dry \in BOOLEAN /\ sweeps \in 1..MaxSweeps /\ k \in 1..Last /\ code \in {0, 1}
      BY <1>3, <1>t, Types, Numbers DEF Recording, RowsInv, TypeOK, LoopsAgree, Active
    <3>1. manifest' = Append(manifest, row) /\ row \in R
      BY <1>3, <3>0 DEF Recording, Rows
    <3>2. manifest \in Seq(R)
      BY DEF RowsInv, TypeOK
    <3> HIDE DEF row, R
    <3> QED BY <3>1, <3>2, Appending
  <2> QED BY <1>3, <1>t, <2>1 DEF Recording
<1>4. ASSUME NEW end, Closing(end) PROVE LoopsAgree' /\ HeaderKept'
  BY <1>4, <1>t DEF Closing
<1>5. CASE Writing
  BY <1>5, <1>t DEF Writing
<1>6. CASE GoingOn
  BY <1>6, <1>t DEF GoingOn
<1>7. ASSUME NEW end, Ending(end) PROVE LoopsAgree' /\ HeaderKept'
  BY <1>7, <1>t DEF Ending
<1>8. CASE Rebuilding
  BY <1>8, <1>t DEF Rebuilding
<1>9. CASE UNCHANGED vars
  BY <1>9, <1>t DEF vars, call, record
<1>10. CASE Refusing
  BY <1>10, <1>t DEF Refusing
<1> QED BY <1>1, <1>2, <1>3, <1>4, <1>5, <1>6, <1>7, <1>8, <1>9, <1>10, Steps

\* The rows of the manifest.
LEMMA RowsKept ==
  RowsInv /\ [Next]_vars =>
    (\E start \in 0..Len(manifest) : InOrderFrom(start) /\ RowsKeepUp(start))'
<1> SUFFICES ASSUME RowsInv, [Next]_vars
             PROVE  \E start \in 0..Len(manifest') : InOrderFrom(start)' /\ RowsKeepUp(start)'
  OBVIOUS
<1>t. /\ LoopsAgree /\ sweeps \in Nat /\ k \in 1..(Last + 1) /\ k \in Int /\ Last \in Nat
      /\ Len(manifest) \in Nat
      /\ manifest \in Seq(Rows)
  BY Types, Numbers DEF RowsInv, TypeOK
<1>s. PICK start \in 0..Len(manifest) : InOrderFrom(start) /\ RowsKeepUp(start)
  BY DEF RowsInv
<1>i. start \in Nat /\ start <= Len(manifest)
  BY <1>t, <1>s
<1>e. \A n \in 1..Len(manifest) : manifest[n].sweep \in Int
  <2> TAKE n \in 1..Len(manifest)
  <2>1. manifest[n] \in Rows
    BY <1>t, ElementOfSeq
  <2>2. manifest[n].sweep \in 1..MaxSweeps
    BY <2>1 DEF Rows
  <2> QED BY <2>2, Numbers
<1>u. UNCHANGED <<manifest, sweeps>> => InOrderFrom(start)' /\ start \in 0..Len(manifest')
  BY <1>s DEF InOrderFrom
<1> USE DEF RowsKeepUp, Active
<1>1. CASE Starting
  <2> DEFINE m == Len(manifest)
  <2>1. m \in 0..Len(manifest') /\ sweeps' = sweeps + 1 /\ manifest' = manifest
    BY <1>1, <1>t DEF Starting
  <2>2. \A n \in 1..m : n \in 1..start \/ n \in (start + 1)..m
    BY <1>i
  <2>3. \A n \in 1..m : manifest[n].sweep < sweeps + 1
    <3> TAKE n \in 1..m
    <3>1. manifest[n].sweep < sweeps \/ manifest[n].sweep = sweeps
      BY <1>s, <2>2 DEF InOrderFrom
    <3> QED BY <1>e, <1>t, <3>1
  <2>4. InOrderFrom(m)'
    BY <1>t, <2>1, <2>3 DEF InOrderFrom
  <2>5. RowsKeepUp(m)'
    BY <1>1, <1>t, <2>1 DEF Starting, LoopsAgree
  <2> QED BY <2>1, <2>4, <2>5
<1>2. CASE Ran
  BY <1>2, <1>t, <1>s, <1>u DEF Ran
<1>3. CASE Recording
  <2> DEFINE row == [sweep |-> sweeps, run |-> k, code |-> code, dry |-> opts.dry]
  <2>0. opts.dry \in BOOLEAN /\ sweeps \in 1..MaxSweeps /\ k \in 1..Last /\ code \in {0, 1}
    BY <1>3, <1>t, Types, Numbers DEF Recording, RowsInv, TypeOK, LoopsAgree
  <2>1. manifest' = Append(manifest, row) /\ row.sweep = sweeps /\ row.run = k
        /\ row \in Rows
        /\ sweeps' = sweeps
    BY <1>3, <2>0 DEF Recording, Rows
  <2> HIDE DEF row
  <2>2. /\ Len(manifest') = Len(manifest) + 1 /\ DOMAIN manifest = 1..Len(manifest)
        /\ \A n \in DOMAIN manifest : manifest'[n] = manifest[n]
        /\ manifest'[Len(manifest')] = row
    BY <1>t, <2>1, Appending
  <2>3. Len(manifest) = start + k - 1
    BY <1>3, <1>s DEF Recording
  <2>4. \A n \in 1..start : manifest'[n].sweep < sweeps
    BY <1>i, <1>s, <1>t, <2>2 DEF InOrderFrom
  <2>5. \A n \in (start + 1)..Len(manifest') :
          manifest'[n].sweep = sweeps /\ manifest'[n].run = n - start
    <3> TAKE n \in (start + 1)..Len(manifest')
    <3>1. CASE n = Len(manifest')
      BY <1>i, <1>t, <2>1, <2>2, <2>3, <3>1
    <3>2. CASE n # Len(manifest')
      <4>1. n \in (start + 1)..Len(manifest) /\ n \in DOMAIN manifest
        BY <1>i, <1>t, <2>2, <3>2
      <4>2. manifest[n].sweep = sweeps /\ manifest[n].run = n - start
        BY <1>s, <4>1 DEF InOrderFrom
      <4> QED BY <2>2, <4>1, <4>2
    <3> QED BY <3>1, <3>2
  <2>6. InOrderFrom(start)' /\ start \in 0..Len(manifest')
    BY <1>i, <1>t, <2>1, <2>2, <2>4, <2>5 DEF InOrderFrom
  <2>7. RowsKeepUp(start)'
    BY <1>3, <1>i, <1>s, <1>t, <2>2, <2>3 DEF Recording, LoopsAgree
  <2> QED BY <2>6, <2>7
<1>4. ASSUME NEW end, Closing(end) PROVE RowsKeepUp(start)' /\ UNCHANGED <<manifest, sweeps>>
  BY <1>4, <1>t, <1>s DEF Closing
<1>5. CASE Writing
  BY <1>5, <1>t, <1>s, <1>u DEF Writing
<1>6. CASE GoingOn
  BY <1>6, <1>t, <1>s, <1>u DEF GoingOn
<1>7. ASSUME NEW end, Ending(end) PROVE RowsKeepUp(start)' /\ UNCHANGED <<manifest, sweeps>>
  BY <1>7, <1>t, <1>s DEF Ending
<1>8. CASE Rebuilding
  BY <1>8, <1>t, <1>s, <1>u DEF Rebuilding
<1>9. CASE UNCHANGED vars
  BY <1>9, <1>t, <1>s, <1>u DEF vars, call, record
<1>10. CASE Refusing
  BY <1>10, <1>t, <1>s, <1>u DEF Refusing
<1> QED BY <1>1, <1>2, <1>3, <1>4, <1>5, <1>6, <1>7, <1>8, <1>9, <1>10, <1>u, Steps

\* The invariant of the loops, the header and the rows.
THEOREM RowsInvariance == Spec => []RowsInv
<1>1. RowsInv /\ [Next]_vars => RowsInv'
  BY TypesKept, LoopsKept, RowsKept DEF RowsInv
<1> QED BY <1>1, LoopsInit, PTL DEF Spec

\* Every variable keeps its type.
THEOREM TypeCorrect == Spec => []TypeOK
<1>1. RowsInv => TypeOK
  BY DEF RowsInv
<1> QED BY <1>1, RowsInvariance, PTL

\* For any plan, and whatever cuts a sweep short, the manifest has the rows of a first
\* part of it, of all of it when the sweep has ended, under one header (run_sweep).
THEOREM PlanRecorded == Spec => []EveryRunIsRecorded
<1>1. RowsInv => EveryRunIsRecorded
  BY DEF RowsInv, HeaderKept, RowsKeepUp, EveryRunIsRecorded
<1> QED BY <1>1, RowsInvariance, PTL

-----------------------------------------------------------------------------
(* The manifest and the logs.                                              *)

\* A row counts for the logs it says were written.
LEMMA Recorded1 ==
  ASSUME TypeOK, NEW f
  PROVE  /\ Recorded(f) \in Nat
         /\ manifest' = manifest => Recorded(f)' = Recorded(f)
<1> DEFINE Mine == {n \in DOMAIN manifest :
                      /\ manifest[n].code = 0 /\ ~manifest[n].dry
                      /\ f \in LogsOf(TestOf(manifest[n].run))}
<1>1. DOMAIN manifest = 1..Len(manifest) /\ Len(manifest) \in Nat
  BY Types
<1>2. IsFiniteSet(DOMAIN manifest)
  BY <1>1, FS_Interval
<1>3. IsFiniteSet(Mine)
  BY <1>2, FS_Subset
<1>4. Recorded(f) = Cardinality(Mine)
  BY DEF Recorded
<1> HIDE DEF Mine
<1>5. Recorded(f) \in Nat
  BY <1>3, <1>4, FS_CardinalityType
<1> QED BY <1>5 DEF Recorded

\* A new row counts for the logs of its test, if its run succeeded.
LEMMA RecordedMore ==
  ASSUME TypeOK, NEW f, NEW row \in Rows,
         manifest' = Append(manifest, row)
  PROVE  Recorded(f)' = IF row.code = 0 /\ ~row.dry /\ f \in LogsOf(TestOf(row.run))
                          THEN Recorded(f) + 1 ELSE Recorded(f)
<1> DEFINE R == Rows
           Counts(r) == r.code = 0 /\ ~r.dry /\ f \in LogsOf(TestOf(r.run))
           Mine == {n \in DOMAIN manifest : Counts(manifest[n])}
           Now == {n \in DOMAIN manifest' : Counts(manifest'[n])}
           len == Len(manifest)
<1>1. DOMAIN manifest = 1..len /\ len \in Nat
  BY Types
<1>2. IsFiniteSet(DOMAIN manifest)
  BY <1>1, FS_Interval
<1>3. IsFiniteSet(Mine)
  BY <1>2, FS_Subset
<1>4. Recorded(f) = Cardinality(Mine) /\ Recorded(f)' = Cardinality(Now)
  BY DEF Recorded
<1>m. manifest \in Seq(R) /\ row \in R
  BY DEF TypeOK
<1>5. /\ DOMAIN manifest' = 1..(len + 1)
      /\ \A n \in DOMAIN manifest : manifest'[n] = manifest[n]
      /\ manifest'[len + 1] = row
  <2> HIDE DEF R
  <2> QED BY <1>m, Appending
<1>6. DOMAIN manifest' = DOMAIN manifest \cup {len + 1} /\ len + 1 \notin DOMAIN manifest
  BY <1>1, <1>5
<1> HIDE DEF Counts
<1>7. Now = IF Counts(row) THEN Mine \cup {len + 1} ELSE Mine
  BY <1>5, <1>6
<1>8. len + 1 \notin Mine
  BY <1>6
<1> HIDE DEF Mine, Now, len
<1>9. Cardinality(Mine \cup {len + 1}) = Cardinality(Mine) + 1
  BY <1>3, <1>8, FS_AddElement
<1>10. Counts(row) <=> row.code = 0 /\ ~row.dry /\ f \in LogsOf(TestOf(row.run))
  BY DEF Counts
<1> QED BY <1>4, <1>7, <1>9, <1>10

\* At first there is nothing to agree on.
LEMMA LogsInit == Init => LogsAgree
<1> SUFFICES ASSUME Init, NEW f \in Logs
             PROVE  /\ Recorded(f) = 0 /\ Waiting(f) = 0 /\ Doomed(f) = 0
                    /\ logs[f] = 0 /\ short[f] = 0 /\ cut = 0
  BY DEF LogsAgree
<1>1. DOMAIN manifest = {}
  BY DEF Init
<1>2. {n \in DOMAIN manifest :
         /\ manifest[n].code = 0 /\ ~manifest[n].dry
         /\ f \in LogsOf(TestOf(manifest[n].run))} = {}
  BY <1>1
<1>3. Recorded(f) = 0
  BY <1>2, FS_EmptySet DEF Recorded
<1> QED BY <1>3 DEF Init, Waiting, Doomed

\* Manifest and log agree on the rows of one log.
Agrees(f) ==
  /\ Recorded(f) + Waiting(f) + Doomed(f) <= logs[f] + 2 * short[f]
  /\ f # "load" => logs[f] <= Recorded(f) + Waiting(f) + cut

\* What is counted is numbers.
LEMMA Counted ==
  ASSUME TypeOK, NEW f \in Logs
  PROVE  /\ logs[f] \in Nat /\ short[f] \in Nat /\ cut \in Nat /\ Recorded(f) \in Nat
         /\ Waiting(f) \in {0, 1} /\ Doomed(f) \in {0, 1} /\ Doomed(f)' \in {0, 1}
  BY Types, Recorded1 DEF Waiting, Doomed

\* A run that has returned has appended its rows if it succeeded, and to "load" at most
\* if not.
LEMMA ReturnAgrees ==
  ASSUME LogsInv, NEW c \in {0, 1}, NEW rows \in SUBSET Logs, \E missing : AddRows(rows, missing),
         Returned(c), pc = "command", UNCHANGED <<k, opts>>, ~opts.dry,
         c = 0 => rows = LogsOf(TestOf(k)),
         c = 1 => rows \subseteq {"load"}
  PROVE  LogsAgree'
<1>t. TypeOK /\ opts.stop \in BOOLEAN
  BY Types DEF LogsInv, RowsInv
<1>1. /\ logs' \in [Logs -> Nat] /\ short' \in [Logs -> Nat]
      /\ \A f \in Logs : LogGoesOn(f, rows)
  BY <1>t, AddingRows
<1>2. /\ code' = c /\ manifest' = manifest
      /\ (pc' = "record" /\ cut' = cut) \/ (pc' = "open" /\ cut' = cut + 1 /\ c = 1)
  BY <1>t, Returning
<1> SUFFICES ASSUME NEW f \in Logs
             PROVE  Agrees(f)'
  BY DEF LogsAgree, Agrees
<1>3. Recorded(f)' = Recorded(f)
  BY <1>t, <1>2, Recorded1
<1>4. /\ Recorded(f) + Doomed(f) <= logs[f] + 2 * short[f]
      /\ f # "load" => logs[f] <= Recorded(f) + cut
      /\ logs[f] \in Nat /\ short[f] \in Nat /\ cut \in Nat /\ Recorded(f) \in Nat
      /\ Doomed(f) \in {0, 1} /\ Doomed(f)' \in {0, 1}
  <2>1. Waiting(f) = 0
    BY DEF Waiting
  <2> HIDE DEF Waiting
  <2> QED BY <1>t, <2>1, Counted DEF LogsInv, LogsAgree
<1>n. logs'[f] \in Nat /\ short'[f] \in Nat /\ OneIf(f, rows) \in {0, 1}
  BY <1>1 DEF OneIf
<1>g. /\ logs[f] <= logs'[f] /\ logs'[f] <= logs[f] + OneIf(f, rows)
      /\ logs[f] + 2 * short[f] + OneIf(f, rows) + Doomed(f)'
           <= logs'[f] + 2 * short'[f] + Doomed(f)
  BY <1>1 DEF LogGoesOn
<1>5. CASE c = 0
  <2>1. Waiting(f)' = OneIf(f, rows) /\ cut' = cut
    BY <1>2, <1>5 DEF Waiting, OneIf
  <2> QED BY <1>3, <1>4, <1>n, <1>g, <2>1 DEF Agrees
<1>6. CASE c = 1
  <2>1. Waiting(f)' = 0
    BY <1>2, <1>6 DEF Waiting
  <2>2. f # "load" => OneIf(f, rows) = 0
    BY <1>6 DEF OneIf
  <2>3. cut' \in Nat /\ cut <= cut'
    BY <1>2, <1>4
  <2> QED BY <1>3, <1>4, <1>n, <1>g, <2>1, <2>2, <2>3 DEF Agrees
<1> QED BY <1>5, <1>6

\* Every step keeps manifest and logs in agreement.
LEMMA LogsKept == LogsInv /\ [Next]_vars => LogsAgree'
<1> SUFFICES ASSUME LogsInv, [Next]_vars
             PROVE  LogsAgree'
  OBVIOUS
<1>t. TypeOK /\ RowsInv /\ LogsAgree /\ LoopsAgree
  BY DEF LogsInv, RowsInv
<1>y. /\ logs \in [Logs -> Nat] /\ cut \in Nat /\ k \in 1..(Last + 1) /\ k \in Int
      /\ bits \in [{"random", "constant"} -> BOOLEAN] /\ opts.mode \in {"random", "constant"}
      /\ opts.dry \in BOOLEAN
  BY <1>t, Types
<1>a. ASSUME NEW f \in Logs PROVE Agrees(f)
  BY <1>a, <1>t DEF LogsAgree, Agrees
<1>g. ASSUME \A f \in Logs : Agrees(f)' PROVE LogsAgree'
  BY <1>g DEF LogsAgree, Agrees
<1>s. ASSUME UNCHANGED <<manifest, files, cut>>, \A f \in Logs : Waiting(f)' = Waiting(f)
      PROVE  LogsAgree'
  <2> SUFFICES ASSUME NEW f \in Logs PROVE Agrees(f)'
    BY <1>g
  <2>1. Recorded(f)' = Recorded(f) /\ Waiting(f)' = Waiting(f)
    BY <1>t, <1>s, Recorded1
  <2>2. Doomed(f)' = Doomed(f) /\ UNCHANGED <<logs, short, cut>>
    BY <1>s DEF Doomed, files
  <2> QED BY <1>a, <2>1, <2>2 DEF Agrees
<1>w. ASSUME pc # "record", pc' # "record" PROVE \A f \in Logs : Waiting(f)' = Waiting(f)
  BY <1>w DEF Waiting
<1>c. ASSUME CutRun, manifest' = manifest, cut' = IF Unrecorded THEN cut + 1 ELSE cut,
             pc' # "record"
      PROVE  LogsAgree'
  <2> SUFFICES ASSUME NEW f \in Logs PROVE Agrees(f)'
    BY <1>g
  <2>1. Recorded(f)' = Recorded(f) /\ Waiting(f)' = 0
    BY <1>t, <1>c, Recorded1 DEF Waiting
  <2>2. /\ LogGoesOn(f, {}) \/ LogGoesOn(f, Logs)
        /\ logs'[f] \in Nat /\ short'[f] \in Nat
        /\ ~Unrecorded => logs' = logs
        /\ pc # "command" => logs' = logs
    BY <1>t, <1>c, Cutting
  <2>3. /\ logs[f] <= logs'[f] /\ logs'[f] <= logs[f] + 1
        /\ logs[f] + 2 * short[f] + Doomed(f)' <= logs'[f] + 2 * short'[f] + Doomed(f)
    BY <1>t, <2>2, Counted DEF LogGoesOn, OneIf
  <2>4. /\ Waiting(f) = 1 => pc = "record" /\ Unrecorded
        /\ cut' \in {cut, cut + 1} /\ (Unrecorded => cut' = cut + 1)
    BY <1>c DEF Waiting, Unrecorded
  <2>5. f # "load" => logs'[f] <= Recorded(f)' + Waiting(f)' + cut'
    <3>1. CASE Unrecorded /\ pc = "command"
      <4>1. Waiting(f) = 0 /\ cut' = cut + 1
        BY <2>4, <3>1 DEF Waiting
      <4> QED BY <1>a, <1>t, <2>1, <2>2, <2>3, <4>1, Counted DEF Agrees
    <3>2. CASE Unrecorded /\ pc # "command"
      <4>1. logs'[f] = logs[f] /\ cut' = cut + 1
        BY <2>2, <2>4, <3>2
      <4> QED BY <1>a, <1>t, <2>1, <4>1, Counted DEF Agrees
    <3>3. CASE ~Unrecorded
      <4>1. logs'[f] = logs[f] /\ Waiting(f) = 0 /\ cut' = cut
        BY <1>c, <1>t, <2>2, <2>4, <3>3, Counted
      <4> QED BY <1>a, <1>t, <2>1, <4>1, Counted DEF Agrees
    <3> QED BY <3>1, <3>2, <3>3
  <2> QED BY <1>a, <1>t, <2>1, <2>2, <2>3, <2>5, Counted DEF Agrees
<1>1. ASSUME NEW o \in Options, StartSweep(o) PROVE LogsAgree'
  BY <1>1, <1>s, <1>w DEF StartSweep, Summarize
<1>0. CASE DryRun
  <2>1. \A f \in Logs : Waiting(f)' = Waiting(f)
    BY <1>0 DEF DryRun, Waiting
  <2> QED BY <1>0, <1>s, <2>1 DEF DryRun, record
<1>2. CASE RunRttOrLoopback
  <2>1. PICK o \in IF TestOf(k) = "rtt" THEN Promise!RttOutcomes
                                        ELSE Promise!LoopbackOutcomes :
          (\E missing : AddRows(o.rows, missing)) /\ Returned(o.code)
    BY <1>2 DEF RunRttOrLoopback
  <2>2. /\ TestOf(k) \in {"rtt", "loopback"} /\ pc = "command" /\ ~opts.dry
        /\ opts' = opts /\ k' = k
    BY <1>2 DEF RunRttOrLoopback, Running
  <2>3. o.code \in {0, 1} /\ o.rows \in SUBSET Logs
    BY Outcomes
  <2>4. o.code = 0 => o.rows = LogsOf(TestOf(k))
    <3>1. CASE TestOf(k) = "rtt"
      <4>1. o \in Promise!RttOutcomes
        BY <3>1
      <4>2. o.code = 0 => o.rows = {"rtt"}
        BY <4>1, Outcomes
      <4> QED BY <3>1, <4>2 DEF LogsOf
    <3>2. CASE TestOf(k) = "loopback"
      <4>1. o \in Promise!LoopbackOutcomes
        BY <3>2
      <4>2. o.code = 0 => o.rows = {"load", "loss"}
        BY <4>1, Outcomes
      <4> QED BY <3>2, <4>2 DEF LogsOf
    <3> QED BY <2>2, <3>1, <3>2
  <2>5. o.code = 1 => o.rows \subseteq {"load"}
    BY Outcomes
  <2> QED BY <2>1, <2>2, <2>3, <2>4, <2>5, ReturnAgrees
<1>3. CASE RunTx
  <2>1. PICK o \in {Promise!UntroubledTx(bits, opts.mode)}
                     \cup Promise!TroubledTx(bits, opts.mode) :
          /\ \E missing : AddRows(IF o[1] = 0 THEN {"tx"} ELSE {}, missing)
          /\ Returned(o[1])
    BY <1>3 DEF RunTx
  <2>2. o[1] \in {0, 1}
    BY <1>y, TxOutcomes
  <2>3. /\ TestOf(k) = "tx" /\ pc = "command" /\ ~opts.dry
        /\ opts' = opts /\ k' = k
    BY <1>3 DEF RunTx, Running
  <2> DEFINE rows == IF o[1] = 0 THEN {"tx"} ELSE {}
  <2>4. /\ o[1] = 0 => rows = LogsOf(TestOf(k))
        /\ o[1] = 1 => rows \subseteq {"load"}
        /\ rows \in SUBSET Logs
    BY <2>3 DEF LogsOf, Logs
  <2> HIDE DEF rows
  <2>5. (\E missing : AddRows(rows, missing)) /\ Returned(o[1])
    BY <2>1 DEF rows
  <2> QED BY <2>2, <2>3, <2>4, <2>5, ReturnAgrees
<1>4. CASE Record
  <2> SUFFICES ASSUME NEW f \in Logs PROVE Agrees(f)'
    BY <1>g
  <2> DEFINE row == [sweep |-> sweeps, run |-> k, code |-> code, dry |-> opts.dry]
  <2>1. /\ row \in Rows /\ row.code = code /\ row.run = k /\ row.dry = opts.dry
        /\ manifest' = Append(manifest, row)
    <3>1. sweeps \in 1..MaxSweeps /\ k \in 1..Last /\ code \in {0, 1}
      BY <1>t, <1>y, <1>4, Numbers DEF Record, LoopsAgree, Active, TypeOK
    <3> QED BY <1>4, <1>y, <3>1 DEF Record, Rows
  <2> HIDE DEF row
  <2>2. Recorded(f)' = Recorded(f) + Waiting(f)
    <3>1. Recorded(f)' = IF code = 0 /\ ~opts.dry /\ f \in LogsOf(TestOf(k))
                           THEN Recorded(f) + 1 ELSE Recorded(f)
      BY <1>t, <2>1, RecordedMore
    <3>2. pc = "record"
      BY <1>4 DEF Record
    <3> QED BY <1>t, <3>1, <3>2, Counted DEF Waiting
  <2>3. pc' # "record" /\ UNCHANGED <<logs, torn, short, cut>>
    BY <1>4 DEF Record, Summarize, files
  <2>4. Waiting(f)' = 0 /\ Doomed(f)' = Doomed(f)
    BY <2>3 DEF Waiting, Doomed
  <2> QED BY <1>a, <1>t, <2>2, <2>3, <2>4, Counted DEF Agrees
<1>5. CASE LoopsEnd
  BY <1>5, <1>s, <1>w DEF LoopsEnd, Summarize, CloseManifest
<1>6. CASE OpenSummary \/ FillSummary
  BY <1>6, <1>s, <1>w DEF OpenSummary, FillSummary, record
<1>7. CASE SummarizeReturns
  BY <1>7, <1>s, <1>w DEF SummarizeReturns, Over, record
<1>8. CASE Hang
  BY <1>8, <1>s, <1>w DEF Hang, Running, record
<1>9. CASE SummarizeRaises
  BY <1>9, <1>s, <1>w DEF SummarizeRaises, Raised, Over, Summarize, CloseManifest, record
<1>10. CASE Rebuild
  BY <1>10, <1>s, <1>w DEF Rebuild, Summarize, record
<1>11. CASE Interrupt
  BY <1>11, <1>c DEF Interrupt, Summarize, CloseManifest
<1>12. CASE Crash
  BY <1>12, <1>c DEF Crash, Over
<1>13. CASE Refuse
  BY <1>13, <1>s, <1>w DEF Refuse, record
<1>14. CASE UNCHANGED vars
  <2>1. \A f \in Logs : Waiting(f)' = Waiting(f)
    BY <1>14 DEF Waiting, vars
  <2> QED BY <1>14, <1>s, <2>1 DEF vars, record, files
<1> QED BY <1>0, <1>1, <1>2, <1>3, <1>4, <1>5, <1>6, <1>7, <1>8, <1>9, <1>10, <1>11, <1>12,
           <1>13, <1>14 DEF Next, Step

\* For any plan and any number of sweeps on one directory: a run the manifest calls a
\* success, dry runs apart, has its rows in the logs, but for two at most per row that
\* was cut short; and a row in the logs its run in the manifest, unless the sweep was
\* cut between the two (run_sweep, the append functions).
THEOREM LogsAndManifest == Spec => []LogsMatchManifest
<1>1. Init => LogsInv
  BY LoopsInit, LogsInit DEF LogsInv
<1>2. LogsInv /\ [Next]_vars => LogsInv'
  BY TypesKept, LoopsKept, RowsKept, LogsKept DEF LogsInv, RowsInv
<1>3. LogsInv => LogsMatchManifest
  <2> SUFFICES ASSUME LogsInv, NEW f \in Logs
               PROVE  /\ Recorded(f) <= logs[f] + 2 * short[f]
                      /\ f # "load" =>
                           logs[f] <= Recorded(f) + cut + (IF pc = "record" THEN 1 ELSE 0)
    BY DEF LogsMatchManifest
  <2>1. /\ Recorded(f) + Waiting(f) + Doomed(f) <= logs[f] + 2 * short[f]
        /\ f # "load" => logs[f] <= Recorded(f) + Waiting(f) + cut
    BY DEF LogsInv, LogsAgree
  <2>2. TypeOK
    BY DEF LogsInv, RowsInv
  <2>3. Waiting(f) <= IF pc = "record" THEN 1 ELSE 0
    BY DEF Waiting
  <2> QED BY <2>1, <2>2, <2>3, Counted
<1> QED BY <1>1, <1>2, <1>3, PTL DEF Spec

-----------------------------------------------------------------------------
(* The summaries.                                                          *)

\* Nothing is said of a test without rows, or with other lines.
LEMMA Shown ==
  ASSUME NEW test, logs[FirstLog(test)] = 0 \/ LogsOf(test) \cap spoilt # {}
  PROVE  ShowsLogs(test)
  BY DEF ShowsLogs

\* What is shown stays so while neither the logs nor its summary change.
LEMMA StillShown ==
  ASSUME NEW test, ShowsLogs(test), logs' = logs, spoilt' = spoilt,
         \A f \in LogsOf(test) : summary'[f] = summary[f]
  PROVE  ShowsLogs(test)'
  BY DEF ShowsLogs

\* What SummariesFollow says of the present call.
LeftToShow ==
  pc \in {"open", "fill"} =>
       \/ todo = <<"rtt", "loopback", "tx">>
       \/ todo = <<"loopback", "tx">> /\ ShowsLogs("rtt")
       \/ todo = <<"tx">> /\ ShowsLogs("rtt") /\ ShowsLogs("loopback")
       \/ todo = <<>> /\ ShowsLogs("rtt") /\ ShowsLogs("loopback") /\ ShowsLogs("tx")

\* The call has written the summary of the test, or had not to, and goes on.
LEMMA OneLess ==
  ASSUME NEW test, test = Head(todo),
         LeftToShow, pc \in {"open", "fill"}, todo # <<>>, todo' = Tail(todo),
         logs' = logs, spoilt' = spoilt, ShowsLogs(test)',
         \A f \in Logs : f \notin LogsOf(test) => summary'[f] = summary[f]
  PROVE  LeftToShow'
<1>1. /\ LogsOf("rtt") = {"rtt"} /\ LogsOf("tx") = {"tx"}
      /\ LogsOf("loopback") = {"load", "loss"} /\ Logs = {"rtt", "load", "loss", "tx"}
  BY DEF LogsOf, Logs
<1>2. CASE todo = <<"rtt", "loopback", "tx">>
  <2>1. todo' = <<"loopback", "tx">> /\ ShowsLogs("rtt")'
    BY <1>2, Tails
  <2> QED BY <2>1 DEF LeftToShow
<1>3. CASE todo = <<"loopback", "tx">> /\ ShowsLogs("rtt")
  <2>1. todo' = <<"tx">> /\ ShowsLogs("loopback")' /\ summary'["rtt"] = summary["rtt"]
    BY <1>1, <1>3, Tails
  <2>2. ShowsLogs("rtt")'
    BY <1>1, <1>3, <2>1, StillShown
  <2> QED BY <2>1, <2>2 DEF LeftToShow
<1>4. CASE todo = <<"tx">> /\ ShowsLogs("rtt") /\ ShowsLogs("loopback")
  <2>1. /\ todo' = <<>> /\ ShowsLogs("tx")' /\ summary'["rtt"] = summary["rtt"]
        /\ summary'["load"] = summary["load"] /\ summary'["loss"] = summary["loss"]
    BY <1>1, <1>4, Tails
  <2>2. ShowsLogs("rtt")' /\ ShowsLogs("loopback")'
    BY <1>1, <1>4, <2>1, StillShown
  <2> QED BY <2>1, <2>2 DEF LeftToShow
<1> QED BY <1>2, <1>3, <1>4 DEF LeftToShow

\* Every step keeps the summaries written so far true to their logs.
LEMMA SummaryKept == SummaryInv /\ [Next]_vars => SummariesFollow'
<1> SUFFICES ASSUME SummaryInv, [Next]_vars
             PROVE  LeftToShow' /\ SummariesAreCurrent'
  BY DEF SummariesFollow, LeftToShow
<1>t. TypeOK /\ LoopsAgree /\ LeftToShow /\ SummariesAreCurrent
  BY DEF SummaryInv, SummariesFollow, LeftToShow, RowsInv
<1>y. /\ opts.stop \in BOOLEAN /\ opts.mode \in {"random", "constant"}
      /\ bits \in [{"random", "constant"} -> BOOLEAN]
  BY <1>t, Types
<1>o. ASSUME \/ pc' = "open" /\ todo' = Summaries
             \/ pc' \in {"command", "record", "hung"}
             \/ pc' = "off" /\ ended' \in {"broken", "crash", "refused"}
      PROVE  LeftToShow' /\ SummariesAreCurrent'
  BY <1>o, Tails DEF LeftToShow, SummariesAreCurrent
<1>r. ASSUME NEW c \in {0, 1}, Returned(c) PROVE LeftToShow' /\ SummariesAreCurrent'
  <2>1. (pc' = "open" /\ todo' = Summaries) \/ pc' = "record"
    BY <1>r, <1>y, Returning
  <2> QED BY <1>o, <2>1
<1>1. ASSUME NEW o \in Options, StartSweep(o) PROVE LeftToShow' /\ SummariesAreCurrent'
  BY <1>1, <1>o DEF StartSweep, Summarize
<1>0. CASE DryRun
  BY <1>0, <1>o DEF DryRun
<1>2. CASE RunRttOrLoopback
  <2>1. PICK o \in Promise!RttOutcomes \cup Promise!LoopbackOutcomes : Returned(o.code)
    BY <1>2 DEF RunRttOrLoopback
  <2>2. o.code \in {0, 1}
    BY Outcomes
  <2> QED BY <1>r, <2>1, <2>2
<1>3. CASE RunTx
  <2>1. PICK o \in {Promise!UntroubledTx(bits, opts.mode)}
                     \cup Promise!TroubledTx(bits, opts.mode) : Returned(o[1])
    BY <1>3 DEF RunTx
  <2>2. o[1] \in {0, 1}
    BY <1>y, TxOutcomes
  <2> QED BY <1>r, <2>1, <2>2
<1>4. CASE Record
  BY <1>4, <1>o DEF Record, Summarize
<1>5. CASE LoopsEnd
  BY <1>5, <1>o DEF LoopsEnd, Summarize
<1>6. CASE OpenSummary
  <2>t. todo # <<>> /\ pc = "open" /\ logs' = logs /\ spoilt' = spoilt
    BY <1>6 DEF OpenSummary, files
  <2>k. PICK test \in {"rtt", "loopback", "tx"} : test = Head(todo)
    BY <1>t, <2>t, Tails DEF LeftToShow
  <2>1. CASE /\ logs[FirstLog(test)] = 0 \/ FirstLog(test) \in spoilt
             /\ todo' = Tail(todo) /\ UNCHANGED <<pc, summary>>
    <3>1. ShowsLogs(test)
      <4>1. FirstLog(test) \in LogsOf(test)
        BY <2>k, TestLogs
      <4> QED BY <2>1, <4>1, Shown
    <3>2. ShowsLogs(test)'
      BY <2>t, <2>1, <3>1, StillShown
    <3>3. LeftToShow'
        BY <1>t, <2>k, <2>t, <2>1, <3>2, OneLess
    <3>4. pc' = "open"
      BY <2>t, <2>1
    <3> QED BY <3>3, <3>4 DEF SummariesAreCurrent
  <2>2. CASE /\ pc' = "fill" /\ todo' = todo
             /\ summary' = [f \in Logs |-> IF f \in LogsOf(test) THEN Torn ELSE summary[f]]
    <3>1. /\ LogsOf("rtt") = {"rtt"} /\ LogsOf("tx") = {"tx"}
          /\ LogsOf("loopback") = {"load", "loss"} /\ Logs = {"rtt", "load", "loss", "tx"}
      BY DEF LogsOf, Logs
    <3>2. \A f \in Logs : f \notin LogsOf(test) => summary'[f] = summary[f]
      BY <2>2
    <3>3. ASSUME todo = <<"rtt", "loopback", "tx">> PROVE LeftToShow'
      BY <2>2, <3>3 DEF LeftToShow
    <3>4. ASSUME todo = <<"loopback", "tx">>, ShowsLogs("rtt") PROVE LeftToShow'
      <4>1. summary'["rtt"] = summary["rtt"]
        BY <2>k, <3>1, <3>2, <3>4, Tails
      <4>2. ShowsLogs("rtt")'
        BY <2>t, <3>1, <3>4, <4>1, StillShown
      <4> QED BY <2>2, <3>4, <4>2 DEF LeftToShow
    <3>5. ASSUME todo = <<"tx">>, ShowsLogs("rtt"), ShowsLogs("loopback") PROVE LeftToShow'
      <4>1. /\ summary'["rtt"] = summary["rtt"] /\ summary'["load"] = summary["load"]
            /\ summary'["loss"] = summary["loss"]
        BY <2>k, <3>1, <3>2, <3>5, Tails
      <4>2. ShowsLogs("rtt")' /\ ShowsLogs("loopback")'
        BY <2>t, <3>1, <3>5, <4>1, StillShown
      <4> QED BY <2>2, <3>5, <4>2 DEF LeftToShow
    <3>6. LeftToShow'
      BY <1>t, <2>t, <3>3, <3>4, <3>5 DEF LeftToShow
    <3> QED BY <2>2, <3>6 DEF SummariesAreCurrent
  <2> QED BY <1>6, <2>k, <2>1, <2>2 DEF OpenSummary
<1>7. CASE FillSummary
  <2>t. /\ pc = "fill" /\ logs' = logs /\ spoilt' = spoilt /\ pc' = "open" /\ todo' = Tail(todo)
        /\ todo # <<>>
    BY <1>7, <1>t DEF FillSummary, files, LoopsAgree
  <2>k. PICK test \in {"rtt", "loopback", "tx"} : test = Head(todo)
    BY <1>t, <2>t, Tails DEF LeftToShow
  <2>1. summary' = [f \in Logs |-> IF f \in LogsOf(test) THEN logs[f] ELSE summary[f]]
    BY <1>7, <2>k DEF FillSummary
  <2>2. \A f \in LogsOf(test) : summary'[f] = logs'[f]
    BY <2>k, <2>t, <2>1, TestLogs
  <2>3. ShowsLogs(test)'
    BY <2>2 DEF ShowsLogs
  <2>4. \A f \in Logs : f \notin LogsOf(test) => summary'[f] = summary[f]
    BY <2>1
  <2>5. LeftToShow'
    BY <1>t, <2>k, <2>t, <2>3, <2>4, OneLess
  <2> QED BY <2>t, <2>5 DEF SummariesAreCurrent
<1>8. CASE SummarizeReturns
  <2>1. summary' = summary /\ logs' = logs /\ spoilt' = spoilt
    BY <1>8 DEF SummarizeReturns, files
  <2>2. ShowsLogs("rtt") /\ ShowsLogs("loopback") /\ ShowsLogs("tx")
    BY <1>8, <1>t, Tails DEF SummarizeReturns, LeftToShow
  <2>3. ShowsLogs("rtt")' /\ ShowsLogs("loopback")' /\ ShowsLogs("tx")'
    BY <2>1, <2>2, StillShown
  <2>4. pc' \in {"off", "command"}
    BY <1>8 DEF SummarizeReturns, Over
  <2> QED BY <2>3, <2>4 DEF SummariesAreCurrent, LeftToShow, ShowsLogs
<1>9. CASE Hang
  BY <1>9, <1>o DEF Hang
<1>10. CASE SummarizeRaises
  BY <1>10, <1>o DEF SummarizeRaises, Over, Summarize
<1>11. CASE Rebuild
  BY <1>11, <1>o DEF Rebuild, Summarize
<1>12. CASE Interrupt
  BY <1>12, <1>o DEF Interrupt, Summarize
<1>13. CASE Crash
  BY <1>13, <1>o DEF Crash, Over
<1>14. CASE Refuse
  <2>1. pc' = "off" /\ ended' = "refused"
    BY <1>14 DEF Refuse
  <2> QED BY <1>o, <2>1
<1>15. CASE UNCHANGED vars
  <2>1. UNCHANGED <<pc, todo, ended, logs, spoilt, summary>>
    BY <1>15 DEF vars, call, files
  <2>2. \A test : ShowsLogs(test) => ShowsLogs(test)'
    BY <2>1 DEF ShowsLogs
  <2>3. LeftToShow'
    BY <1>t, <2>1, <2>2 DEF LeftToShow
  <2>4. SummariesAreCurrent'
    BY <1>t, <2>1 DEF SummariesAreCurrent
  <2> QED BY <2>3, <2>4
<1> QED BY <1>0, <1>1, <1>2, <1>3, <1>4, <1>5, <1>6, <1>7, <1>8, <1>9, <1>10, <1>11, <1>12,
           <1>13, <1>14, <1>15 DEF Next, Step

\* However a sweep ends, short of being killed, refused, or of summaries that cannot be
\* made, its summaries show all rows of each test whose logs hold nothing else, and a
\* rebuild brings them up to date (the "finally" of run_sweep, summarize).
THEOREM SummariesCurrent == Spec => []SummariesAreCurrent
<1>1. Init => SummaryInv
  <2> SUFFICES ASSUME Init PROVE SummaryInv
    OBVIOUS
  <2>1. SummariesFollow
    BY DEF Init, SummariesFollow, SummariesAreCurrent
  <2> QED BY <2>1, LoopsInit DEF SummaryInv
<1>2. SummaryInv /\ [Next]_vars => SummaryInv'
  BY TypesKept, LoopsKept, RowsKept, SummaryKept DEF SummaryInv, RowsInv
<1>3. SummaryInv => SummariesAreCurrent
  BY DEF SummaryInv, SummariesFollow
<1> QED BY <1>1, <1>2, <1>3, PTL DEF Spec

-----------------------------------------------------------------------------
(* What the "tx" runs leave in the FPGA.                                   *)

\* Without trouble the bit is taken off, or put back as it was, unless it is hidden.
LEMMA Untroubled ==
  ASSUME NEW b \in [{"random", "constant"} -> BOOLEAN], NEW m \in {"random", "constant"}
  PROVE  LET o == Promise!UntroubledTx(b, m)
         IN /\ ~o[2][m] \/ (m = "constant" /\ o[2]["random"])
            /\ o[1] = 0 \/ b[m] \/ (m = "constant" /\ b["random"])
  BY DEF Promise!UntroubledTx, Promise!Flipped, Promise!Blocked

\* Every step keeps the bit off, once it was left off.
LEMMA CleanKept == RowsInv /\ CleanIsOff /\ [Next]_vars => CleanIsOff'
<1> SUFFICES ASSUME RowsInv, CleanIsOff, [Next]_vars
             PROVE  CleanIsOff'
  OBVIOUS
<1>t. /\ TypeOK /\ bits \in [{"random", "constant"} -> BOOLEAN]
      /\ opts.mode \in {"random", "constant"}
  BY Types DEF RowsInv
<1>s. ASSUME UNCHANGED <<bits, opts>>, clean' = clean PROVE CleanIsOff'
  BY <1>s DEF CleanIsOff
<1>1. ASSUME NEW o \in Options, StartSweep(o) PROVE CleanIsOff'
  <2>1. clean' => clean /\ o.mode = opts.mode
    BY <1>1 DEF StartSweep
  <2>2. bits' = bits /\ opts' = o
    BY <1>1 DEF StartSweep
  <2> QED BY <2>1, <2>2 DEF CleanIsOff
<1>2. CASE RunTx
  <2>1. PICK o \in {Promise!UntroubledTx(bits, opts.mode)}
                     \cup Promise!TroubledTx(bits, opts.mode) :
          /\ bits' = o[2]
          /\ clean' = (o = Promise!UntroubledTx(bits, opts.mode))
    BY <1>2 DEF RunTx
  <2>2. opts' = opts
    BY <1>2 DEF RunTx
  <2>3. clean' => bits' = Promise!UntroubledTx(bits, opts.mode)[2]
    BY <2>1, Zenon
  <2>4. LET u == Promise!UntroubledTx(bits, opts.mode)[2]
        IN ~u[opts.mode] \/ (opts.mode = "constant" /\ u["random"])
    BY <1>t, Untroubled
  <2> QED BY <2>2, <2>3, <2>4 DEF CleanIsOff
<1>3. CASE Interrupt \/ Crash
  <2>1. CutRun /\ opts' = opts
    BY <1>3 DEF Interrupt, Crash
  <2> QED BY <1>s, <1>t, <2>1, Cutting DEF CleanIsOff
<1>4. CASE Hang
  <2>1. clean' = FALSE \/ UNCHANGED <<bits, clean, opts>>
    BY <1>4 DEF Hang, fpga
  <2> QED BY <1>s, <2>1 DEF CleanIsOff
<1>5. CASE \/ RunRttOrLoopback \/ Record \/ LoopsEnd \/ OpenSummary \/ FillSummary
           \/ SummarizeReturns \/ SummarizeRaises \/ Rebuild \/ Refuse \/ DryRun
           \/ UNCHANGED vars
  BY <1>5, <1>s DEF RunRttOrLoopback, Refuse, DryRun, Record, LoopsEnd, OpenSummary, FillSummary,
     SummarizeReturns, SummarizeRaises, Rebuild, vars, fpga
<1> QED BY <1>1, <1>2, <1>3, <1>4, <1>5 DEF Next, Step

\* What a failed run leaves in the FPGA spoils at most the next one of these options
\* (execute_fpga_tx_test).
THEOREM OneMoreSpoiled == Spec => TroubleSpoilsOneMore
<1>1. Init => CleanInv
  BY LoopsInit DEF Init, CleanInv, CleanIsOff
<1>2. CleanInv /\ [Next]_vars => CleanInv'
  BY TypesKept, LoopsKept, RowsKept, CleanKept DEF CleanInv, RowsInv
<1>3. CleanInv /\ RunTx /\ clean /\ clean' =>
        code' = 0 \/ (opts.mode = "constant" /\ bits["random"])
  <2> SUFFICES ASSUME CleanInv, RunTx, clean, clean'
               PROVE  code' = 0 \/ (opts.mode = "constant" /\ bits["random"])
    OBVIOUS
  <2>t. /\ bits \in [{"random", "constant"} -> BOOLEAN]
        /\ opts.mode \in {"random", "constant"} /\ opts.stop \in BOOLEAN
    BY Types DEF CleanInv, RowsInv
  <2>1. PICK o \in {Promise!UntroubledTx(bits, opts.mode)}
                     \cup Promise!TroubledTx(bits, opts.mode) :
          /\ o = Promise!UntroubledTx(bits, opts.mode)
          /\ Returned(o[1])
    BY DEF RunTx
  <2>2. code' = o[1]
    BY <2>t, <2>1, TxOutcomes, Returning
  <2> QED BY <2>t, <2>1, <2>2, Untroubled DEF CleanInv, CleanIsOff
<1>4. CleanInv => [RunTx /\ clean /\ clean' =>
                code' = 0 \/ (opts.mode = "constant" /\ bits["random"])]_vars
  BY <1>3
<1> QED BY <1>1, <1>2, <1>4, PTL DEF Spec, TroubleSpoilsOneMore
=============================================================================
