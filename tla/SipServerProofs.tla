--------------------------- MODULE SipServerProofs --------------------------
(***************************************************************************)
(* What bad_actor_log leaves in the JSON log, in the table and at the      *)
(* WebHook belongs together, for any number of messages, tasks and foreign *)
(* events, in every build and mode and whichever calls fail; and the C     *)
(* daemon answers only those it has on record.                             *)
(***************************************************************************)
EXTENDS SipServer, TLAPS

\* The file ends with the first block of the line of e, at the beginning of a line.
Begun(e) ==
    /\ Len(logfile) > 0
    /\ logfile[Len(logfile)] = <<e, 1>>
    /\ Len(logfile) = 1 \/ EndsLine(Len(logfile) - 1)

\* A call that is past a block of its line has appended it in the right place,
\* but for a failed write that went unnoticed and other threads' blocks.
LinesBehindCalls ==
    LogsJson => \A e \in Events \ (unseen \cup crossed) :
        /\ stage[e] = "json_rest" => Writes(e) = {1, 2} /\ Begun(e)
        /\ stage[e] \in {"insert", "webhook"} => Whole(e)
        /\ e \in rows => Whole(e)

\* A call that is past its insert has stored the event; only such a call posts it,
\* and then returns success if it returns.
StoredBehindCalls ==
    \A e \in Events :
        /\ stage[e] # "out" => outcome[e] = "none"
        /\ stage[e] = "webhook" \/ outcome[e] = "success" => e \in rows
        /\ e \in posted => stage[e] = "webhook" \/ outcome[e] = "success"

\* A task that is to reply may do so, and with the C daemon its event is stored.
RepliesEarned ==
    \A m \in Messages : task[m] = "reply" =>
        /\ mode.sip_responsive_mode
        /\ ~ NewMode => m \in rows

\* The inductive invariant: the parts about bad_actor_log, and all of it.
LogIInv == LogTypeOK /\ LinesBehindCalls /\ StoredBehindCalls
IInv == TypeOK /\ LogIInv /\ RepliesEarned /\ AnsweredIsStored

-----------------------------------------------------------------------------
(* bad_actor_log.                                                          *)

\* What the steps of the call for e have in common: they move no other call, take
\* nothing back, and append at most one block, which spoils the lines that others
\* are in the middle of.
LogFrame(e) ==
    /\ UNCHANGED <<variant, mode>>
    /\ stage' \in [Events -> Stages]
    /\ outcome' \in [Events -> {"none", "success", "failure"}]
    /\ \A d \in Events \ {e} : stage'[d] = stage[d] /\ outcome'[d] = outcome[d]
    /\ \/ UNCHANGED logfile
       \/ /\ \E b \in Blocks : logfile' = Append(logfile, b)
          /\ \A d \in Events \ {e} : stage[d] = "json_rest" => d \in crossed'
    /\ unseen \subseteq unseen' /\ unseen' \subseteq Events
    /\ crossed \subseteq crossed' /\ crossed' \subseteq Events
    /\ rows \subseteq rows' /\ rows' \subseteq rows \cup {e}
    /\ posted \subseteq posted' /\ posted' \subseteq posted \cup {e}
    /\ up' \in BOOLEAN

\* Every line has one block or two.
LEMMA WritesCases ==
    ASSUME NEW e
    PROVE  /\ Writes(e) = {1} \/ Writes(e) = {1, 2}
           /\ UNCHANGED variant => Writes(e)' = Writes(e)
BY DEF Writes, NewMode

\* What is in the file stays where it is.
LEMMA BlocksStay ==
    ASSUME logfile \in Seq(Blocks), NEW b \in Blocks, logfile' = Append(logfile, b)
    PROVE  /\ Len(logfile) \in Nat
           /\ Len(logfile') = Len(logfile) + 1
           /\ logfile'[Len(logfile) + 1] = b
           /\ \A i \in 1 .. Len(logfile) : logfile'[i] = logfile[i]
           /\ logfile' \in Seq(Blocks)
OBVIOUS

LEMMA EndsLineStays ==
    ASSUME logfile \in Seq(Blocks), NEW b \in Blocks, logfile' = Append(logfile, b),
           UNCHANGED variant, NEW i \in 1 .. Len(logfile)
    PROVE  EndsLine(i)' <=> EndsLine(i)
<1>1. logfile'[i] = logfile[i]
  BY BlocksStay
<1>2. Writes(logfile[i][1])' = Writes(logfile'[i][1])
  BY <1>1 DEF Writes, NewMode
<1> QED BY <1>1, WritesCases DEF EndsLine, Writes, NewMode

LEMMA WholeStays ==
    ASSUME logfile \in Seq(Blocks), UNCHANGED variant, NEW e,
           UNCHANGED logfile \/ \E b \in Blocks : logfile' = Append(logfile, b),
           Whole(e)
    PROVE  Whole(e)'
<1>1. CASE UNCHANGED logfile
  BY <1>1 DEF Whole, EndsLine, Writes, NewMode
<1>2. CASE \E b \in Blocks : logfile' = Append(logfile, b)
  <2>1. PICK b \in Blocks : logfile' = Append(logfile, b)
    BY <1>2
  <2>2. PICK i \in 1 .. Len(logfile) :
             /\ logfile[i] = <<e, 1>>
             /\ i = 1 \/ EndsLine(i - 1)
             /\ 2 \in Writes(e) => i < Len(logfile) /\ logfile[i + 1] = <<e, 2>>
    BY DEF Whole
  <2>3. Len(logfile) \in Nat /\ Len(logfile') = Len(logfile) + 1 /\ Writes(e)' = Writes(e)
    BY <2>1, BlocksStay, WritesCases
  <2>4. i \in 1 .. Len(logfile') /\ logfile'[i] = <<e, 1>>
    BY <2>1, <2>2, <2>3, BlocksStay
  <2>5. i = 1 \/ EndsLine(i - 1)'
    <3>1. CASE i = 1
      BY <3>1
    <3>2. CASE i # 1
      <4>1. i - 1 \in 1 .. Len(logfile)
        BY <2>3, <3>2
      <4> QED BY <2>1, <2>2, <3>2, <4>1, EndsLineStays
    <3> QED BY <3>1, <3>2
  <2>6. 2 \in Writes(e)' => i < Len(logfile') /\ logfile'[i + 1] = <<e, 2>>
    <3> SUFFICES ASSUME 2 \in Writes(e)
                 PROVE  i < Len(logfile') /\ logfile'[i + 1] = <<e, 2>>
      BY <2>3
    <3>1. i + 1 \in 1 .. Len(logfile) /\ logfile[i + 1] = <<e, 2>>
      BY <2>2, <2>3
    <3> QED BY <2>1, <2>3, <3>1, BlocksStay
  <2> QED BY <2>4, <2>5, <2>6 DEF Whole
<1> QED BY <1>1, <1>2

\* So it is enough to look at the call for e.
LEMMA FrameIInv ==
    ASSUME LogIInv, NEW e \in Events, LogFrame(e),
           LogsJson /\ e \notin unseen' \cup crossed' =>
               /\ stage'[e] = "json_rest" => Writes(e) = {1, 2} /\ Begun(e)'
               /\ stage'[e] \in {"insert", "webhook"} \/ e \in rows' => Whole(e)',
           /\ stage'[e] # "out" => outcome'[e] = "none"
           /\ stage'[e] = "webhook" \/ outcome'[e] = "success" => e \in rows'
           /\ e \in posted' => stage'[e] = "webhook" \/ outcome'[e] = "success"
    PROVE  LogIInv'
<1>0. logfile \in Seq(Blocks)
  BY DEF LogIInv, LogTypeOK
<1>1. LogTypeOK'
  <2>1. logfile' \in Seq(Blocks)
    BY <1>0, BlocksStay DEF LogFrame
  <2> QED BY <2>1 DEF LogIInv, LogTypeOK, LogFrame
<1>2. (LogsJson' <=> LogsJson) /\ \A d \in Events : Writes(d)' = Writes(d)
  BY DEF LogsJson, Recorded, Writes, NewMode, LogFrame
<1>3. LinesBehindCalls'
  <2> SUFFICES ASSUME LogsJson, NEW d \in Events \ (unseen' \cup crossed')
               PROVE  /\ stage'[d] = "json_rest" => Writes(d) = {1, 2} /\ Begun(d)'
                      /\ stage'[d] \in {"insert", "webhook"} => Whole(d)'
                      /\ d \in rows' => Whole(d)'
    BY <1>2 DEF LinesBehindCalls
  <2>1. CASE d = e
    BY <2>1
  <2>2. CASE d # e
    <3>1. Whole(d) => Whole(d)'
      BY <1>0, WholeStays DEF LogFrame
    <3>2. d \notin unseen \cup crossed /\ stage'[d] = stage[d] /\ (d \in rows' => d \in rows)
      BY <2>2 DEF LogFrame
    <3>3. /\ stage[d] = "json_rest" => Writes(d) = {1, 2} /\ Begun(d)
          /\ stage[d] \in {"insert", "webhook"} => Whole(d)
          /\ d \in rows => Whole(d)
      BY <3>2 DEF LogIInv, LinesBehindCalls
    <3>4. stage[d] = "json_rest" => UNCHANGED logfile
      BY <2>2 DEF LogFrame
    <3>5. UNCHANGED logfile => (Begun(d) => Begun(d)')
      BY DEF Begun, EndsLine, Writes, NewMode, LogFrame
    <3> QED BY <3>1, <3>2, <3>3, <3>4, <3>5
  <2> QED BY <2>1, <2>2
<1>4. StoredBehindCalls'
  BY DEF LogIInv, StoredBehindCalls, LogFrame
<1> QED BY <1>1, <1>3, <1>4 DEF LogIInv

LEMMA LogStartsIInv ==
    ASSUME LogIInv, NEW e \in Events, LogStarts(e)
    PROVE  LogIInv' /\ LogFrame(e)
<1> USE DEF LogStarts, LogGoes
<1>1. LogFrame(e)
  BY DEF LogFrame, LogIInv, LogTypeOK, Stages
<1>2. stage'[e] = IF LogsJson THEN "json" ELSE "insert"
  BY DEF LogIInv, LogTypeOK
<1>3. LogsJson /\ e \in rows /\ e \notin unseen \cup crossed => Whole(e)'
  BY WholeStays DEF LogIInv, LogTypeOK, LinesBehindCalls
<1>4. outcome'[e] = "none" /\ e \notin posted'
  BY DEF LogIInv, StoredBehindCalls
<1>5. LogsJson /\ e \notin unseen' \cup crossed' =>
        /\ stage'[e] \notin {"json_rest", "insert", "webhook"}
        /\ e \in rows' => Whole(e)'
  BY <1>2, <1>3
<1>6. stage'[e] # "webhook"
  BY <1>2
<1> HIDE DEF LogStarts, LogGoes
<1>7. LogIInv'
  BY <1>1, <1>4, <1>5, <1>6, FrameIInv
<1> QED BY <1>1, <1>7

\* Whatever a step of the call does, it satisfies LogFrame.
LEMMA LogWriteFrame ==
    ASSUME LogIInv, NEW e \in Events, LogWrite(e)
    PROVE  LogFrame(e)
<1>1. /\ stage' \in [Events -> Stages]
      /\ outcome' \in [Events -> {"none", "success", "failure"}]
      /\ \A d \in Events \ {e} : stage'[d] = stage[d] /\ outcome'[d] = outcome[d]
      /\ unseen \subseteq unseen' /\ unseen' \subseteq Events
  BY DEF LogWrite, AfterFailedWrite, LogGoes, LogReturns, LogIInv, LogTypeOK, Stages
<1>2. \/ UNCHANGED <<logfile, crossed>>
      \/ \E n \in {1, 2}, w \in {0, 1, 2} : AppendBlock(e, n, w)
  BY DEF LogWrite
<1>3. ASSUME NEW n \in {1, 2}, NEW w \in {0, 1, 2}, AppendBlock(e, n, w)
      PROVE  /\ \E b \in Blocks : logfile' = Append(logfile, b)
             /\ \A d \in Events \ {e} : stage[d] = "json_rest" => d \in crossed'
             /\ crossed \subseteq crossed' /\ crossed' \subseteq Events
  <2>1. <<e, w>> \in Blocks
    BY DEF Blocks
  <2> QED BY <1>3, <2>1 DEF AppendBlock, Spoils, LogIInv, LogTypeOK
<1>4. UNCHANGED <<variant, mode, rows, posted, up>> /\ crossed \subseteq Events /\ up \in BOOLEAN
  BY DEF LogWrite, LogIInv, LogTypeOK
<1>5. /\ \/ UNCHANGED logfile
         \/ /\ \E b \in Blocks : logfile' = Append(logfile, b)
            /\ \A d \in Events \ {e} : stage[d] = "json_rest" => d \in crossed'
      /\ crossed \subseteq crossed' /\ crossed' \subseteq Events
  BY <1>2, <1>3, <1>4
<1> QED BY <1>1, <1>4, <1>5 DEF LogFrame

\* Every step of bad_actor_log.
CallStep(e) == LogStep(e) \/ LogPost(e) \/ LogPostAborts(e)

LEMMA CallStepFrame ==
    ASSUME LogIInv, NEW e \in Events, CallStep(e)
    PROVE  LogFrame(e)
<1> USE DEF LogFrame, LogIInv, LogTypeOK, Stages, LogGoes, LogReturns
<1>1. CASE LogOpenFails(e)
  BY <1>1 DEF LogOpenFails
<1>2. CASE LogWrite(e)
  BY <1>2, LogWriteFrame
<1>3. CASE LogInsert(e)
  BY <1>3 DEF LogInsert
<1>4. CASE LogInsertFails(e)
  BY <1>4 DEF LogInsertFails, AfterFailedInsert
<1>5. CASE LogPost(e)
  BY <1>5 DEF LogPost
<1>6. CASE LogPostAborts(e)
  BY <1>6 DEF LogPostAborts
<1> QED BY <1>1, <1>2, <1>3, <1>4, <1>5, <1>6 DEF CallStep, LogStep

\* A first block that is appended at the beginning of a line begins one.
LEMMA FirstBlock ==
    ASSUME LogIInv, NEW e \in Events, UNCHANGED variant, AppendBlock(e, 1, 1),
           e \notin crossed'
    PROVE  Begun(e)' /\ (Writes(e) = {1} => Whole(e)')
<1>1. <<e, 1>> \in Blocks /\ logfile \in Seq(Blocks) /\ logfile' = Append(logfile, <<e, 1>>)
  BY DEF Blocks, LogIInv, LogTypeOK, AppendBlock
<1>0. PICK k \in Nat : k = Len(logfile)
  BY <1>1, BlocksStay
<1>2. k \in Nat /\ Len(logfile') = k + 1 /\ logfile'[k + 1] = <<e, 1>>
  BY <1>0, <1>1, BlocksStay
<1>3. logfile = <<>> \/ EndsLine(k)
  BY <1>0 DEF AppendBlock, Spoils, AtLineStart
<1>4. k + 1 = 1 \/ EndsLine((k + 1) - 1)'
  <2>1. CASE k = 0
    BY <2>1
  <2>2. CASE k # 0
    <3>1. k \in 1 .. Len(logfile) /\ logfile # <<>>
      BY <1>0, <2>2
    <3>2. EndsLine(k)'
      BY <1>1, <1>3, <3>1, EndsLineStays
    <3>3. (k + 1) - 1 = k
      BY <1>2
    <3> QED BY <3>2, <3>3
  <2> QED BY <2>1, <2>2
<1>5. Begun(e)'
  BY <1>2, <1>4 DEF Begun
<1>6. ASSUME Writes(e) = {1} PROVE Whole(e)'
  <2>1. 2 \notin Writes(e)'
    BY <1>6, WritesCases
  <2>2. k + 1 \in 1 .. Len(logfile')
    BY <1>2
  <2> QED BY <1>2, <1>4, <2>1, <2>2 DEF Whole
<1> QED BY <1>5, <1>6

\* A second block that follows the first completes the line.
LEMMA SecondBlock ==
    ASSUME LogIInv, NEW e \in Events, UNCHANGED variant, AppendBlock(e, 2, 2), Begun(e)
    PROVE  Whole(e)'
<1>1. <<e, 2>> \in Blocks /\ logfile \in Seq(Blocks) /\ logfile' = Append(logfile, <<e, 2>>)
  BY DEF Blocks, LogIInv, LogTypeOK, AppendBlock
<1>0. PICK k \in Nat : k = Len(logfile)
  BY <1>1, BlocksStay
<1>2. k \in Nat /\ Len(logfile') = k + 1 /\ logfile'[k + 1] = <<e, 2>>
  BY <1>0, <1>1, BlocksStay
<1>3. k \in 1 .. Len(logfile) /\ logfile'[k] = <<e, 1>>
  BY <1>0, <1>1, BlocksStay DEF Begun
<1>4. k = 1 \/ EndsLine(k - 1)'
  <2>1. CASE k = 1
    BY <2>1
  <2>2. CASE k # 1
    <3>1. k - 1 \in 1 .. Len(logfile)
      BY <1>0, <1>3, <2>2
    <3> QED BY <1>0, <1>1, <2>2, <3>1, EndsLineStays DEF Begun
  <2> QED BY <2>1, <2>2
<1>5. k \in 1 .. Len(logfile') /\ k < Len(logfile')
  BY <1>0, <1>2, <1>3
<1> QED BY <1>2, <1>3, <1>4, <1>5 DEF Whole

LEMMA LogWriteIInv ==
    ASSUME LogIInv, NEW e \in Events, LogWrite(e)
    PROVE  LogIInv'
<1>0. LogFrame(e)
  BY LogWriteFrame
<1>1. e \notin posted /\ outcome[e] = "none" /\ posted' = posted /\ UNCHANGED variant
  BY DEF LogWrite, LogIInv, StoredBehindCalls
<1>2. /\ stage'[e] # "out" => outcome'[e] = "none"
      /\ stage'[e] # "webhook" /\ outcome'[e] # "success"
  BY <1>1 DEF LogWrite, AfterFailedWrite, LogGoes, LogReturns, LogIInv, LogTypeOK
<1>3. ASSUME LogsJson, e \notin unseen' \cup crossed'
      PROVE  /\ stage'[e] = "json_rest" => Writes(e) = {1, 2} /\ Begun(e)'
             /\ stage'[e] \in {"insert", "webhook"} \/ e \in rows' => Whole(e)'
  <2>1. e \notin unseen \cup crossed
    BY <1>0, <1>3 DEF LogFrame
  <2>2. /\ stage[e] = "json_rest" => Writes(e) = {1, 2} /\ Begun(e)
        /\ e \in rows => Whole(e)
    BY <1>3, <2>1 DEF LogIInv, LinesBehindCalls
  <2>3. e \in rows' => Whole(e)'
    <3>1. rows' = rows /\ logfile \in Seq(Blocks)
      BY DEF LogWrite, LogIInv, LogTypeOK
    <3> QED BY <1>0, <1>1, <2>2, <3>1, WholeStays DEF LogFrame
  <2> DEFINE n == IF stage[e] = "json" THEN 1 ELSE 2
  <2>4. CASE /\ AppendBlock(e, n, n)
             /\ LogGoes(e, IF n + 1 \in Writes(e) THEN "json_rest" ELSE "insert")
    <3>1. stage'[e] = IF n + 1 \in Writes(e) THEN "json_rest" ELSE "insert"
      BY <2>4 DEF LogGoes, LogIInv, LogTypeOK
    <3>2. stage[e] = "json" \/ stage[e] = "json_rest"
      BY DEF LogWrite
    <3>3. CASE stage[e] = "json"
      <4>1. /\ stage'[e] = "json_rest" => Writes(e) = {1, 2}
            /\ stage'[e] = "insert" => Writes(e) = {1}
            /\ stage'[e] # "webhook"
        BY <3>1, <3>3, WritesCases
      <4>2. AppendBlock(e, 1, 1)
        BY <2>4, <3>3
      <4>3. Begun(e)' /\ (Writes(e) = {1} => Whole(e)')
        BY <1>1, <1>3, <4>2, FirstBlock
      <4> QED BY <2>3, <4>1, <4>3
    <3>4. CASE stage[e] = "json_rest"
      <4>1. stage'[e] = "insert"
        BY <2>2, <3>1, <3>4
      <4>2. AppendBlock(e, 2, 2)
        BY <2>4, <3>4
      <4>3. Whole(e)'
        BY <1>1, <2>2, <3>4, <4>2, SecondBlock
      <4> QED BY <4>1, <4>3
    <3> QED BY <3>2, <3>3, <3>4
  <2>5. CASE AfterFailedWrite(e, n)
    <3>1. stage'[e] = "out"
      BY <1>3, <2>5 DEF AfterFailedWrite, LogReturns, LogGoes, LogIInv, LogTypeOK
    <3> QED BY <2>3, <3>1
  <2> QED BY <2>4, <2>5 DEF LogWrite
<1> QED BY <1>0, <1>1, <1>2, <1>3, FrameIInv

LEMMA CallStepIInv ==
    ASSUME LogIInv, NEW e \in Events, CallStep(e)
    PROVE  LogIInv'
<1>0. LogFrame(e)
  BY CallStepFrame
<1>1. Whole(e) => Whole(e)'
  BY <1>0, WholeStays DEF LogFrame, LogIInv, LogTypeOK
<1>2. CASE LogWrite(e)
  BY <1>2, LogWriteIInv
<1>3. CASE LogOpenFails(e)
  <2>1. stage'[e] = "out" /\ outcome'[e] = "failure" /\ UNCHANGED <<rows, posted, unseen, crossed>>
    BY <1>3 DEF LogOpenFails, LogReturns, LogIInv, LogTypeOK
  <2> QED BY <1>0, <1>1, <1>3, <2>1, FrameIInv
          DEF LogIInv, LinesBehindCalls, StoredBehindCalls, LogOpenFails
<1>4. CASE LogInsert(e)
  <2>1. \/ stage'[e] = "webhook" /\ outcome'[e] = outcome[e]
        \/ stage'[e] = "out" /\ outcome'[e] = "success"
    BY <1>4 DEF LogInsert, LogReturns, LogGoes, LogIInv, LogTypeOK
  <2>2. e \in rows' /\ UNCHANGED <<posted, unseen, crossed>>
    BY <1>4 DEF LogInsert
  <2> QED BY <1>0, <1>1, <1>4, <2>1, <2>2, FrameIInv
          DEF LogIInv, LinesBehindCalls, StoredBehindCalls, LogInsert
<1>5. CASE LogInsertFails(e)
  <2>1. stage'[e] = "out" /\ outcome'[e] = "failure" /\ UNCHANGED <<posted, unseen, crossed>>
    BY <1>5 DEF LogInsertFails, AfterFailedInsert, LogReturns, LogIInv, LogTypeOK
  <2> QED BY <1>0, <1>1, <1>5, <2>1, FrameIInv
          DEF LogIInv, LinesBehindCalls, StoredBehindCalls, LogInsertFails
<1>6. CASE LogPost(e)
  <2>1. stage'[e] = "out" /\ outcome'[e] = "success" /\ UNCHANGED <<rows, unseen, crossed>>
    BY <1>6 DEF LogPost, LogReturns, LogIInv, LogTypeOK
  <2> QED BY <1>0, <1>1, <1>6, <2>1, FrameIInv
          DEF LogIInv, LinesBehindCalls, StoredBehindCalls, LogPost
<1>7. CASE LogPostAborts(e)
  <2>1. UNCHANGED <<stage, outcome, rows, unseen, crossed>>
    BY <1>7 DEF LogPostAborts
  <2> QED BY <1>0, <1>1, <1>7, <2>1, FrameIInv
          DEF LogIInv, LinesBehindCalls, StoredBehindCalls, LogPostAborts
<1> QED BY <1>2, <1>3, <1>4, <1>5, <1>6, <1>7 DEF CallStep, LogStep

-----------------------------------------------------------------------------
(* The callers.                                                            *)

\* Whatever leaves the log, the table and the calls alone, an abort included.
LEMMA SameLog ==
    ASSUME LogIInv, up' \in BOOLEAN,
           UNCHANGED <<variant, mode, stage, outcome, logfile, unseen, crossed, rows, posted>>
    PROVE  LogIInv'
<1>1. LogTypeOK'
  BY DEF LogIInv, LogTypeOK
<1>2. StoredBehindCalls'
  BY DEF LogIInv, StoredBehindCalls
<1>3. LogsJson' <=> LogsJson
  BY DEF LogsJson, Recorded
<1>4. \A e \in Events : Writes(e)' = Writes(e)
  BY WritesCases
<1>5. LinesBehindCalls'
  <2> SUFFICES ASSUME LogsJson, NEW e \in Events \ (unseen' \cup crossed')
               PROVE  /\ stage'[e] = "json_rest" => Writes(e) = {1, 2} /\ Begun(e)'
                      /\ stage'[e] \in {"insert", "webhook"} => Whole(e)'
                      /\ e \in rows' => Whole(e)'
    BY <1>3, <1>4 DEF LinesBehindCalls
  <2>1. Whole(e) => Whole(e)'
    BY WholeStays DEF LogIInv, LogTypeOK
  <2>2. Begun(e) => Begun(e)'
    BY DEF Begun, EndsLine, Writes, NewMode
  <2>3. /\ stage[e] = "json_rest" => Writes(e) = {1, 2} /\ Begun(e)
        /\ stage[e] \in {"insert", "webhook"} => Whole(e)
        /\ e \in rows => Whole(e)
    BY DEF LogIInv, LinesBehindCalls
  <2> QED BY <2>1, <2>2, <2>3
<1> QED BY <1>1, <1>2, <1>5 DEF LogIInv

\* No task moves and nobody is answered.
LEMMA OutsideIInv ==
    ASSUME IInv, up' \in BOOLEAN,
           UNCHANGED <<variant, mode, stage, outcome, logfile, unseen, crossed, rows, posted>>,
           UNCHANGED <<transport, task, replied>>,
           listener' \in [AllTransports -> {"up", "dead"}],
           daemon' \in DaemonPlaces, sent' \subseteq Messages
    PROVE  IInv'
<1>1. LogIInv'
  BY SameLog DEF IInv, LogIInv, LogTypeOK
<1>2. TypeOK'
  BY <1>1 DEF IInv, TypeOK, LogIInv
<1>3. RepliesEarned' /\ AnsweredIsStored'
  BY DEF IInv, RepliesEarned, AnsweredIsStored, NewMode
<1> QED BY <1>1, <1>2, <1>3 DEF IInv

LEMMA InitIInv == Init => IInv
<1> SUFFICES ASSUME Init PROVE IInv
  OBVIOUS
<1>1. LogIInv
  BY DEF Init, LogInit, LogIInv, LogTypeOK, LinesBehindCalls, StoredBehindCalls, Stages
<1>2. TypeOK
  BY <1>1 DEF Init, LogInit, TypeOK, LogIInv, TaskPlaces, DaemonPlaces, Events
<1>3. RepliesEarned /\ AnsweredIsStored
  BY DEF Init, RepliesEarned, AnsweredIsStored
<1> QED BY <1>1, <1>2, <1>3 DEF IInv

\* A step of the task of m that leaves bad_actor_log and the replies alone.
LEMMA TaskIInv ==
    ASSUME IInv, NEW m \in Messages, NEW place \in TaskPlaces, Become(m, place),
           UNCHANGED <<logVars, transport, listener, replied>>,
           daemon' \in DaemonPlaces, sent' \subseteq Messages,
           stage[m] = "out" \/ place = "logging",
           place = "reply" => mode.sip_responsive_mode /\ (~ NewMode => m \in rows)
    PROVE  IInv'
<1> USE DEF Become, logVars
<1>1. /\ task' \in [Messages -> TaskPlaces]
      /\ task'[m] = place
      /\ \A n \in Messages \ {m} : task'[n] = task[n]
  BY DEF IInv, TypeOK
<1>2. LogIInv'
  BY SameLog DEF IInv, LogIInv, LogTypeOK
<1>3. TypeOK'
  BY <1>1, <1>2 DEF IInv, TypeOK, LogIInv
<1>4. RepliesEarned' /\ AnsweredIsStored'
  BY <1>1 DEF IInv, RepliesEarned, AnsweredIsStored, NewMode
<1> QED BY <1>2, <1>3, <1>4 DEF IInv

\* No call of bad_actor_log is under way for a task that is not in it.
LEMMA OutUnlessLogging ==
    ASSUME IInv, NEW m \in Messages, task[m] # "logging"
    PROVE  stage[m] = "out"
BY DEF IInv, TypeOK

LEMMA PeerIInv ==
    ASSUME IInv, NEW m \in Messages, Arrive(m) \/ PeerSends(m)
    PROVE  IInv'
<1>1. CASE Arrive(m)
  <2>1. sent' \subseteq Messages /\ daemon' \in DaemonPlaces
    BY <1>1 DEF Arrive, IInv, TypeOK
  <2> QED BY <1>1, <2>1, TaskIInv, OutUnlessLogging DEF Arrive, TaskPlaces
<1>2. CASE PeerSends(m)
  <2>1. /\ up' \in BOOLEAN
        /\ listener' \in [AllTransports -> {"up", "dead"}]
        /\ daemon' \in DaemonPlaces
        /\ sent' \subseteq Messages
    BY <1>2 DEF PeerSends, logVars, IInv, TypeOK, LogTypeOK
  <2> QED BY <1>2, <2>1, OutsideIInv DEF PeerSends, logVars
<1> QED BY <1>1, <1>2

\* The steps between arrival and bad_actor_log, and past it.
LEMMA TaskGoesIInv ==
    ASSUME IInv, NEW m \in Messages,
           \/ Accept(m) \/ Handshake(m) \/ Read(m) \/ ReadNothing(m) \/ PeerFails(m)
           \/ ParseFails(m) \/ TaskPanics(m) \/ EndLog(m)
    PROVE  IInv'
<1> DEFINE Goes(place) ==
        /\ TaskGoes(m, place)
        /\ stage[m] = "out"
        /\ place = "reply" => mode.sip_responsive_mode /\ (~ NewMode => m \in rows)
<1>1. ASSUME NEW place \in TaskPlaces, Goes(place)
      PROVE  IInv'
  <2>1. sent' \subseteq Messages /\ daemon' \in DaemonPlaces
    BY <1>1 DEF TaskGoes, IInv, TypeOK
  <2> QED BY <1>1, <2>1, TaskIInv DEF TaskGoes
<1>2. \E place \in TaskPlaces : Goes(place)
  <2>1. CASE \/ Handshake(m) \/ Read(m) \/ ReadNothing(m) \/ PeerFails(m)
             \/ TaskPanics(m)
    <3>1. stage[m] = "out"
      BY <2>1, OutUnlessLogging DEF Handshake, Read, ReadNothing, PeerFails, TaskPanics
    <3>2. \E place \in {"reading", "ended", "ready", "panicked"} : TaskGoes(m, place)
      BY <2>1 DEF Handshake, Read, ReadNothing, PeerFails, TaskPanics
    <3> QED BY <3>1, <3>2 DEF TaskPlaces
  <2>2. CASE Accept(m)
    <3>1. stage[m] = "out"
      BY <2>2, OutUnlessLogging DEF Accept
    <3>2. transport[m] \in AllTransports
      BY ServerAssumption DEF IInv, TypeOK
    <3>3. \E place \in {"reading", "handshake", "ready"} : TaskGoes(m, place)
      BY <2>2, <3>2 DEF Accept, AllTransports
    <3> QED BY <3>1, <3>3 DEF TaskPlaces
  <2>3. CASE ParseFails(m)
    <3>1. stage[m] = "out"
      BY <2>3, OutUnlessLogging DEF ParseFails
    <3> QED BY <2>3, <3>1 DEF ParseFails, AfterLog, TaskPlaces
  <2>4. CASE EndLog(m)
    <3>1. outcome[m] = "success" => m \in rows
      BY DEF IInv, LogIInv, StoredBehindCalls, Events
    <3> QED BY <2>4, <3>1 DEF EndLog, AfterLog, TaskPlaces
  <2> QED BY <2>1, <2>2, <2>3, <2>4
<1> HIDE DEF Goes
<1> QED BY <1>1, <1>2

LEMMA DaemonIInv ==
    ASSUME IInv,
           \/ \E m \in Messages : DaemonTakes(m)
           \/ DaemonBlocks \/ RoundEnds \/ DaemonEnds \/ DaemonAborts
    PROVE  IInv'
<1>1. ASSUME NEW m \in Messages, DaemonTakes(m) PROVE IInv'
  <2>1. stage[m] = "out"
    BY <1>1, OutUnlessLogging DEF DaemonTakes
  <2>2. sent' \subseteq Messages /\ daemon' \in DaemonPlaces
    BY <1>1 DEF DaemonTakes, IInv, TypeOK, DaemonPlaces
  <2> QED BY <1>1, <2>1, <2>2, TaskIInv DEF DaemonTakes, TaskPlaces
<1>2. CASE DaemonBlocks \/ RoundEnds \/ DaemonEnds \/ DaemonAborts
  <2>1. /\ up' \in BOOLEAN
        /\ UNCHANGED <<variant, mode, stage, outcome, logfile, unseen, crossed, rows, posted>>
        /\ UNCHANGED <<transport, listener, task, sent, replied>>
        /\ daemon' \in DaemonPlaces
    BY <1>2 DEF DaemonBlocks, RoundEnds, DaemonEnds, DaemonAborts, logVars, serverVars, IInv,
       TypeOK, LogTypeOK, DaemonPlaces
  <2>2. listener \in [AllTransports -> {"up", "dead"}] /\ sent \subseteq Messages
    BY DEF IInv, TypeOK
  <2> QED BY <2>1, <2>2, OutsideIInv
<1> QED BY <1>1, <1>2

LEMMA ReplyIInv ==
    ASSUME IInv, NEW m \in Messages, Reply(m)
    PROVE  IInv'
<1> USE DEF Reply, Become, logVars
<1>1. /\ task' \in [Messages -> TaskPlaces]
      /\ task'[m] \in {"ended", "panicked"}
      /\ \A n \in Messages \ {m} : task'[n] = task[n]
  BY DEF IInv, TypeOK, TaskPlaces
<1>2. /\ replied' \subseteq replied \cup {m}
      /\ mode.sip_responsive_mode
      /\ ~ NewMode => m \in rows
  BY DEF IInv, RepliesEarned
<1>3. LogIInv'
  BY SameLog DEF IInv, LogIInv, LogTypeOK
<1>4. TypeOK'
  BY <1>1, <1>2, <1>3 DEF IInv, TypeOK, LogIInv
<1>5. RepliesEarned' /\ AnsweredIsStored'
  BY <1>1, <1>2 DEF IInv, RepliesEarned, AnsweredIsStored, NewMode
<1> QED BY <1>3, <1>4, <1>5 DEF IInv

\* A step of bad_actor_log, seen from its callers.
LEMMA LoggedIInv ==
    ASSUME IInv, NEW e \in Events, LogFrame(e), LogIInv',
           UNCHANGED <<transport, listener, daemon, sent, replied>>,
           task' \in [Messages -> TaskPlaces],
           \A m \in Messages : \/ task'[m] = task[m]
                               \/ m = e /\ task'[m] = "logging",
           e \in Messages => task'[e] = "logging"
    PROVE  IInv'
<1>1. TypeOK'
  BY DEF IInv, TypeOK, LogIInv, LogFrame, Events
<1>2. RepliesEarned' /\ AnsweredIsStored'
  BY DEF IInv, LogFrame, RepliesEarned, AnsweredIsStored, NewMode
<1> QED BY <1>1, <1>2 DEF IInv

LEMMA LogCallsIInv ==
    ASSUME IInv,
           \/ \E m \in Messages : StartLog(m)
           \/ \E f \in Foreign : CallbackLogs(f)
           \/ \E e \in Events : Log(e) \/ Post(e)
    PROVE  IInv'
<1>1. ASSUME NEW m \in Messages, StartLog(m) PROVE IInv'
  <2>1. /\ task' \in [Messages -> TaskPlaces]
        /\ task'[m] = "logging"
        /\ \A n \in Messages \ {m} : task'[n] = task[n]
    BY <1>1 DEF StartLog, Become, IInv, TypeOK, TaskPlaces
  <2>2. m \in Events /\ LogIInv' /\ LogFrame(m)
    BY <1>1, LogStartsIInv DEF StartLog, Events, IInv
  <2> QED BY <1>1, <2>1, <2>2, LoggedIInv DEF StartLog
<1>2. ASSUME NEW f \in Foreign, CallbackLogs(f) PROVE IInv'
  <2>1. f \in Events /\ f \notin Messages
    BY LogAssumption DEF Events
  <2>2. LogIInv' /\ LogFrame(f)
    BY <1>2, <2>1, LogStartsIInv DEF CallbackLogs, IInv
  <2>3. /\ task' \in [Messages -> TaskPlaces]
        /\ UNCHANGED <<transport, listener, daemon, task, sent, replied>>
    BY <1>2 DEF CallbackLogs, serverVars, IInv, TypeOK
  <2> QED BY <2>1, <2>2, <2>3, LoggedIInv
<1>3. ASSUME NEW e \in Events, Log(e) \/ Post(e) PROVE IInv'
  <2>1. LogIInv' /\ LogFrame(e)
    BY <1>3, CallStepIInv, CallStepFrame DEF Log, Post, CallStep, IInv
  <2>2. /\ task' \in [Messages -> TaskPlaces]
        /\ UNCHANGED <<transport, listener, daemon, task, sent, replied>>
    BY <1>3 DEF Log, Post, serverVars, IInv, TypeOK
  <2>3. stage[e] # "out"
    BY <1>3 DEF Log, Post, LogStep, LogOpenFails, LogWrite, LogInsert, LogInsertFails, LogPost,
       LogPostAborts
  <2>4. e \in Messages => task'[e] = "logging"
    BY <2>2, <2>3, OutUnlessLogging
  <2> QED BY <2>1, <2>2, <2>4, LoggedIInv
<1> QED BY <1>1, <1>2, <1>3

LEMMA StepIInv == IInv /\ [Next]_vars => IInv'
<1> SUFFICES ASSUME IInv, [Next]_vars PROVE IInv'
  OBVIOUS
<1>1. CASE \E m \in Messages :
             Arrive(m) \/ PeerSends(m) \/ PeerFails(m) \/ ReadNothing(m) \/ Task(m)
  BY <1>1, PeerIInv, TaskGoesIInv, DaemonIInv, ReplyIInv, LogCallsIInv DEF Task
<1>2. CASE \E x \in AllTransports : ListenerPanics(x)
  <2>1. listener' \in [AllTransports -> {"up", "dead"}]
        /\ UNCHANGED <<logVars, transport, daemon, task, sent, replied>>
    BY <1>2 DEF ListenerPanics, IInv, TypeOK
  <2>2. up' \in BOOLEAN /\ daemon' \in DaemonPlaces /\ sent' \subseteq Messages
    BY <2>1 DEF logVars, IInv, TypeOK, LogTypeOK
  <2> QED BY <2>1, <2>2, OutsideIInv DEF logVars
<1>3. CASE UNCHANGED vars
  <2>1. /\ up' \in BOOLEAN /\ daemon' \in DaemonPlaces /\ sent' \subseteq Messages
        /\ listener' \in [AllTransports -> {"up", "dead"}]
    BY <1>3 DEF vars, logVars, serverVars, IInv, TypeOK, LogTypeOK
  <2> QED BY <1>3, <2>1, OutsideIInv DEF vars, logVars, serverVars
<1> QED BY <1>1, <1>2, <1>3, DaemonIInv, LogCallsIInv DEF Next

LEMMA AlwaysIInv == Spec => []IInv
BY InitIInv, StepIInv, PTL DEF Spec

\* The state of tasks and calls is well typed: a call of bad_actor_log is under
\* way only for a task that is in it, and nobody is answered unless
\* sip_responsive_mode is on.
THEOREM TypeCorrect == Spec => []TypeOK
<1>1. IInv => TypeOK
  BY DEF IInv
<1> QED BY <1>1, AlwaysIInv, PTL

\* Every stored event has an unbroken line in the JSON log, from the beginning of
\* a line to a newline, unless a write of it failed that nobody was told of or
\* another thread's block came into it or was left before it.
THEOREM LogIsComplete == Spec => []LogCoversTable
<1>1. IInv => LogCoversTable
  BY DEF IInv, LogIInv, LogTypeOK, LinesBehindCalls, LogCoversTable
<1> QED BY <1>1, AlwaysIInv, PTL

\* The WebHook learns only of stored events, by calls that succeed.
THEOREM PostsAreStored == Spec => []PostedIsStored
<1>1. IInv => PostedIsStored
  BY DEF IInv, LogIInv, LogTypeOK, StoredBehindCalls, PostedIsStored
<1> QED BY <1>1, AlwaysIInv, PTL

\* With the C daemon everybody who got a reply is in table honey.
THEOREM AnswersAreStored == Spec => []AnsweredIsStored
<1>1. IInv => AnsweredIsStored
  BY DEF IInv
<1> QED BY <1>1, AlwaysIInv, PTL
=============================================================================
