-------------------------- MODULE TracerPartsProofs --------------------------
(***************************************************************************)
(* Proofs about the parts of a tracer: for any threads and any number of   *)
(* calls a span is reported at most once, and what is reported is what was *)
(* finished; for any references and requests a span starts where its       *)
(* parent left off; values of baggage items made of visible ASCII survive  *)
(* the escaping for a header; and all parts are well formed side by side.  *)
(***************************************************************************)
EXTENDS TracerParts, SamplerProofs, ThriftSenderProofs, QueryEscaping,
        SequenceTheorems

-----------------------------------------------------------------------------
(* The life of a span                                                      *)

Fields == [name : Nat, tags : Seq(Nat), logs : Seq(Nat), baggage : Nat,
           sampled : BOOLEAN, finished : BOOLEAN]

SpanOK ==
    /\ span \in Fields /\ atFinish \in Fields /\ reports \in Seq(Fields)
    /\ finishing \in [Caller -> {"idle", "finished", "reporting"}]
    /\ spansFinished \in Nat /\ uses \in Nat /\ resampled \in BOOLEAN

\* One thread at most has finished the span and not reported it yet; what it has still
\* to do has not been done.
OneFinisher ==
    /\ \A c, d \in Caller : finishing[c] # "idle" /\ finishing[d] # "idle" => c = d
    /\ \A c \in Caller : finishing[c] # "idle" => span.finished /\ reports = <<>>
    /\ \A c \in Caller : finishing[c] = "finished" => spansFinished = 0
    /\ ~span.finished => spansFinished = 0 /\ reports = <<>>
    /\ spansFinished <= 1

\* Sampling stays as it was at the finish unless a priority is set.
SampledAsFinished ==
    ~resampled /\ span.finished =>
        /\ span.sampled = atFinish.sampled
        /\ \A c \in Caller : finishing[c] = "reporting" => span.sampled

SpanInv == SpanOK /\ OneFinisher /\ SampledAsFinished /\ ReportedOnce /\ FinishedIsFrozen

-----------------------------------------------------------------------------
LEMMA SpanInitInv == SpanInit => SpanInv
<1> SUFFICES ASSUME SpanInit  PROVE SpanInv
    OBVIOUS
<1>0. <<>> \in Seq(Nat) /\ <<>> \in Seq(Fields) /\ Len(<<>>) = 0 /\ DOMAIN <<>> = {}
    OBVIOUS
<1>1. SpanOK
    <2>1. span.tags = <<>> /\ span.logs = <<>>  BY DEF SpanInit
    <2>2. PICK sampled \in BOOLEAN :
              span = [name |-> 0, tags |-> <<>>, logs |-> <<>>, baggage |-> 0,
                      sampled |-> sampled, finished |-> FALSE]
        BY <2>1 DEF SpanInit
    <2>3. 0 \in Nat /\ FALSE \in BOOLEAN  OBVIOUS
    <2>4. span \in Fields  BY <1>0, <2>2, <2>3 DEF Fields
    <2> QED  BY <1>0, <2>4 DEF SpanInit, SpanOK
<1>2. OneFinisher /\ SampledAsFinished  BY DEF SpanInit, OneFinisher, SampledAsFinished
<1>3. ReportedOnce /\ FinishedIsFrozen
    <2>1. ~span.finished /\ reports = <<>> /\ spansFinished = 0  BY DEF SpanInit
    <2> QED  BY <1>0, <2>1 DEF ReportedOnce, FinishedIsFrozen
<1> QED  BY <1>1, <1>2, <1>3 DEF SpanInv

LEMMA UsesCounted == ASSUME SpanOK, Use  PROVE uses' \in Nat
  BY DEF SpanOK, Use

\* A call that leaves what was finished, and changes the fields only as it may.
LEMMA ChangePreserves ==
    ASSUME SpanInv, NEW fields \in Fields, Use, Changed(fields),
           fields.finished = span.finished, fields.sampled = span.sampled,
           span.finished => AsFinished(fields)
    PROVE  SpanInv'
<1>1. SpanOK'  BY DEF SpanInv, SpanOK, Use, Changed
<1>2. OneFinisher'  BY DEF SpanInv, OneFinisher, Changed
<1>3. SampledAsFinished'  BY DEF SpanInv, SampledAsFinished, Changed
<1>4. ReportedOnce'  BY DEF SpanInv, ReportedOnce, Changed
<1>5. FinishedIsFrozen'  BY DEF SpanInv, FinishedIsFrozen, AsFinished, Changed
<1> QED  BY <1>1, <1>2, <1>3, <1>4, <1>5 DEF SpanInv

\* A span that is logged to keeps its logs.
LEMMA LoggedKeeps ==
    ASSUME SpanInv, Use, NEW fields \in Fields, fields.logs = span.logs,
           fields.finished = span.finished, fields.sampled = span.sampled,
           fields.name = span.name, fields.tags = span.tags
    PROVE  /\ Logged(fields) \in Fields
           /\ Logged(fields).finished = span.finished /\ Logged(fields).sampled = span.sampled
           /\ span.finished => AsFinished(Logged(fields))
<1>1. uses' \in Nat  BY DEF SpanInv, SpanOK, Use
<1>2. CASE span.sampled
    <2> DEFINE logs == Append(fields.logs, uses')
    <2>1. logs \in Seq(Nat) /\ Len(logs) = Len(span.logs) + 1
          /\ \A i \in 1..Len(span.logs) : logs[i] = span.logs[i]
        BY <1>1 DEF Fields
    <2>2. Logged(fields) = [fields EXCEPT !.logs = logs]  BY <1>2 DEF Logged
    <2>3. span.finished => AsFinished(span)  BY DEF SpanInv, FinishedIsFrozen
    <2> HIDE DEF logs
    <2>4. Logged(fields) \in Fields /\ Logged(fields).logs = logs
          /\ Logged(fields).name = span.name /\ Logged(fields).tags = span.tags
          /\ Logged(fields).finished = span.finished /\ Logged(fields).sampled = span.sampled
        BY <2>1, <2>2 DEF Fields
    <2>5. span.logs \in Seq(Nat) /\ atFinish.logs \in Seq(Nat)
        BY DEF SpanInv, SpanOK, Fields
    <2>6. ASSUME span.finished  PROVE AsFinished(Logged(fields))
        <3>1. /\ Len(atFinish.logs) <= Len(span.logs)
              /\ \A i \in DOMAIN atFinish.logs : span.logs[i] = atFinish.logs[i]
              /\ span.name = atFinish.name /\ span.tags = atFinish.tags
            BY <2>3, <2>6 DEF AsFinished
        <3>2. DOMAIN atFinish.logs = 1..Len(atFinish.logs) /\ Len(atFinish.logs) \in Nat
            BY <2>5
        <3>3. Len(span.logs) \in Nat  BY <2>5
        <3>4. Len(atFinish.logs) <= Len(logs)
              /\ \A i \in DOMAIN atFinish.logs : logs[i] = atFinish.logs[i]
            <4>1. Len(atFinish.logs) <= Len(logs)  BY <2>1, <3>1, <3>2, <3>3
            <4>2. ASSUME NEW i \in DOMAIN atFinish.logs  PROVE logs[i] = atFinish.logs[i]
                <5>1. i \in 1..Len(span.logs)  BY <3>1, <3>2, <3>3, <4>2
                <5> QED  BY <2>1, <3>1, <4>2, <5>1
            <4> QED  BY <4>1, <4>2
        <3> QED  BY <2>4, <2>6, <3>1, <3>4 DEF AsFinished
    <2> QED  BY <2>4, <2>6
<1>3. CASE ~span.sampled
    <2>1. Logged(fields) = fields  BY <1>3 DEF Logged
    <2> QED  BY <2>1 DEF SpanInv, FinishedIsFrozen, AsFinished
<1> QED  BY <1>2, <1>3

LEMMA SettingPreserves == ASSUME SpanInv, Setting  PROVE SpanInv'
<1>0. span \in Fields /\ (span.finished => AsFinished(span))
    BY DEF SpanInv, SpanOK, FinishedIsFrozen
<1>1. CASE SetOperationName
    <2> DEFINE fields == IF span.finished THEN span ELSE [span EXCEPT !.name = uses']
    <2>1. Use /\ Changed(fields)  BY <1>1 DEF SetOperationName
    <2>2. uses' \in Nat  BY <2>1, UsesCounted DEF SpanInv
    <2>3. fields \in Fields /\ fields.finished = span.finished /\ fields.sampled = span.sampled
        BY <1>0, <2>2 DEF Fields
    <2>4. span.finished => AsFinished(fields)  BY <1>0
    <2> HIDE DEF fields
    <2> QED  BY <2>1, <2>3, <2>4, ChangePreserves
<1>2. CASE SetTag
    <2> DEFINE tags == Append(span.tags, uses')
               fields == IF span.finished \/ ~span.sampled THEN span
                         ELSE [span EXCEPT !.tags = tags]
    <2>1. Use /\ Changed(fields)  BY <1>2 DEF SetTag
    <2>2. uses' \in Nat  BY <2>1, UsesCounted DEF SpanInv
    <2>3. tags \in Seq(Nat)  BY <1>0, <2>2 DEF Fields
    <2> HIDE DEF tags
    <2>4. fields \in Fields /\ fields.finished = span.finished /\ fields.sampled = span.sampled
        BY <1>0, <2>3 DEF Fields
    <2>5. span.finished => AsFinished(fields)  BY <1>0
    <2> HIDE DEF fields
    <2> QED  BY <2>1, <2>4, <2>5, ChangePreserves
<1>3. CASE Log
    <2>1. Use /\ Changed(Logged(span))  BY <1>3 DEF Log
    <2> QED  BY <1>0, <2>1, LoggedKeeps, ChangePreserves
<1>4. CASE SetBaggageItem
    <2> DEFINE fields == [span EXCEPT !.baggage = uses']
    <2>1. Use /\ Changed(Logged(fields))  BY <1>4 DEF SetBaggageItem
    <2>2. uses' \in Nat  BY <2>1, UsesCounted DEF SpanInv
    <2>3. /\ fields \in Fields /\ fields.logs = span.logs
          /\ fields.finished = span.finished /\ fields.sampled = span.sampled
          /\ fields.name = span.name /\ fields.tags = span.tags
        BY <1>0, <2>2 DEF Fields
    <2> HIDE DEF fields
    <2> QED  BY <2>1, <2>3, LoggedKeeps, ChangePreserves
<1>5. ASSUME NEW priority \in BOOLEAN, setSamplingPriority(priority)  PROVE SpanInv'
    <2>1. /\ span' = [span EXCEPT !.sampled = priority]
          /\ resampled' = (resampled \/ (span.finished /\ span.sampled # priority))
          /\ UNCHANGED <<finishing, spansFinished, reports, atFinish>> /\ Use
        BY <1>5 DEF setSamplingPriority
    <2>2. SpanOK'
        <3>1. span' \in Fields  BY <1>0, <2>1 DEF Fields
        <3> QED  BY <1>0, <2>1, <3>1, UsesCounted DEF SpanInv, SpanOK
    <2>3. OneFinisher'  BY <1>0, <2>1 DEF SpanInv, OneFinisher, Fields
    <2>4. SampledAsFinished'  BY <1>0, <2>1 DEF SpanInv, SpanOK, SampledAsFinished, Fields
    <2>5. ReportedOnce'  BY <2>1 DEF SpanInv, ReportedOnce
    <2>6. FinishedIsFrozen'  BY <1>0, <2>1 DEF SpanInv, FinishedIsFrozen, AsFinished, Fields
    <2> QED  BY <2>2, <2>3, <2>4, <2>5, <2>6 DEF SpanInv
<1> QED  BY <1>1, <1>2, <1>3, <1>4, <1>5 DEF Setting

LEMMA FinishPreserves ==
    ASSUME SpanInv, NEW c \in Caller, NEW records \in Seq(Nat), FinishWithOptions(c, records)
    PROVE  SpanInv'
<1>1. CASE span.finished
    <2>1. UNCHANGED <<span, finishing, atFinish, spansFinished, reports, resampled>> /\ Use
        BY <1>1 DEF FinishWithOptions
    <2> QED
        BY <2>1 DEF SpanInv, SpanOK, OneFinisher, SampledAsFinished, ReportedOnce,
                    FinishedIsFrozen, AsFinished, Use
<1>2. CASE ~span.finished
    <2>1. /\ span' = [span EXCEPT !.finished = TRUE, !.logs = @ \o records]
          /\ atFinish' = span' /\ finishing' = [finishing EXCEPT ![c] = "finished"]
          /\ UNCHANGED <<spansFinished, reports, resampled>> /\ Use
        BY <1>2 DEF FinishWithOptions
    <2>2. span' \in Fields /\ span'.finished
        <3>1. span \in Fields /\ span.logs \in Seq(Nat)  BY DEF SpanInv, SpanOK, Fields
        <3> DEFINE logs == span.logs \o records
        <3>2. logs \in Seq(Nat)  BY <3>1
        <3>3. span' = [span EXCEPT !.finished = TRUE, !.logs = logs]  BY <2>1
        <3> HIDE DEF logs
        <3> QED  BY <3>1, <3>2, <3>3 DEF Fields
    <2>3. spansFinished = 0 /\ reports = <<>> /\ \A d \in Caller : finishing[d] = "idle"
        BY <1>2 DEF SpanInv, OneFinisher
    <2>4. SpanOK'  BY <2>1, <2>2 DEF SpanInv, SpanOK, Use
    <2>5. OneFinisher'  BY <2>1, <2>2, <2>3 DEF SpanInv, SpanOK, OneFinisher
    <2>6. SampledAsFinished'  BY <2>1, <2>3 DEF SpanInv, SpanOK, SampledAsFinished
    <2>7. ReportedOnce'  BY <2>1, <2>3 DEF ReportedOnce
    <2>8. FinishedIsFrozen'
        BY <2>1, <2>2, <2>3 DEF FinishedIsFrozen, AsFinished, Fields
    <2> QED  BY <2>4, <2>5, <2>6, <2>7, <2>8 DEF SpanInv
<1> QED  BY <1>1, <1>2

LEMMA ReportPreserves == ASSUME SpanInv, NEW c \in Caller, Finishing(c)  PROVE SpanInv'
<1>1. CASE reportSpan(c)
    <2>1. SpanOK'  BY <1>1 DEF SpanInv, SpanOK, reportSpan
    <2>2. OneFinisher'  BY <1>1 DEF SpanInv, SpanOK, OneFinisher, reportSpan
    <2>3. SampledAsFinished'  BY <1>1 DEF SpanInv, SpanOK, OneFinisher, SampledAsFinished, reportSpan
    <2>4. ReportedOnce'  BY <1>1 DEF SpanInv, OneFinisher, ReportedOnce, reportSpan
    <2>5. FinishedIsFrozen'  BY <1>1 DEF SpanInv, FinishedIsFrozen, AsFinished, reportSpan
    <2> QED  BY <2>1, <2>2, <2>3, <2>4, <2>5 DEF SpanInv
<1>2. CASE report(c)
    <2>1. /\ finishing[c] = "reporting" /\ reports' = Append(reports, span)
          /\ finishing' = [finishing EXCEPT ![c] = "idle"]
          /\ UNCHANGED <<span, spansFinished, uses, atFinish, resampled>>
        BY <1>2 DEF report
    <2>2. reports = <<>> /\ span.finished  BY <2>1 DEF SpanInv, OneFinisher
    <2>3. reports' = <<span>> /\ Len(reports') = 1 /\ DOMAIN reports' = {1} /\ reports'[1] = span
        BY <2>1, <2>2
    <2>4. SpanOK'  BY <2>1, <2>3 DEF SpanInv, SpanOK
    <2>5. OneFinisher'  BY <2>1, <2>2 DEF SpanInv, SpanOK, OneFinisher
    <2>6. SampledAsFinished'  BY <2>1 DEF SpanInv, SpanOK, SampledAsFinished
    <2>7. ReportedOnce'
        BY <2>1, <2>2, <2>3 DEF SpanInv, OneFinisher, SampledAsFinished, ReportedOnce
    <2>8. FinishedIsFrozen'  BY <2>1, <2>2, <2>3 DEF SpanInv, FinishedIsFrozen, AsFinished
    <2> QED  BY <2>4, <2>5, <2>6, <2>7, <2>8 DEF SpanInv
<1> QED  BY <1>1, <1>2 DEF Finishing

LEMMA SpanSpecInv == SpanSpec => []SpanInv
<1>1. SpanInv /\ [SpanNext]_spanVars => SpanInv'
    <2> SUFFICES ASSUME SpanInv, [SpanNext]_spanVars  PROVE SpanInv'
        OBVIOUS
    <2>1. CASE Setting  BY <2>1, SettingPreserves
    <2>2. CASE \E c \in Caller : Finishing(c)  BY <2>2, ReportPreserves
    <2>3. CASE \E c \in Caller, records \in {<<>>, <<uses + 1>>} : FinishWithOptions(c, records)
        <3>1. <<>> \in Seq(Nat) /\ <<uses + 1>> \in Seq(Nat)  BY DEF SpanInv, SpanOK
        <3> QED  BY <2>3, <3>1, FinishPreserves
    <2>4. CASE UNCHANGED spanVars
        BY <2>4 DEF spanVars, SpanInv, SpanOK, OneFinisher, SampledAsFinished, ReportedOnce,
                    FinishedIsFrozen, AsFinished
    <2> QED  BY <2>1, <2>2, <2>3, <2>4 DEF SpanNext
<1> QED  BY SpanInitInv, <1>1, PTL DEF SpanSpec

\* However the calls of FinishWithOptions() overlap, the span is counted and reported
\* at most once, and only if it was sampled or a priority was set late.
THEOREM IsReportedOnce == SpanSpec => []ReportedOnce
<1>1. SpanInv => ReportedOnce  BY DEF SpanInv
<1> QED  BY SpanSpecInv, <1>1, PTL

\* Name, tags and logs of a finished span, and of the copy that is reported, are those
\* of the moment it was finished, with later logs at most.
THEOREM FinishedStaysFrozen == SpanSpec => []FinishedIsFrozen
<1>1. SpanInv => FinishedIsFrozen  BY DEF SpanInv
<1> QED  BY SpanSpecInv, <1>1, PTL

-----------------------------------------------------------------------------
(* How a span starts                                                       *)

\* What the loop has found among the references whose positions are in a set, for each
\* of the sets: what FoldLeft is defined by.
Found(f, refs, S) ==
    f = [s \in SUBSET S |-> IF s = {} THEN NoCandidate
                            ELSE Consider(f[s \ {Max(s)}], refs[Max(s)])]

LEMMA MaxOfInterval == \A n \in Nat \ {0} : Max(1 .. n) = n
BY DEF Max

LEMMA MaxIsIn ==
    ASSUME NEW n \in Nat, NEW s \in SUBSET (1 .. n), s # {}
    PROVE  Max(s) \in s /\ \A x \in s : Max(s) >= x
<1> DEFINE T == {m \in Nat : \A t \in SUBSET (1 .. m) : t # {} => \E x \in t : \A y \in t : x >= y}
<1>1. 0 \in T
  <2>1. 1 .. 0 = {}
    OBVIOUS
  <2> QED BY <2>1
<1>2. ASSUME NEW m \in Nat, m \in T PROVE m + 1 \in T
  <2> SUFFICES ASSUME NEW t \in SUBSET (1 .. m + 1), t # {}
               PROVE  \E x \in t : \A y \in t : x >= y
    OBVIOUS
  <2>1. CASE m + 1 \in t
    BY <2>1
  <2>2. CASE m + 1 \notin t
    <3>1. t \in SUBSET (1 .. m)
      BY <2>2
    <3> QED BY <1>2, <3>1
  <2> QED BY <2>1, <2>2
<1>3. n \in T
  <2> HIDE DEF T
  <2> QED BY <1>1, <1>2, SetInduction
<1> QED BY <1>3 DEF Max

LEMMA FoundExists ==
    ASSUME NEW refs, NEW n \in Nat
    PROVE  \E f : Found(f, refs, 1 .. n)
<1> DEFINE T == {m \in Nat : \E f : Found(f, refs, 1 .. m)}
<1>1. 0 \in T
  <2> DEFINE f == [s \in SUBSET (1 .. 0) |-> NoCandidate]
  <2>1. \A s \in SUBSET (1 .. 0) : s = {}
    OBVIOUS
  <2>2. Found(f, refs, 1 .. 0)
    BY <2>1 DEF Found
  <2> QED BY <2>2
<1>2. ASSUME NEW m \in Nat, m \in T PROVE m + 1 \in T
  <2>1. PICK f : Found(f, refs, 1 .. m)
    BY <1>2
  <2> DEFINE S == 1 .. m
             U == 1 .. m + 1
             g == [s \in SUBSET U |-> IF m + 1 \in s THEN Consider(f[s \ {m + 1}], refs[m + 1])
                                                     ELSE f[s]]
  <2>2. ASSUME NEW s \in SUBSET U
        PROVE  g[s] = IF s = {} THEN NoCandidate ELSE Consider(g[s \ {Max(s)}], refs[Max(s)])
    <3>1. CASE m + 1 \in s
      <4>1. Max(s) = m + 1
        <5>1. Max(s) \in s /\ Max(s) >= m + 1
          <6> DEFINE k == m + 1
          <6>1. k \in Nat /\ s \in SUBSET (1 .. k) /\ k \in s
            BY <3>1
          <6> HIDE DEF k
          <6> QED BY <6>1, MaxIsIn DEF k
        <5>2. Max(s) \in 1 .. m + 1
          BY <5>1
        <5> HIDE DEF g
        <5> QED BY <5>1, <5>2
      <4>2. s \ {m + 1} \in SUBSET U /\ m + 1 \notin s \ {m + 1} /\ s # {}
        BY <3>1
      <4>3. g[s \ {m + 1}] = f[s \ {m + 1}]
        BY <4>2
      <4> QED BY <3>1, <4>1, <4>2, <4>3
    <3>2. CASE m + 1 \notin s
      <4>1. s \in SUBSET S
        BY <3>2
      <4>2. f[s] = IF s = {} THEN NoCandidate ELSE Consider(f[s \ {Max(s)}], refs[Max(s)])
        BY <2>1, <4>1 DEF Found
      <4>3. g[s \ {Max(s)}] = f[s \ {Max(s)}]
        BY <3>2
      <4> QED BY <3>2, <4>2, <4>3
    <3> QED BY <3>1, <3>2
  <2>3. Found(g, refs, U)
    BY <2>2 DEF Found
  <2> HIDE DEF g
  <2> QED BY <2>3
<1>3. n \in T
  <2> HIDE DEF T
  <2> QED BY <1>1, <1>2, SetInduction
<1> QED BY <1>3

LEMMA CandidateIsFound ==
    ASSUME NEW n \in Nat, NEW refs, DOMAIN refs = 1 .. n
    PROVE  \E f : Found(f, refs, 1 .. n) /\ Candidate(refs) = f[1 .. n]
<1> DEFINE F == CHOOSE f : Found(f, refs, DOMAIN refs)
<1>1. Found(F, refs, DOMAIN refs)
  <2>1. \E f : Found(f, refs, DOMAIN refs)
    BY FoundExists
  <2> QED BY <2>1
<1>2. Candidate(refs) = F[DOMAIN refs]
  BY DEF Candidate, FoldLeft, MapThenFoldSet, Found
<1> HIDE DEF F
<1> QED BY <1>1, <1>2

\* The loop turn by turn.
Turns(h, refs, n) ==
    /\ h[0] = NoCandidate
    /\ \A i \in 1 .. n : h[i] = Consider(h[i - 1], refs[i])

LEMMA CandidateByTurns ==
    ASSUME NEW n \in Nat, NEW refs, DOMAIN refs = 1 .. n
    PROVE  \E h : Turns(h, refs, n) /\ Candidate(refs) = h[n]
<1>1. PICK f : Found(f, refs, 1 .. n) /\ Candidate(refs) = f[1 .. n]
  BY CandidateIsFound
<1> DEFINE h == [i \in 0 .. n |-> f[1 .. i]]
<1>2. h[0] = NoCandidate
  <2>1. 1 .. 0 = {}
    OBVIOUS
  <2> QED BY <1>1, <2>1 DEF Found
<1>3. ASSUME NEW i \in 1 .. n PROVE h[i] = Consider(h[i - 1], refs[i])
  <2>1. Max(1 .. i) = i /\ (1 .. i) \ {i} = 1 .. i - 1 /\ 1 .. i # {}
        /\ 1 .. i \in SUBSET (1 .. n)
    <3>1. i \in Nat \ {0} /\ i \in 1 .. i
      OBVIOUS
    <3>2. (1 .. i) \ {i} = 1 .. i - 1 /\ 1 .. i \in SUBSET (1 .. n)
      OBVIOUS
    <3> QED BY <3>1, <3>2, MaxOfInterval
  <2>2. f[1 .. i] = Consider(f[1 .. i - 1], refs[i])
    BY <1>1, <2>1 DEF Found
  <2> QED BY <2>2
<1>4. Turns(h, refs, n) /\ Candidate(refs) = h[n]
  BY <1>1, <1>2, <1>3 DEF Turns
<1> HIDE DEF h
<1> QED BY <1>4

LEMMA MinIs ==
    ASSUME NEW S \in SUBSET Nat, NEW j \in S, \A k \in S : j <= k
    PROVE  Min(S) = j
<1>1. \E x \in S : \A y \in S : x <= y
  OBVIOUS
<1>2. Min(S) \in S /\ \A y \in S : Min(S) <= y
  BY <1>1 DEF Min
<1>3. Min(S) \in Nat /\ j \in Nat /\ Min(S) <= j /\ j <= Min(S)
  BY <1>2
<1> QED BY <1>3

LEMMA MaxIs ==
    ASSUME NEW S \in SUBSET Nat, NEW j \in S, \A k \in S : k <= j
    PROVE  Max(S) = j
<1>1. \E x \in S : \A y \in S : x >= y
  OBVIOUS
<1>2. Max(S) \in S /\ \A y \in S : Max(S) >= y
  BY <1>1 DEF Max
<1>3. Max(S) \in Nat /\ j \in Nat /\ Max(S) >= j /\ j >= Max(S)
  BY <1>2
<1> QED BY <1>3

\* The positions of the usable references of one type among the first m.
Before(refs, type, m) == {i \in 1 .. m : Usable(refs[i]) /\ refs[i].type = type}

\* What the loop has found after m turns: the first ChildOf, or else the last FollowsFrom.
FoundAfter(found, refs, m) ==
    \/ \E j \in Before(refs, "ChildOf", m) :
        /\ \A k \in Before(refs, "ChildOf", m) : j <= k
        /\ found = [context |-> refs[j].context, hasParent |-> TRUE]
    \/ /\ Before(refs, "ChildOf", m) = {}
       /\ \E j \in Before(refs, "FollowsFrom", m) :
            /\ \A k \in Before(refs, "FollowsFrom", m) : k <= j
            /\ found = [context |-> refs[j].context, hasParent |-> FALSE]
    \/ /\ Before(refs, "ChildOf", m) = {} /\ Before(refs, "FollowsFrom", m) = {}
       /\ found = NoCandidate

LEMMA TurnFinds ==
    ASSUME NEW m \in Nat, NEW refs, NEW found, FoundAfter(found, refs, m),
           refs[m + 1].type \in {"ChildOf", "FollowsFrom", "Self"}
    PROVE  FoundAfter(Consider(found, refs[m + 1]), refs, m + 1)
<1> DEFINE ref == refs[m + 1]
<1>1. \A type : Before(refs, type, m + 1) =
        Before(refs, type, m) \cup {i \in {m + 1} : Usable(ref) /\ ref.type = type}
  BY DEF Before
<1>2. \A type : \A k \in Before(refs, type, m) : k \in Nat /\ k <= m
  BY DEF Before
<1>3. found.hasParent \in BOOLEAN /\ (found.hasParent <=> Before(refs, "ChildOf", m) # {})
  <2> DEFINE children == Before(refs, "ChildOf", m)
  <2>1. \/ children # {} /\ \E j \in children :
                found = [context |-> refs[j].context, hasParent |-> TRUE]
        \/ children = {} /\ \E c : found = [context |-> c, hasParent |-> FALSE]
    BY DEF FoundAfter, NoCandidate
  <2> HIDE DEF children
  <2>2. CASE children # {}
    <3>1. found.hasParent = TRUE
      BY <2>1, <2>2
    <3> QED BY <2>2, <3>1 DEF children
  <2>3. CASE children = {}
    <3>1. found.hasParent = FALSE
      BY <2>1, <2>3
    <3> QED BY <2>3, <3>1 DEF children
  <2> QED BY <2>2, <2>3
<1>4. CASE ~Usable(ref) \/ ref.type = "Self"
  <2>1. Consider(found, ref) = found
    BY <1>4 DEF Consider
  <2>2. /\ Before(refs, "ChildOf", m + 1) = Before(refs, "ChildOf", m)
        /\ Before(refs, "FollowsFrom", m + 1) = Before(refs, "FollowsFrom", m)
    BY <1>1, <1>4
  <2> QED BY <2>1, <2>2 DEF FoundAfter
<1>5. CASE Usable(ref) /\ found.hasParent
  <2>1. Consider(found, ref) = found
    BY <1>5 DEF Consider
  <2>2. PICK j \in Before(refs, "ChildOf", m) :
            /\ \A k \in Before(refs, "ChildOf", m) : j <= k
            /\ found = [context |-> refs[j].context, hasParent |-> TRUE]
    BY <1>3, <1>5 DEF FoundAfter
  <2>3. \A k \in Before(refs, "ChildOf", m + 1) : j <= k
    BY <1>1, <1>2, <2>2
  <2> QED BY <1>1, <2>1, <2>2, <2>3 DEF FoundAfter
<1>6. CASE Usable(ref) /\ ~found.hasParent /\ ref.type = "ChildOf"
  <2>1. Consider(found, ref) = [context |-> ref.context, hasParent |-> TRUE]
    BY <1>6 DEF Consider
  <2>2. Before(refs, "ChildOf", m + 1) = {m + 1}
    BY <1>1, <1>3, <1>6
  <2>3. \E j \in {m + 1} : /\ \A k \in {m + 1} : j <= k
                          /\ Consider(found, ref) = [context |-> refs[j].context, hasParent |-> TRUE]
    BY <2>1
  <2> QED BY <2>2, <2>3 DEF FoundAfter
<1>7. CASE Usable(ref) /\ ~found.hasParent /\ ref.type = "FollowsFrom"
  <2>1. Consider(found, ref) = [context |-> ref.context, hasParent |-> FALSE]
    BY <1>7 DEF Consider
  <2>2. /\ Before(refs, "ChildOf", m + 1) = {} /\ m + 1 \in Before(refs, "FollowsFrom", m + 1)
        /\ \A k \in Before(refs, "FollowsFrom", m + 1) : k <= m + 1
    BY <1>1, <1>2, <1>3, <1>7
  <2> QED BY <2>1, <2>2 DEF FoundAfter
<1> QED BY <1>4, <1>5, <1>6, <1>7

\* The loop finds the first ChildOf, or else the last FollowsFrom.
LEMMA CandidateIs ==
    ASSUME NEW n \in Nat, NEW refs, DOMAIN refs = 1 .. n,
           \A i \in 1 .. n : refs[i].type \in {"ChildOf", "FollowsFrom", "Self"}
    PROVE  FoundAfter(Candidate(refs), refs, n)
<1>1. PICK h : Turns(h, refs, n) /\ Candidate(refs) = h[n]
  BY CandidateByTurns
<1> DEFINE T == {m \in Nat : FoundAfter(h[m], refs, m)}
<1>2. 0 \in T
  BY <1>1 DEF Turns, FoundAfter, Before
<1>3. ASSUME NEW m \in 0 .. n - 1, m \in T PROVE m + 1 \in T
  <2>1. h[m + 1] = Consider(h[m], refs[m + 1])
    BY <1>1 DEF Turns
  <2> QED BY <1>3, <2>1, TurnFinds
<1>4. n \in T
  <2>1. \A m \in 0 .. n : m \in T
    <3> HIDE DEF T
    <3> QED BY <1>2, <1>3, Induction
  <2> QED BY <2>1
<1> QED BY <1>1, <1>4

\* What ParentChosen says, of the references and the parent that is chosen from them.
LEMMA ParentIs ==
    ASSUME NEW n \in Nat, NEW refs, DOMAIN refs = 1 .. n,
           \A i \in 1 .. n : refs[i].type \in {"ChildOf", "FollowsFrom", "Self"},
           request' = [references |-> refs, parent |-> Parent(refs)]
    PROVE  ParentChosen'
<1> DEFINE found == Candidate(refs)
           children == Before(refs, "ChildOf", n)
           followers == Before(refs, "FollowsFrom", n)
<1>1. FoundAfter(found, refs, n)
  BY CandidateIs
<1>2. Positions("ChildOf")' = children /\ Positions("FollowsFrom")' = followers
  BY DEF Positions, Before
<1>3. children \in SUBSET Nat /\ followers \in SUBSET Nat
  BY DEF Before
<1>4. ~IsValid(NoContext)
  BY DEF IsValid, NoContext
<1> HIDE DEF found, children, followers
<1>5. ASSUME NEW j \in children, \A k \in children : j <= k,
             found = [context |-> refs[j].context, hasParent |-> TRUE]
      PROVE  ParentChosen'
  <2>1. Min(children) = j
    BY <1>3, <1>5, MinIs
  <2>2. Parent(refs) = refs[j].context
    BY <1>5 DEF Parent, found
  <2> QED BY <1>2, <1>5, <2>1, <2>2 DEF ParentChosen
<1>6. ASSUME children = {}, NEW j \in followers, \A k \in followers : k <= j,
             found = [context |-> refs[j].context, hasParent |-> FALSE]
      PROVE  ParentChosen'
  <2>1. Max(followers) = j
    BY <1>3, <1>6, MaxIs
  <2>2. Parent(refs) = IF IsValid(refs[j].context) THEN refs[j].context ELSE NoContext
    BY <1>6 DEF Parent, found
  <2> QED BY <1>2, <1>6, <2>1, <2>2 DEF ParentChosen
<1>7. ASSUME children = {}, followers = {}, found = NoCandidate
      PROVE  ParentChosen'
  <2>1. Parent(refs) = NoContext
    BY <1>4, <1>7 DEF Parent, found, NoCandidate
  <2> QED BY <1>2, <1>7, <2>1 DEF ParentChosen
<1> QED BY <1>1, <1>5, <1>6, <1>7 DEF FoundAfter, children, followers

-----------------------------------------------------------------------------
(* The escaping of a baggage item's value                                  *)

\* Where scanning is after any characters.
ScanState == [out : Seq(Int), state : {"Default", "Percent", "FirstHex"}, hex : Int]

\* A character is escaped as characters.
LEMMA EscapedType == ASSUME NEW ch \in Int PROVE Escaped(ch) \in Seq(Int)
<1>1. Hex((ch + 256) \div 16, 65) \in Int /\ Hex(ch % 16, 65) \in Int /\ Hex(ch, 65) \in Int
      /\ Hex(ch \div 16, 65) \in Int
  BY DEF Hex
<1>2. HexOfInt(ch) \in Seq(Int)
  <2>1. [i \in 1 .. 6 |-> 70] \in Seq(Int)
    OBVIOUS
  <2> QED BY <1>1, <2>1 DEF HexOfInt
<1>3. <<Percent>> \in Seq(Int) /\ <<ch>> \in Seq(Int)
  BY DEF Percent
<1> QED BY <1>2, <1>3 DEF Escaped

\* One character more leaves such a state.
LEMMA ScanType == ASSUME NEW at \in ScanState, NEW ch \in Int PROVE Scan(at, ch) \in ScanState
<1>1. at.out \in Seq(Int) /\ at.hex \in Int /\ at.state \in {"Default", "Percent", "FirstHex"}
  BY DEF ScanState
<1>2. decodeHex(ch) \in Int /\ Hex(at.hex, 97) \in Int
  BY <1>1 DEF decodeHex, Hex
<1>3. \A chars \in Seq(Int) : [out |-> at.out \o chars, state |-> "Default", hex |-> 0] \in ScanState
  BY <1>1 DEF ScanState
<1>4. CASE at.state = "Default" /\ ch = Percent
  <2>1. Scan(at, ch) = [at EXCEPT !.state = "Percent"]
    BY <1>4 DEF Scan
  <2> QED BY <2>1 DEF ScanState
<1>5. CASE at.state = "Default" /\ ch # Percent
  <2>1. Scan(at, ch) = [out |-> at.out \o <<ch>>, state |-> "Default", hex |-> 0]
    BY <1>5 DEF Scan
  <2>2. <<ch>> \in Seq(Int)
    OBVIOUS
  <2> QED BY <1>3, <2>1, <2>2
<1>6. CASE at.state = "Percent" /\ isHex(ch)
  <2>1. Scan(at, ch) = [at EXCEPT !.state = "FirstHex", !.hex = decodeHex(ch)]
    BY <1>6 DEF Scan
  <2> QED BY <1>2, <2>1 DEF ScanState
<1>7. CASE at.state = "Percent" /\ ~isHex(ch)
  <2>1. Scan(at, ch) = [out |-> at.out \o <<Percent, ch>>, state |-> "Default", hex |-> 0]
    BY <1>7 DEF Scan
  <2>2. <<Percent, ch>> \in Seq(Int)
    BY DEF Percent
  <2> QED BY <1>3, <2>1, <2>2
<1>8. CASE at.state = "FirstHex" /\ isHex(ch)
  <2> DEFINE byte == at.hex * 16 + decodeHex(ch)
  <2>1. Scan(at, ch) = [out |-> at.out \o <<IF byte < 128 THEN byte ELSE byte - 256>>,
                        state |-> "Default", hex |-> 0]
    BY <1>8 DEF Scan
  <2>2. <<IF byte < 128 THEN byte ELSE byte - 256>> \in Seq(Int)
    BY <1>1, <1>2
  <2> QED BY <1>3, <2>1, <2>2
<1>9. CASE at.state = "FirstHex" /\ ~isHex(ch)
  <2>1. Scan(at, ch) = [out |-> at.out \o <<Percent, Hex(at.hex, 97), ch>>,
                        state |-> "Default", hex |-> 0]
    BY <1>9 DEF Scan
  <2>2. <<Percent, Hex(at.hex, 97), ch>> \in Seq(Int)
    BY <1>2 DEF Percent
  <2> QED BY <1>3, <2>1, <2>2
<1> QED BY <1>1, <1>4, <1>5, <1>6, <1>7, <1>8, <1>9

\* The largest of the numbers up to the next one.
LEMMA MaxUpTo ==
    ASSUME NEW n \in Nat
    PROVE  /\ Max(1 .. n + 1) = n + 1 /\ (1 .. n + 1) \ {n + 1} = 1 .. n /\ 1 .. n + 1 # {}
           /\ \A t \in SUBSET (1 .. n) : t # {} => Max(t) \in t
<1>1. \A y \in 1 .. n + 1 : (\A k \in 1 .. n + 1 : y >= k) <=> y = n + 1
  OBVIOUS
<1>2. Max(1 .. n + 1) = n + 1
  BY <1>1 DEF Max
<1>3. \A t \in SUBSET (1 .. n) : t # {} => Max(t) \in t
  BY Extremes DEF Max
<1> QED BY <1>2, <1>3

\* The equations of the two folds, over the sets of positions.
EscapeBody(f, s) == [t \in SUBSET DOMAIN s |->
    IF t = {} THEN <<>> ELSE f[t \ {Max(t)}] \o Escaped(s[Max(t)])]

ScanBody(f, s) == [t \in SUBSET DOMAIN s |->
    IF t = {} THEN [out |-> << >>, state |-> "Default", hex |-> 0]
    ELSE Scan(f[t \ {Max(t)}], s[Max(t)])]

\* queryEscape computes what its equation says, for a text of any length.
LEMMA EscapeIs ==
    ASSUME NEW s \in Seq(Int)
    PROVE  \E f : f = EscapeBody(f, s) /\ queryEscape(s) = f[DOMAIN s]
<1> DEFINE D == DOMAIN s
           V == Seq(Int)
           step == [e \in D \X V |-> e[2] \o Escaped(s[e[1]])]
           next == [t \in SUBSET D |-> Max(t)]
           g == CHOOSE f : f = EscapeBody(f, s)
<1>1. IsFiniteSet(D) /\ <<>> \in V /\ \A t \in SUBSET D : t # {} => next[t] \in t
  <2>1. PICK n \in Nat : D = 1 .. n
    OBVIOUS
  <2>2. IsFiniteSet(1 .. n) /\ \A t \in SUBSET (1 .. n) : t # {} => Max(t) \in t
    <3>1. IsFiniteSet(1 .. n)
      BY FS_Interval
    <3> QED BY <3>1, MaxUpTo
  <2> QED BY <2>1, <2>2
<1>2. step \in [D \X V -> V]
  <2>1. ASSUME NEW e \in D \X V PROVE e[2] \o Escaped(s[e[1]]) \in V
    BY EscapedType
  <2> HIDE DEF D, V
  <2> QED BY <2>1
<1>3. \E f : f = EscapeBody(f, s)
  <2> HIDE DEF D, V, step, next
  <2>1. PICK f : IsFold(f, D, V, <<>>, step, next)
    BY ONLY <1>1, <1>2, FoldExists
  <2>2. ASSUME NEW t \in SUBSET D, t # {}
        PROVE  step[<<next[t], f[t \ {next[t]}]>>] = f[t \ {Max(t)}] \o Escaped(s[Max(t)])
    <3>1. next[t] = Max(t) /\ Max(t) \in D
      BY <1>1, <2>2 DEF next
    <3>2. <<Max(t), f[t \ {Max(t)}]>> \in D \X V
      BY <2>1, <3>1 DEF IsFold
    <3> QED BY <3>1, <3>2 DEF step
  <2>3. f = EscapeBody(f, s)
    BY <2>1, <2>2 DEF IsFold, EscapeBody, D
  <2> QED BY <2>3
<1>4. queryEscape(s) = g[DOMAIN s]
  BY DEF queryEscape, FoldLeft, MapThenFoldSet, EscapeBody
<1>5. g = EscapeBody(g, s)
  BY <1>3
<1> HIDE DEF g
<1> QED BY <1>4, <1>5

\* And so does the scan of an escaped text.
LEMMA ScanIs ==
    ASSUME NEW s \in Seq(Int)
    PROVE  \E f : f = ScanBody(f, s) /\ Scanned(s) = f[DOMAIN s]
<1> DEFINE D == DOMAIN s
           V == ScanState
           start == [out |-> << >>, state |-> "Default", hex |-> 0]
           step == [e \in D \X V |-> Scan(e[2], s[e[1]])]
           next == [t \in SUBSET D |-> Max(t)]
           g == CHOOSE f : f = ScanBody(f, s)
<1>1. IsFiniteSet(D) /\ start \in V /\ \A t \in SUBSET D : t # {} => next[t] \in t
  <2>1. PICK n \in Nat : D = 1 .. n
    OBVIOUS
  <2>2. IsFiniteSet(1 .. n) /\ \A t \in SUBSET (1 .. n) : t # {} => Max(t) \in t
    <3>1. IsFiniteSet(1 .. n)
      BY FS_Interval
    <3> QED BY <3>1, MaxUpTo
  <2>3. start \in V
    BY DEF ScanState
  <2> QED BY <2>1, <2>2, <2>3
<1>2. step \in [D \X V -> V]
  <2>1. ASSUME NEW e \in D \X V PROVE Scan(e[2], s[e[1]]) \in V
    BY ScanType
  <2> HIDE DEF D, V
  <2> QED BY <2>1
<1>3. \E f : f = ScanBody(f, s)
  <2> HIDE DEF D, V, step, next, start
  <2>1. PICK f : IsFold(f, D, V, start, step, next)
    BY ONLY <1>1, <1>2, FoldExists
  <2>2. ASSUME NEW t \in SUBSET D, t # {}
        PROVE  step[<<next[t], f[t \ {next[t]}]>>] = Scan(f[t \ {Max(t)}], s[Max(t)])
    <3>1. next[t] = Max(t) /\ Max(t) \in D
      BY <1>1, <2>2 DEF next
    <3>2. <<Max(t), f[t \ {Max(t)}]>> \in D \X V
      BY <2>1, <3>1 DEF IsFold
    <3> QED BY <3>1, <3>2 DEF step
  <2>3. f = ScanBody(f, s)
    BY <2>1, <2>2 DEF IsFold, ScanBody, D, start
  <2> QED BY <2>3
<1>4. Scanned(s) = g[DOMAIN s]
  BY DEF Scanned, FoldLeft, MapThenFoldSet, ScanBody
<1>5. g = ScanBody(g, s)
  BY <1>3
<1> HIDE DEF g
<1> QED BY <1>4, <1>5

\* One character more is escaped behind the others.
LEMMA EscapeAppends ==
    ASSUME NEW s \in Seq(Int), NEW ch \in Int
    PROVE  queryEscape(Append(s, ch)) = queryEscape(s) \o Escaped(ch)
<1> DEFINE n == Len(s)
           r == Append(s, ch)
<1>1. /\ n \in Nat /\ DOMAIN s = 1 .. n /\ r \in Seq(Int) /\ DOMAIN r = 1 .. n + 1
      /\ r[n + 1] = ch /\ \A k \in 1 .. n : r[k] = s[k]
  OBVIOUS
<1>2. PICK f : f = EscapeBody(f, s) /\ queryEscape(s) = f[DOMAIN s]
  BY EscapeIs
<1> HIDE DEF r, n
<1>3. PICK g : g = EscapeBody(g, r) /\ queryEscape(r) = g[DOMAIN r]
  BY <1>1, EscapeIs
<1> DEFINE T == {t \in SUBSET (1 .. n) : f[t] = g[t]}
<1>4. \A t \in SUBSET (1 .. n) : t # {} => Max(t) \in t
  BY <1>1, MaxUpTo
<1>5. ASSUME NEW t \in SUBSET (1 .. n)
      PROVE  /\ t = {} => f[t] = <<>> /\ g[t] = <<>>
             /\ t # {} => /\ f[t] = f[t \ {Max(t)}] \o Escaped(s[Max(t)])
                          /\ g[t] = g[t \ {Max(t)}] \o Escaped(r[Max(t)])
  <2>1. t \in SUBSET DOMAIN s /\ t \in SUBSET DOMAIN r
    BY <1>1
  <2> QED BY <1>2, <1>3, <2>1 DEF EscapeBody
<1>6. {} \in T
  BY <1>5
<1>7. ASSUME NEW t \in SUBSET (1 .. n), t # {} PROVE \E i \in t : t \ {i} \in T => t \in T
  BY <1>1, <1>4, <1>5, <1>7
<1>8. 1 .. n \in T
  <2>1. IsFiniteSet(1 .. n)
    BY <1>1, FS_Interval
  <2> DEFINE D == 1 .. n
  <2>2. /\ IsFiniteSet(D) /\ {} \in T
        /\ \A t \in SUBSET D : t # {} => \E i \in t : t \ {i} \in T => t \in T
    BY <1>6, <1>7, <2>1
  <2>3. SUBSET D \subseteq T
    <3> HIDE DEF D, T
    <3> QED BY ONLY <2>2, SubsetInduction
  <2>4. D \in SUBSET D
    OBVIOUS
  <2> QED BY <2>3, <2>4
<1>9. g[1 .. n + 1] = g[1 .. n] \o Escaped(ch)
  <2>1. /\ 1 .. n + 1 \in SUBSET DOMAIN r /\ 1 .. n + 1 # {} /\ Max(1 .. n + 1) = n + 1
        /\ (1 .. n + 1) \ {n + 1} = 1 .. n
    BY <1>1, MaxUpTo
  <2>2. g[1 .. n + 1] = g[(1 .. n + 1) \ {Max(1 .. n + 1)}] \o Escaped(r[Max(1 .. n + 1)])
    BY <1>3, <2>1 DEF EscapeBody
  <2> QED BY <1>1, <2>1, <2>2
<1> QED BY <1>1, <1>2, <1>3, <1>8, <1>9 DEF r

\* One character more is scanned after the others.
LEMMA ScanAppends ==
    ASSUME NEW s \in Seq(Int), NEW ch \in Int
    PROVE  Scanned(Append(s, ch)) = Scan(Scanned(s), ch)
<1> DEFINE n == Len(s)
           r == Append(s, ch)
<1>1. /\ n \in Nat /\ DOMAIN s = 1 .. n /\ r \in Seq(Int) /\ DOMAIN r = 1 .. n + 1
      /\ r[n + 1] = ch /\ \A k \in 1 .. n : r[k] = s[k]
  OBVIOUS
<1>2. PICK f : f = ScanBody(f, s) /\ Scanned(s) = f[DOMAIN s]
  BY ScanIs
<1> HIDE DEF r, n
<1>3. PICK g : g = ScanBody(g, r) /\ Scanned(r) = g[DOMAIN r]
  BY <1>1, ScanIs
<1> DEFINE T == {t \in SUBSET (1 .. n) : f[t] = g[t]}
<1>4. \A t \in SUBSET (1 .. n) : t # {} => Max(t) \in t
  BY <1>1, MaxUpTo
<1>5. ASSUME NEW t \in SUBSET (1 .. n)
      PROVE  /\ t = {} => f[t] = g[t]
             /\ t # {} => /\ f[t] = Scan(f[t \ {Max(t)}], s[Max(t)])
                          /\ g[t] = Scan(g[t \ {Max(t)}], r[Max(t)])
  <2>1. t \in SUBSET DOMAIN s /\ t \in SUBSET DOMAIN r
    BY <1>1
  <2> QED BY <1>2, <1>3, <2>1 DEF ScanBody
<1>6. {} \in T
  BY <1>5
<1>7. ASSUME NEW t \in SUBSET (1 .. n), t # {} PROVE \E i \in t : t \ {i} \in T => t \in T
  BY <1>1, <1>4, <1>5, <1>7
<1>8. 1 .. n \in T
  <2>1. IsFiniteSet(1 .. n)
    BY <1>1, FS_Interval
  <2> DEFINE D == 1 .. n
  <2>2. /\ IsFiniteSet(D) /\ {} \in T
        /\ \A t \in SUBSET D : t # {} => \E i \in t : t \ {i} \in T => t \in T
    BY <1>6, <1>7, <2>1
  <2>3. SUBSET D \subseteq T
    <3> HIDE DEF D, T
    <3> QED BY ONLY <2>2, SubsetInduction
  <2>4. D \in SUBSET D
    OBVIOUS
  <2> QED BY <2>3, <2>4
<1>9. g[1 .. n + 1] = Scan(g[1 .. n], ch)
  <2>1. /\ 1 .. n + 1 \in SUBSET DOMAIN r /\ 1 .. n + 1 # {} /\ Max(1 .. n + 1) = n + 1
        /\ (1 .. n + 1) \ {n + 1} = 1 .. n
    BY <1>1, MaxUpTo
  <2>2. g[1 .. n + 1] = Scan(g[(1 .. n + 1) \ {Max(1 .. n + 1)}], r[Max(1 .. n + 1)])
    BY <1>3, <2>1 DEF ScanBody
  <2> QED BY <1>1, <2>1, <2>2
<1> QED BY <1>1, <1>2, <1>3, <1>8, <1>9 DEF r

\* The empty text is escaped, and scanned, as such.
LEMMA NothingScanned ==
    queryEscape(<<>>) = <<>> /\ Scanned(<<>>) = [out |-> << >>, state |-> "Default", hex |-> 0]
<1>1. <<>> \in Seq(Int) /\ DOMAIN <<>> = {}
  OBVIOUS
<1>2. PICK f : f = EscapeBody(f, <<>>) /\ queryEscape(<<>>) = f[DOMAIN <<>>]
  BY <1>1, EscapeIs
<1>3. PICK g : g = ScanBody(g, <<>>) /\ Scanned(<<>>) = g[DOMAIN <<>>]
  BY <1>1, ScanIs
<1>4. f[{}] = <<>> /\ g[{}] = [out |-> << >>, state |-> "Default", hex |-> 0]
  BY <1>1, <1>2, <1>3 DEF EscapeBody, ScanBody
<1> QED BY <1>1, <1>2, <1>3, <1>4

\* Between two escapes the state is the one scanning starts in.
Between(out) == [out |-> out, state |-> "Default", hex |-> 0]

\* What is written of a number below 16 reads as that number.
LEMMA DigitRoundTrip ==
    ASSUME NEW k \in 0 .. 15
    PROVE  isHex(Hex(k, 65)) /\ decodeHex(Hex(k, 65)) = k /\ Hex(k, 65) \in Int
<1>1. CASE k < 10
  BY <1>1 DEF Hex, isHex, decodeHex, Digits
<1>2. CASE k >= 10
  BY <1>2 DEF Hex, isHex, decodeHex, Digits
<1> QED BY <1>1, <1>2

\* One character, escaped, is scanned as that character, whatever is before it.
LEMMA CharRoundTrip ==
    ASSUME NEW ch \in 16 .. 127, NEW s \in Seq(Int), NEW out \in Seq(Int),
           Scanned(s) = Between(out)
    PROVE  Scanned(s \o Escaped(ch)) = Between(Append(out, ch))
<1>1. out \o <<ch>> = Append(out, ch)
  OBVIOUS
<1>2. CASE isUnreserved(ch)
  <2>1. Escaped(ch) = <<ch>> /\ ch # Percent
    BY <1>2 DEF Escaped, isUnreserved, Letters, Digits, Percent
  <2>2. s \o Escaped(ch) = Append(s, ch)
    BY <2>1
  <2>3. Scanned(s \o Escaped(ch)) = Scan(Between(out), ch)
    BY <2>2, ScanAppends
  <2>4. Scan(Between(out), ch) = Between(out \o <<ch>>)
    BY <2>1 DEF Scan, Between
  <2> QED BY <1>1, <2>3, <2>4
<1>3. CASE ~isUnreserved(ch)
  <2> DEFINE high == Hex(ch \div 16, 65)
             low == Hex(ch % 16, 65)
  <2>1. /\ ch \div 16 \in 0 .. 15 /\ ch % 16 \in 0 .. 15 /\ (ch \div 16) * 16 + (ch % 16) = ch
        /\ ch >= 16 /\ ch < 128 /\ ch \in Int
    OBVIOUS
  <2>2. /\ isHex(high) /\ decodeHex(high) = ch \div 16 /\ high \in Int
        /\ isHex(low) /\ decodeHex(low) = ch % 16 /\ low \in Int
    BY <2>1, DigitRoundTrip
  <2>3. Escaped(ch) = <<Percent>> \o <<high, low>>
    BY <1>3, <2>1 DEF Escaped, HexOfInt
  <2> HIDE DEF high, low
  <2>4. s \o Escaped(ch) = Append(Append(Append(s, Percent), high), low)
    <3>1. Percent \in Int /\ <<Percent>> \in Seq(Int) /\ Append(<<Percent>>, high) \in Seq(Int)
      BY <2>2 DEF Percent
    <3>2. <<Percent>> \o <<high, low>> = Append(Append(<<Percent>>, high), low)
      BY <2>2, <3>1
    <3>3. ASSUME NEW t \in Seq(Int), NEW c \in Int PROVE s \o Append(t, c) = Append(s \o t, c)
      OBVIOUS
    <3>4. s \o <<Percent>> = Append(s, Percent)
      BY <3>1
    <3>5. s \o Append(<<Percent>>, high) = Append(Append(s, Percent), high)
      BY <2>2, <3>1, <3>3, <3>4
    <3>6. s \o Append(Append(<<Percent>>, high), low) = Append(s \o Append(<<Percent>>, high), low)
      BY <2>2, <3>1, <3>3
    <3> QED BY <2>3, <3>2, <3>5, <3>6
  <2>5. /\ Percent \in Int /\ Append(s, Percent) \in Seq(Int)
        /\ Append(Append(s, Percent), high) \in Seq(Int)
    BY <2>2 DEF Percent
  <2>6. Scanned(Append(s, Percent)) = [out |-> out, state |-> "Percent", hex |-> 0]
    <3>1. Scanned(Append(s, Percent)) = Scan(Between(out), Percent)
      BY <2>5, ScanAppends
    <3> QED BY <3>1 DEF Scan, Between
  <2>7. Scanned(Append(Append(s, Percent), high))
            = [out |-> out, state |-> "FirstHex", hex |-> ch \div 16]
    <3>1. Scanned(Append(Append(s, Percent), high))
              = Scan([out |-> out, state |-> "Percent", hex |-> 0], high)
      BY <2>2, <2>5, <2>6, ScanAppends
    <3> QED BY <2>2, <3>1 DEF Scan
  <2>8. Scanned(Append(Append(Append(s, Percent), high), low)) = Between(out \o <<ch>>)
    <3> DEFINE at == [out |-> out, state |-> "FirstHex", hex |-> ch \div 16]
    <3>1. Scanned(Append(Append(Append(s, Percent), high), low)) = Scan(at, low)
      BY <2>2, <2>5, <2>7, ScanAppends
    <3>2. Scan(at, low) = LET byte == (ch \div 16) * 16 + (ch % 16)
                          IN  Between(out \o <<IF byte < 128 THEN byte ELSE byte - 256>>)
      BY <2>2 DEF Scan, Between
    <3> QED BY <2>1, <3>1, <3>2
  <2> QED BY <1>1, <2>4, <2>8
<1> QED BY <1>2, <1>3

\* A text of any length is escaped, and scanned, as a text.
LEMMA EscapingType ==
    ASSUME NEW s \in Seq(Int)
    PROVE  queryEscape(s) \in Seq(Int) /\ queryUnescape(s) \in Seq(Int)
<1> DEFINE T == {n \in Nat : \A r \in Seq(Int) : Len(r) = n =>
                    queryEscape(r) \in Seq(Int) /\ Scanned(r) \in ScanState}
<1>1. 0 \in T
  <2>1. \A r \in Seq(Int) : Len(r) = 0 => r = <<>>
    OBVIOUS
  <2>2. [out |-> << >>, state |-> "Default", hex |-> 0] \in ScanState
    BY DEF ScanState
  <2> QED BY <2>1, <2>2, NothingScanned
<1>2. ASSUME NEW n \in Nat, n \in T PROVE n + 1 \in T
  <2> SUFFICES ASSUME NEW r \in Seq(Int), Len(r) = n + 1
               PROVE  queryEscape(r) \in Seq(Int) /\ Scanned(r) \in ScanState
    OBVIOUS
  <2>1. PICK t \in Seq(Int), c \in Int : r = Append(t, c) /\ Len(t) = n
    <3>0. r # <<>>
      OBVIOUS
    <3>1. PICK t \in Seq(Int), c \in Int : r = Append(t, c)
      BY <3>0, SequenceEmptyOrAppend
    <3>2. Len(Append(t, c)) = Len(t) + 1 /\ Len(t) \in Nat
      OBVIOUS
    <3> QED BY <3>1, <3>2
  <2>2. queryEscape(t) \in Seq(Int) /\ Scanned(t) \in ScanState
    BY <1>2, <2>1
  <2>3. queryEscape(r) = queryEscape(t) \o Escaped(c) /\ Scanned(r) = Scan(Scanned(t), c)
    BY <2>1, EscapeAppends, ScanAppends
  <2>4. queryEscape(t) \o Escaped(c) \in Seq(Int)
    BY <2>2, EscapedType
  <2> QED BY <2>2, <2>3, <2>4, ScanType
<1>3. Len(s) \in T
  <2> HIDE DEF T
  <2> QED BY <1>1, <1>2, SetInduction
<1> QED BY <1>3 DEF queryUnescape, ScanState

\* A value of visible ASCII comes back, and the scan ends between two escapes.
LEMMA ValueSurvives ==
    ASSUME NEW s \in Seq(16 .. 127)
    PROVE  queryUnescape(queryEscape(s)) = s
<1> DEFINE T == {n \in Nat : \A r \in Seq(16 .. 127) : Len(r) = n =>
                    Scanned(queryEscape(r)) = Between(r)}
<1>1. 0 \in T
  <2>1. \A r \in Seq(16 .. 127) : Len(r) = 0 => r = <<>>
    OBVIOUS
  <2> QED BY <2>1, NothingScanned DEF Between
<1>2. ASSUME NEW n \in Nat, n \in T PROVE n + 1 \in T
  <2> SUFFICES ASSUME NEW r \in Seq(16 .. 127), Len(r) = n + 1
               PROVE  Scanned(queryEscape(r)) = Between(r)
    OBVIOUS
  <2> DEFINE Ascii == 16 .. 127
  <2>0. r \in Seq(Ascii) /\ Ascii \subseteq Int
    OBVIOUS
  <2> HIDE DEF Ascii
  <2>1. PICK t \in Seq(Ascii), c \in Ascii : r = Append(t, c) /\ Len(t) = n
    <3>0. r # <<>>
      OBVIOUS
    <3>1. PICK t \in Seq(Ascii), c \in Ascii : r = Append(t, c)
      BY <2>0, <3>0, SequenceEmptyOrAppend
    <3>2. Len(Append(t, c)) = Len(t) + 1 /\ Len(t) \in Nat
      OBVIOUS
    <3> QED BY <3>1, <3>2
  <2>2. t \in Seq(Int) /\ c \in Int
    BY <2>0, SeqMonotonic
  <2>3. queryEscape(t) \in Seq(Int) /\ Scanned(queryEscape(t)) = Between(t)
    <3>1. queryEscape(t) \in Seq(Int)
      BY <2>2, EscapingType
    <3> QED BY <1>2, <2>1, <3>1 DEF Ascii
  <2>4. queryEscape(r) = queryEscape(t) \o Escaped(c)
    BY <2>1, <2>2, EscapeAppends
  <2> QED BY <2>1, <2>2, <2>3, <2>4, CharRoundTrip DEF Ascii
<1>3. Len(s) \in T
  <2> HIDE DEF T
  <2>1. Len(s) \in Nat
    OBVIOUS
  <2> QED BY <1>1, <1>2, <2>1, SetInduction
<1> QED BY <1>3 DEF queryUnescape, Between

\* net/URI.cpp: a value of a baggage item, of any length, comes out of a header of HTTP
\* as it went in if it is made of characters in 16..127, as all visible ones of ASCII
\* and the space are.  For others it does not, as the run query_escape shows.
THEOREM AsciiSurvives ==
    ASSUME Char \subseteq 16 .. 127
    PROVE  TextSpec => []RoundTrip
<1>1. TextInit => text \in Seq(16 .. 127)
  BY DEF TextInit
<1>2. text \in Seq(16 .. 127) /\ [TextNext]_text => (text \in Seq(16 .. 127))'
  <2> SUFFICES ASSUME text \in Seq(16 .. 127), [TextNext]_text PROVE text' \in Seq(16 .. 127)
    OBVIOUS
  <2>1. ASSUME NEW ch \in Char, Extend(ch) PROVE text' \in Seq(16 .. 127)
    <3>1. ch \in 16 .. 127 /\ text' = Append(text, ch)
      BY <2>1 DEF Extend
    <3> QED BY <3>1
  <2> QED BY <2>1 DEF TextNext
<1>3. text \in Seq(16 .. 127) => RoundTrip
  BY ValueSurvives DEF RoundTrip
<1> QED BY <1>1, <1>2, <1>3, PTL DEF TextSpec

-----------------------------------------------------------------------------
(* What is handed on                                                       *)

\* Baggage has one item for a key.
Baggage == {map \in SUBSET Item : \A a, b \in map : a.key = b.key => a = b}

Context == [trace : Nat, span : Nat, parent : Nat, sampled : BOOLEAN, debug : BOOLEAN,
            baggage : Baggage, debugID : BOOLEAN, traceState : BOOLEAN]

LEMMA NoContextIs == NoContext \in Context /\ ~IsValid(NoContext)
BY DEF NoContext, Context, Baggage, IsValid

\* Items are sent, and received, as items.
LEMMA ItemsSent ==
    ASSUME NEW item \in Item, NEW format
    PROVE  /\ Encoded(item, format) \in Item /\ Encoded(item, format).key = item.key
           /\ Encoded(item, format).value = encodeValue(item.value, format)
           /\ Received(item, format) \in Item
<1>1. item.key \in Seq(Int) /\ item.value \in Seq(Int)
  BY DEF Item
<1>2. encodeValue(item.value, format) \in Seq(Int) /\ decodeValue(item.value, format) \in Seq(Int)
  BY <1>1, EscapingType DEF encodeValue, decodeValue
<1>3. normalizeKey(item.key, format) \in Seq(Int)
  <2>1. ASSUME NEW ch \in Int PROVE tolower(ch) \in Int
    BY DEF tolower
  <2>2. [i \in 1 .. Len(item.key) |-> tolower(item.key[i])] \in Seq(Int)
    <3>1. Len(item.key) \in Nat /\ \A i \in 1 .. Len(item.key) : item.key[i] \in Int
      BY <1>1, ElementOfSeq
    <3> DEFINE n == Len(item.key)
               f == [i \in 1 .. n |-> tolower(item.key[i])]
    <3>2. n \in Nat /\ f \in [1 .. n -> Int]
      BY <2>1, <3>1
    <3> HIDE DEF n, f
    <3>3. f \in Seq(Int)
      BY <3>2
    <3> QED BY <3>3 DEF f, n
  <2> QED BY <1>1, <2>2 DEF normalizeKey
<1> QED BY <1>2, <1>3 DEF Encoded, Received, Item

\* Merging items keeps one for every key, and those that are the only ones with theirs.
LEMMA MergedIs ==
    ASSUME NEW items \in SUBSET Item, NEW map \in Merged(items)
    PROVE  /\ map \in Baggage /\ Keys(map) = Keys(items)
           /\ \A item \in items :
                (\A other \in items : other.key = item.key => other = item) => item \in map
<1>1. /\ map \in SUBSET items /\ \A item \in items : \E kept \in map : kept.key = item.key
      /\ \A a, b \in map : a.key = b.key => a = b
  BY DEF Merged
<1>2. map \in Baggage
  BY <1>1 DEF Baggage
<1>3. Keys(map) = Keys(items)
  BY <1>1 DEF Keys
<1> QED BY <1>1, <1>2, <1>3

\* What a map of text in the format of Jaeger, or headers of HTTP, leave of baggage.
LEMMA MapIs ==
    ASSUME NEW before \in Baggage, NEW format \in {"jaeger", "text"},
           NEW map \in Merged({Received(Encoded(item, format), format) : item \in before})
    PROVE  map \in Baggage /\ Kept(map, before, format)
<1> DEFINE Sent(item) == Received(Encoded(item, format), format)
           items == {Sent(item) : item \in before}
<1>1. \A item \in before : item \in Item /\ item = [key |-> item.key, value |-> item.value]
  BY DEF Baggage, Item
<1>2. ASSUME NEW item \in before
      PROVE  /\ Sent(item) \in Item /\ Sent(item).key = normalizeKey(item.key, format)
             /\ Sent(item).value = decodeValue(encodeValue(item.value, format), format)
             /\ Sent(item) = [key |-> normalizeKey(item.key, format),
                              value |-> decodeValue(encodeValue(item.value, format), format)]
  BY <1>1, ItemsSent DEF Received
<1>3. items \in SUBSET Item
  BY <1>2
<1> HIDE DEF items
<1>4. /\ map \in Baggage /\ Keys(map) = Keys(items)
      /\ \A item \in items :
            (\A other \in items : other.key = item.key => other = item) => item \in map
  BY <1>3, MergedIs DEF items
<1> HIDE DEF Sent
<1>5. CASE format = "text"
  <2>1. \A item \in before : Sent(item) = item
    BY <1>1, <1>2, <1>5 DEF normalizeKey, encodeValue, decodeValue
  <2>2. items = before
    BY <2>1 DEF items
  <2>3. before \subseteq map
    BY <1>4, <2>2 DEF Baggage
  <2>4. map \subseteq items
    BY DEF Merged, items, Sent
  <2>5. map = before
    BY <2>2, <2>3, <2>4
  <2> QED BY <1>4, <1>5, <2>5 DEF Kept
<1>6. CASE format = "jaeger"
  <2>1. Keys(items) = {normalizeKey(key, "jaeger") : key \in Keys(before)}
    BY <1>2, <1>6 DEF Keys, items
  <2>2. ASSUME NEW item \in Plain(before) PROVE item \in map
    <3>1. /\ item \in before /\ normalizeKey(item.key, "jaeger") = item.key
          /\ \A other \in before : normalizeKey(other.key, "jaeger") = item.key => other = item
          /\ item.value \in Seq(16 .. 127)
      BY DEF Plain
    <3>2. decodeValue(encodeValue(item.value, "jaeger"), "jaeger") = item.value
      BY <3>1, ValueSurvives DEF encodeValue, decodeValue
    <3>3. Sent(item) = item
      BY <1>1, <1>2, <1>6, <3>1, <3>2
    <3>4. item \in items
      BY <3>1, <3>3 DEF items
    <3>5. ASSUME NEW other \in items, other.key = item.key PROVE other = item
      <4>1. PICK o \in before : other = Sent(o)
        BY DEF items
      <4> QED BY <1>2, <1>6, <3>1, <3>3, <3>5, <4>1
    <3> QED BY <1>4, <3>4, <3>5
  <2> QED BY <1>4, <1>6, <2>1, <2>2 DEF Kept
<1> QED BY <1>5, <1>6

\* What two contexts of the same span have in common.
Same(c, d) ==
    /\ c.trace = d.trace /\ c.span = d.span /\ c.sampled = d.sampled /\ c.debug = d.debug

LEMMA IdsIs ==
    ASSUME NEW ctx \in Context
    PROVE  Ids(ctx) \in ContextIds /\ [Ids(ctx) EXCEPT !.parent = 0] \in ContextIds
BY DEF Ids, ContextIds, Context

LEMMA DecodedIs ==
    ASSUME NEW headers, NEW name, NEW ctx \in Context,
           name \in DOMAIN headers => headers[name] \in ContextIds \cup {corrupted}
    PROVE  /\ Decoded(headers, name, ctx) \in Context
           /\ name \in DOMAIN headers /\ IsValid(Decoded(headers, name, ctx)) =>
                /\ headers[name] \in ContextIds
                /\ Same(Decoded(headers, name, ctx), headers[name])
                /\ Decoded(headers, name, ctx).baggage = ctx.baggage
<1> DEFINE ids_ == ValueOf(headers, name, Ids(NoContext))
           d == [ctx EXCEPT !.trace = ids_.trace, !.span = ids_.span, !.parent = ids_.parent,
                            !.sampled = ids_.sampled, !.debug = ids_.debug]
<1>1. ids_ \in ContextIds \cup {corrupted} /\ (name \in DOMAIN headers => ids_ = headers[name])
  BY NoContextIs, IdsIs DEF ValueOf
<1>2. CASE name \in DOMAIN headers /\ (ids_ = corrupted \/ ids_.trace = 0)
  <2>1. Decoded(headers, name, ctx) = NoContext
    BY <1>2 DEF Decoded
  <2> QED BY <2>1, NoContextIs
<1>3. CASE ~(name \in DOMAIN headers /\ (ids_ = corrupted \/ ids_.trace = 0))
  <2>1. Decoded(headers, name, ctx) = d
    BY <1>3 DEF Decoded
  <2>2. ids_ \in ContextIds
    BY <1>1, <1>3, NoContextIs, IdsIs DEF ValueOf
  <2> HIDE DEF ids_
  <2>3. d \in Context /\ Same(d, ids_) /\ d.baggage = ctx.baggage
    BY <2>2 DEF Context, ContextIds, Same
  <2> HIDE DEF d
  <2> QED BY <1>1, <2>1, <2>2, <2>3
<1> QED BY <1>2, <1>3

\* A debugging header aside, a valid context that is extracted is the decoded one.
LEMMA DebuggedIs ==
    ASSUME NEW ctx \in Context, NEW debugID \in BOOLEAN
    PROVE  /\ Debugged(ctx, debugID) \in Context
           /\ ~debugID /\ IsValid(Debugged(ctx, debugID)) =>
                /\ Same(Debugged(ctx, debugID), ctx) /\ IsValid(ctx)
                /\ Debugged(ctx, debugID).baggage = ctx.baggage
<1> DEFINE e == [ctx EXCEPT !.sampled = @ \/ debugID, !.debug = @ \/ debugID, !.debugID = debugID]
<1>1. Debugged(ctx, debugID) = NoContext \/ Debugged(ctx, debugID) = e
  BY DEF Debugged
<1>2. e \in Context /\ (~debugID => Same(e, ctx)) /\ e.baggage = ctx.baggage
  <2>1. ctx.sampled \in BOOLEAN /\ ctx.debug \in BOOLEAN
    BY DEF Context
  <2>2. (ctx.sampled \/ debugID) \in BOOLEAN /\ (ctx.debug \/ debugID) \in BOOLEAN
    OBVIOUS
  <2>3. ~debugID => (ctx.sampled \/ debugID) = ctx.sampled /\ (ctx.debug \/ debugID) = ctx.debug
    BY <2>1
  <2> QED BY <2>1, <2>2, <2>3 DEF Context, Same
<1> HIDE DEF e
<1> QED BY <1>1, <1>2, NoContextIs DEF Same, IsValid

\* A request from elsewhere brings a context.
LEMMA ReceivedIs ==
    ASSUME NEW headers \in Headers, NEW format \in Format \ {"binary"}
    PROVE  extract(headers, format) \subseteq Context
<1>1. \A name \in {"uber-trace-id", "traceparent"} :
        name \in DOMAIN headers => headers[name] \in ContextIds \cup {corrupted}
  BY HeadersAssumption
<1>2. ASSUME format \in {"jaeger", "text"} PROVE doExtract(headers, format) \subseteq Context
  <2> DEFINE items == {Received(item, format) : item \in ValueOf(headers, "uberctx-", {})}
                      \cup ValueOf(headers, "jaeger-baggage", {})
  <2>1. /\ ValueOf(headers, "uberctx-", {}) \in SUBSET Item
        /\ ValueOf(headers, "jaeger-baggage", {}) \in SUBSET Item
    BY HeadersAssumption DEF ValueOf
  <2>2. items \in SUBSET Item
    BY <2>1, ItemsSent
  <2> HIDE DEF items
  <2>3. ASSUME NEW map \in Merged(items)
        PROVE  Decoded(headers, "uber-trace-id", [NoContext EXCEPT !.baggage = map]) \in Context
    <3>1. [NoContext EXCEPT !.baggage = map] \in Context
      BY <2>2, MergedIs, NoContextIs DEF Context
    <3> QED BY <1>1, <3>1, DecodedIs
  <2>4. doExtract(headers, format)
            = {Decoded(headers, "uber-trace-id", [NoContext EXCEPT !.baggage = map]) :
                  map \in Merged(items)}
    BY <1>2 DEF doExtract, Baggages, items
  <2> QED BY <2>3, <2>4
<1>3. ASSUME format = "w3c" PROVE doExtract(headers, format) \subseteq Context
  <2> DEFINE t == "tracestate" \in DOMAIN headers
             c == [NoContext EXCEPT !.traceState = t]
  <2>1. c \in Context
    <3>1. t \in BOOLEAN
      OBVIOUS
    <3> HIDE DEF t
    <3> QED BY <3>1, NoContextIs DEF Context
  <2>2. doExtract(headers, format) = {Decoded(headers, "traceparent", c)}
    BY <1>3 DEF doExtract
  <2> HIDE DEF c
  <2>3. Decoded(headers, "traceparent", c) \in Context
    BY <1>1, <2>1, DecodedIs
  <2> QED BY <2>2, <2>3
<1>4. doExtract(headers, format) \subseteq Context
  BY <1>2, <1>3 DEF Format
<1>5. ("jaeger-debug-id" \in DOMAIN headers) \in BOOLEAN
  OBVIOUS
<1> QED BY <1>4, <1>5, DebuggedIs DEF extract

\* What one tracer injects another extracts: the same span, with what the format leaves
\* of its baggage, or nothing that is valid.
LEMMA HopIs ==
    ASSUME NEW ctx \in Context, NEW format \in Format,
           NEW e \in extract(doInject(ctx, format), format)
    PROVE  /\ e \in Context
           /\ IsValid(e) => Same(e, ctx) /\ Kept(e.baggage, ctx.baggage, format)
<1> DEFINE headers == doInject(ctx, format)
<1>0. PICK d \in doExtract(headers, format) :
        e = Debugged(d, "jaeger-debug-id" \in DOMAIN headers)
  BY DEF extract
<1>1. ASSUME format \in {"jaeger", "text"}
      PROVE  /\ "jaeger-debug-id" \notin DOMAIN headers /\ d \in Context
             /\ IsValid(d) => Same(d, ctx) /\ Kept(d.baggage, ctx.baggage, format)
  <2>1. /\ DOMAIN headers = {"uber-trace-id", "uberctx-"}
        /\ headers["uber-trace-id"] = Ids(ctx)
        /\ headers["uberctx-"] = {Encoded(item, format) : item \in ctx.baggage}
    BY <1>1 DEF doInject
  <2> HIDE DEF headers
  <2>2. Baggages(headers, format)
            = Merged({Received(Encoded(item, format), format) : item \in ctx.baggage})
    <3>1. /\ ValueOf(headers, "uberctx-", {}) = {Encoded(item, format) : item \in ctx.baggage}
          /\ ValueOf(headers, "jaeger-baggage", {}) = {}
      BY <2>1 DEF ValueOf
    <3>2. {Received(item, format) : item \in ValueOf(headers, "uberctx-", {})}
              \cup ValueOf(headers, "jaeger-baggage", {})
            = {Received(Encoded(item, format), format) : item \in ctx.baggage}
      BY <3>1
    <3> QED BY <3>2 DEF Baggages
  <2>3. PICK map \in Baggages(headers, format) :
            d = Decoded(headers, "uber-trace-id", [NoContext EXCEPT !.baggage = map])
    BY <1>0, <1>1 DEF doExtract
  <2>4. ctx.baggage \in Baggage
    BY DEF Context
  <2>5. map \in Baggage /\ Kept(map, ctx.baggage, format)
    BY <1>1, <2>2, <2>3, <2>4, MapIs
  <2> DEFINE c == [NoContext EXCEPT !.baggage = map]
  <2>6. c \in Context /\ c.baggage = map
    BY <2>5, NoContextIs DEF Context
  <2> HIDE DEF c
  <2>7. "uber-trace-id" \in DOMAIN headers /\ headers["uber-trace-id"] \in ContextIds
    BY <2>1, IdsIs
  <2>8. /\ d \in Context
        /\ IsValid(d) => Same(d, Ids(ctx)) /\ d.baggage = map
    <3>1. d = Decoded(headers, "uber-trace-id", c)
      BY <2>3 DEF c
    <3> QED BY <2>1, <2>6, <2>7, <3>1, DecodedIs
  <2>9. Same(Ids(ctx), ctx)
    BY DEF Same, Ids
  <2> QED BY <2>1, <2>5, <2>8, <2>9 DEF Same
<1>2. ASSUME format = "w3c"
      PROVE  /\ "jaeger-debug-id" \notin DOMAIN headers /\ d \in Context
             /\ IsValid(d) => Same(d, ctx) /\ Kept(d.baggage, ctx.baggage, format)
  <2>1. /\ "traceparent" \in DOMAIN headers /\ "jaeger-debug-id" \notin DOMAIN headers
        /\ headers["traceparent"] = [Ids(ctx) EXCEPT !.parent = 0]
    BY <1>2 DEF doInject
  <2> DEFINE t == "tracestate" \in DOMAIN headers
             c == [NoContext EXCEPT !.traceState = t]
  <2> HIDE DEF headers
  <2>2. c \in Context /\ c.baggage = {}
    <3>1. t \in BOOLEAN
      OBVIOUS
    <3> HIDE DEF t
    <3>2. c \in Context
      BY <3>1, NoContextIs DEF Context
    <3> QED BY <3>2 DEF NoContext
  <2>3. d = Decoded(headers, "traceparent", c)
    BY <1>0, <1>2 DEF doExtract
  <2> HIDE DEF c
  <2>4. /\ Decoded(headers, "traceparent", c) \in Context
        /\ IsValid(Decoded(headers, "traceparent", c)) =>
            /\ Same(Decoded(headers, "traceparent", c), [Ids(ctx) EXCEPT !.parent = 0])
            /\ Decoded(headers, "traceparent", c).baggage = {}
    BY <2>1, <2>2, DecodedIs, IdsIs
  <2>5. Same([Ids(ctx) EXCEPT !.parent = 0], ctx)
    BY DEF Same, Ids
  <2> QED BY <1>2, <2>1, <2>3, <2>4, <2>5 DEF Same, Kept
<1>3. ASSUME format = "binary"
      PROVE  /\ "jaeger-debug-id" \notin DOMAIN headers /\ d \in Context
             /\ Same(d, ctx) /\ Kept(d.baggage, ctx.baggage, format)
  <2>1. /\ DOMAIN headers = {"stream", "baggage"}
        /\ headers["stream"] = Ids(ctx) /\ headers["baggage"] = ctx.baggage
    BY <1>3 DEF doInject
  <2> HIDE DEF headers
  <2>2. d = [NoContext EXCEPT !.trace = Ids(ctx).trace, !.span = Ids(ctx).span,
                              !.parent = Ids(ctx).parent, !.sampled = Ids(ctx).sampled,
                              !.debug = Ids(ctx).debug, !.baggage = ctx.baggage]
    BY <1>0, <1>3, <2>1 DEF doExtract
  <2>3. d \in Context /\ Same(d, ctx) /\ d.baggage = ctx.baggage
    BY <2>2, NoContextIs DEF Context, Same, Ids
  <2> QED BY <1>3, <2>1, <2>3 DEF Kept
<1>4. d \in Context /\ "jaeger-debug-id" \notin DOMAIN headers
      /\ (IsValid(d) => Same(d, ctx) /\ Kept(d.baggage, ctx.baggage, format))
  BY <1>1, <1>2, <1>3 DEF Format
<1> HIDE DEF headers
<1>5. /\ e \in Context
      /\ IsValid(e) => Same(e, d) /\ e.baggage = d.baggage /\ IsValid(d)
  <2> DEFINE debugID == "jaeger-debug-id" \in DOMAIN headers
  <2>1. debugID \in BOOLEAN /\ ~debugID /\ e = Debugged(d, debugID) /\ d \in Context
    BY <1>0, <1>4 DEF headers
  <2> HIDE DEF debugID
  <2> QED BY <2>1, DebuggedIs
<1> QED BY <1>4, <1>5 DEF Same

\* What was handed on is what the format leaves of a span started here.
StartTyped ==
    /\ contexts \in Seq(Context) /\ received \in SUBSET Context /\ ids \in Nat
    /\ \A h \in hops :
        /\ h.from \in DOMAIN contexts /\ h.context \in Context
        /\ IsValid(h.context) =>
            /\ Same(h.context, contexts[h.from])
            /\ Kept(h.context.baggage, contexts[h.from].baggage, h.format)

StartInv == StartTyped /\ ParentChosen /\ TraceShared

\* The baggage is that of p, or what a hop left of it.
Inherited(map, p) ==
    \/ map = p.baggage
    \/ \E h \in hops : contexts[h.from] = p /\ Kept(map, p.baggage, h.format)

\* What a span may be started with has been received, handed on or started here; the
\* span it is about is known in this process.
Known(c) ==
    /\ c \in Context
    /\ IsValid(c) => \E p \in received \cup {contexts[j] : j \in DOMAIN contexts} :
        Same(p, c) /\ Inherited(c.baggage, p)

LEMMA ReferenceKnown ==
    ASSUME StartTyped, NEW ref \in Reference, Usable(ref)
    PROVE  Known(ref.context)
<1> DEFINE c == ref.context
<1>1. c \in received \cup Hopped \cup {contexts[j] : j \in DOMAIN contexts}
  BY DEF Reference, Usable, Range
<1>2. CASE c \in received
  BY <1>2 DEF StartTyped, Known, Same, Inherited
<1>3. CASE c \in {contexts[j] : j \in DOMAIN contexts}
  BY <1>3 DEF StartTyped, Known, Same, Inherited
<1>4. CASE c \in Hopped
  <2>1. PICK h \in hops : c = h.context
    BY <1>4 DEF Hopped
  <2>2. /\ h.from \in DOMAIN contexts /\ c \in Context
        /\ IsValid(c) => /\ Same(c, contexts[h.from])
                         /\ Kept(c.baggage, contexts[h.from].baggage, h.format)
    BY <2>1 DEF StartTyped
  <2> HIDE DEF c
  <2>3. Known(c)
    BY <2>2 DEF Known, Same, Inherited
  <2> QED BY <2>3 DEF c
<1> QED BY <1>1, <1>2, <1>3, <1>4

LEMMA ParentKnown ==
    ASSUME StartTyped, NEW n \in Nat, NEW refs \in [1 .. n -> Reference]
    PROVE  Known(Parent(refs)) /\ SelfContext(refs) \in Context
<1>1. \A i \in 1 .. n : refs[i].type \in {"ChildOf", "FollowsFrom", "Self"}
  BY DEF Reference
<1>2. FoundAfter(Candidate(refs), refs, n)
  BY <1>1, CandidateIs
<1>3. \/ Candidate(refs).context = NoContext
      \/ \E i \in 1 .. n : Usable(refs[i]) /\ Candidate(refs).context = refs[i].context
  BY <1>2 DEF FoundAfter, Before, NoCandidate
<1>4. Known(NoContext)
  BY NoContextIs DEF Known
<1>5. Known(Candidate(refs).context)
  <2>1. ASSUME NEW i \in 1 .. n, Usable(refs[i]) PROVE Known(refs[i].context)
    BY <2>1, ReferenceKnown
  <2> QED BY <1>3, <1>4, <2>1
<1>6. Known(Parent(refs))
  BY <1>4, <1>5 DEF Parent
<1>7. CASE Selves(refs) = {}
  BY <1>6, <1>7, NoContextIs DEF SelfContext
<1>8. CASE Selves(refs) # {}
  <2>1. Selves(refs) \in SUBSET (1 .. n)
    BY DEF Selves
  <2>2. Max(Selves(refs)) \in Selves(refs)
    BY <1>8, <2>1, MaxIsIn
  <2>3. SelfContext(refs) = refs[Max(Selves(refs))].context
    BY <1>8 DEF SelfContext
  <2>4. /\ Max(Selves(refs)) \in 1 .. n
        /\ Usable(refs[Max(Selves(refs))]) /\ refs[Max(Selves(refs))] \in Reference
    BY <2>2 DEF Selves
  <2> QED BY <1>6, <2>3, <2>4, ReferenceKnown DEF Known
<1> QED BY <1>6, <1>7, <1>8

\* A span that is started is a root or shares the trace of its parent.
LEMMA SpanStarted ==
    ASSUME StartInv, NEW c \in Context, contexts' = Append(contexts, c),
           UNCHANGED <<received, hops>>, ids' \in Nat,
           c.parent # 0 => \E p \in received \cup {contexts[j] : j \in DOMAIN contexts} :
                /\ p.span = c.parent /\ p.trace = c.trace
                /\ p.sampled = c.sampled /\ p.debug = c.debug
                /\ Inherited(c.baggage, p)
    PROVE  StartTyped' /\ TraceShared'
<1>1. /\ contexts \in Seq(Context) /\ Len(contexts) \in Nat /\ DOMAIN contexts = 1 .. Len(contexts)
      /\ contexts' \in Seq(Context) /\ DOMAIN contexts' = 1 .. Len(contexts) + 1
      /\ \A i \in 1 .. Len(contexts) : contexts'[i] = contexts[i]
      /\ contexts'[Len(contexts) + 1] = c
  BY DEF StartInv, StartTyped
<1>2. \A h \in hops : h.from \in DOMAIN contexts /\ contexts'[h.from] = contexts[h.from]
  BY <1>1 DEF StartInv, StartTyped
<1>3. StartTyped'
  BY <1>1, <1>2 DEF StartInv, StartTyped
<1>4. ASSUME NEW map, NEW p, Inherited(map, p)
      PROVE  \/ map = p.baggage
             \/ \E h \in hops' : contexts'[h.from] = p /\ Kept(map, p.baggage, h.format)
  BY <1>2, <1>4 DEF Inherited
<1>5. ASSUME NEW i \in DOMAIN contexts', contexts'[i].parent # 0
      PROVE  \E p \in received' \cup {contexts'[j] : j \in 1 .. i - 1} :
                /\ p.span = contexts'[i].parent /\ p.trace = contexts'[i].trace
                /\ p.sampled = contexts'[i].sampled /\ p.debug = contexts'[i].debug
                /\ \/ contexts'[i].baggage = p.baggage
                   \/ \E h \in hops' :
                        contexts'[h.from] = p /\ Kept(contexts'[i].baggage, p.baggage, h.format)
  <2>1. CASE i \in 1 .. Len(contexts)
    <3>1. contexts'[i] = contexts[i]
      BY <1>1, <2>1
    <3>2. {contexts'[j] : j \in 1 .. i - 1} = {contexts[j] : j \in 1 .. i - 1}
      BY <1>1, <2>1
    <3>3. PICK p \in received \cup {contexts[j] : j \in 1 .. i - 1} :
            /\ p.span = contexts[i].parent /\ p.trace = contexts[i].trace
            /\ p.sampled = contexts[i].sampled /\ p.debug = contexts[i].debug
            /\ Inherited(contexts[i].baggage, p)
      BY <1>1, <1>5, <2>1, <3>1 DEF StartInv, TraceShared, Inherited
    <3>4. \/ contexts[i].baggage = p.baggage
          \/ \E h \in hops' :
                contexts'[h.from] = p /\ Kept(contexts[i].baggage, p.baggage, h.format)
      BY <1>4, <3>3
    <3>5. p \in received' \cup {contexts'[j] : j \in 1 .. i - 1}
      BY <3>2, <3>3
    <3> QED BY <3>1, <3>3, <3>4, <3>5
  <2>2. CASE i = Len(contexts) + 1
    <3>1. contexts'[i] = c
      BY <1>1, <2>2
    <3>2. {contexts'[j] : j \in 1 .. i - 1} = {contexts[j] : j \in DOMAIN contexts}
      BY <1>1, <2>2
    <3>3. PICK p \in received \cup {contexts[j] : j \in DOMAIN contexts} :
            /\ p.span = c.parent /\ p.trace = c.trace
            /\ p.sampled = c.sampled /\ p.debug = c.debug
            /\ Inherited(c.baggage, p)
      BY <1>5, <3>1
    <3>4. \/ c.baggage = p.baggage
          \/ \E h \in hops' :
                contexts'[h.from] = p /\ Kept(c.baggage, p.baggage, h.format)
      BY <1>4, <3>3
    <3>5. p \in received' \cup {contexts'[j] : j \in 1 .. i - 1}
      BY <3>2, <3>3
    <3> QED BY <3>1, <3>3, <3>4, <3>5
  <2>3. i \in 1 .. Len(contexts) \/ i = Len(contexts) + 1
    BY <1>1
  <2> QED BY <2>1, <2>2, <2>3
<1>6. TraceShared'
  BY <1>5 DEF TraceShared
<1> QED BY <1>3, <1>6

LEMMA StartedInv ==
    ASSUME StartInv, NEW n \in Nat, NEW refs \in [1 .. n -> Reference], StartSpanWithOptions(refs)
    PROVE  StartInv'
<1> DEFINE parent == Parent(refs)
<1>0. Known(parent) /\ parent \in Context /\ SelfContext(refs) \in Context /\ ids \in Nat
  BY ParentKnown DEF StartInv, StartTyped, Known
<1>1. CASE NotStarted(refs)
  <2>1. /\ UNCHANGED <<contexts, received, hops, ids>> /\ Selves(request'.references) # {}
    BY <1>1 DEF NotStarted
  <2>2. ParentChosen'
    BY <2>1 DEF ParentChosen, Selves
  <2> QED BY <2>1, <2>2 DEF StartInv, StartTyped, TraceShared
<1>2. ASSUME StartChild(refs) \/ StartRoot(refs) PROVE ParentChosen'
  <2>1. \A i \in 1 .. n : refs[i].type \in {"ChildOf", "FollowsFrom", "Self"}
    BY DEF Reference
  <2>2. request' = [references |-> refs, parent |-> Parent(refs)]
    BY <1>2 DEF StartChild, StartRoot, Started
  <2> QED BY <2>1, <2>2, ParentIs
<1> HIDE DEF parent
<1>3. ASSUME StartChild(refs) PROVE StartTyped' /\ TraceShared'
  <2> DEFINE c == Child(parent)
  <2>1. /\ IsValid(parent) /\ ids' = ids + 1 /\ contexts' = Append(contexts, c)
        /\ UNCHANGED <<received, hops>>
    BY <1>3 DEF StartChild, Started, parent
  <2>2. /\ c \in Context /\ c.parent = parent.span /\ c.trace = parent.trace
        /\ c.sampled = parent.sampled /\ c.debug = parent.debug /\ c.baggage = parent.baggage
    <3>1. /\ parent.trace \in Nat /\ parent.span \in Nat /\ parent.sampled \in BOOLEAN
          /\ parent.debug \in BOOLEAN /\ parent.baggage \in Baggage /\ ids + 1 \in Nat
      BY <1>0 DEF Context
    <3> QED BY <3>1 DEF Child, NoContext, Context
  <2>3. \E p \in received \cup {contexts[j] : j \in DOMAIN contexts} :
            /\ p.span = c.parent /\ p.trace = c.trace
            /\ p.sampled = c.sampled /\ p.debug = c.debug
            /\ Inherited(c.baggage, p)
    <3> HIDE DEF c
    <3> QED BY <1>0, <2>1, <2>2 DEF Known, Same
  <2>4. ids' \in Nat
    BY <1>0, <2>1
  <2> HIDE DEF c
  <2> QED BY <2>1, <2>2, <2>3, <2>4, SpanStarted
<1>4. ASSUME StartRoot(refs) PROVE StartTyped' /\ TraceShared'
  <2>1. PICK trace \in Nat, id \in Nat, drawn \in BOOLEAN :
            contexts' = Append(contexts, Root(trace, id, parent, drawn))
    <3>1. SelfContext(refs).trace \in Nat /\ SelfContext(refs).span \in Nat /\ ids + 1 \in Nat
      BY <1>0 DEF Context
    <3> QED BY <1>4, <3>1 DEF StartRoot, Started, parent
  <2> DEFINE c == Root(trace, id, parent, drawn)
  <2>2. ids' \in Nat /\ UNCHANGED <<received, hops>>
    <3>1. ids' = ids + 1 \/ ids' = ids
      BY <1>4 DEF StartRoot
    <3>2. UNCHANGED <<received, hops>>
      BY <1>4 DEF StartRoot, Started
    <3> QED BY <1>0, <3>1, <3>2
  <2>3. c \in Context /\ c.parent = 0
    <3>1. IsDebugIDContainerOnly(parent) \in BOOLEAN
      BY DEF IsDebugIDContainerOnly
    <3> QED BY <1>0, <3>1, NoContextIs DEF Root, NoContext, Context
  <2> HIDE DEF c
  <2> QED BY <2>1, <2>2, <2>3, SpanStarted DEF c
<1> QED BY <1>1, <1>2, <1>3, <1>4 DEF StartSpanWithOptions, StartInv

LEMMA StartNextInv == StartInv /\ [StartNext]_startVars => StartInv'
<1> SUFFICES ASSUME StartInv, [StartNext]_startVars PROVE StartInv'
  OBVIOUS
<1>1. ASSUME UNCHANGED <<contexts, request, ids>>, StartTyped',
             received \subseteq received', hops \subseteq hops'
      PROVE  StartInv'
  <2>1. ParentChosen'
    BY <1>1 DEF StartInv, ParentChosen, Positions, Selves
  <2>2. TraceShared'
    BY <1>1 DEF StartInv, TraceShared
  <2> QED BY <1>1, <2>1, <2>2 DEF StartInv
<1>2. ASSUME NEW headers \in Headers, NEW format \in Format \ {"binary"}, Receive(headers, format)
      PROVE  StartInv'
  BY <1>1, <1>2, ReceivedIs DEF Receive, StartInv, StartTyped
<1>3. ASSUME NEW i \in DOMAIN contexts, NEW format \in Format, Hop(i, format)
      PROVE  StartInv'
  <2>1. contexts[i] \in Context
    BY DEF StartInv, StartTyped
  <2>2. PICK ctx \in extract(doInject(contexts[i], format), format) :
            hops' = {[from |-> i, format |-> format, context |-> ctx]}
    BY <1>3 DEF Hop
  <2>3. /\ ctx \in Context
        /\ IsValid(ctx) => /\ Same(ctx, contexts[i])
                           /\ Kept(ctx.baggage, contexts[i].baggage, format)
    BY <2>1, <2>2, HopIs
  <2>4. UNCHANGED <<contexts, received, request, ids>> /\ hops = {}
    BY <1>3 DEF Hop
  <2>5. StartTyped'
    BY <2>2, <2>3, <2>4 DEF StartInv, StartTyped
  <2> QED BY <1>1, <2>4, <2>5
<1>4. ASSUME NEW n \in 0 .. (IF contexts = <<>> THEN MaxReferences ELSE 1),
             NEW refs \in [1 .. n -> Reference], StartSpanWithOptions(refs)
      PROVE  StartInv'
  <2>1. n \in Nat
    BY HeadersAssumption
  <2> QED BY <1>4, <2>1, StartedInv
<1>5. CASE UNCHANGED startVars
  BY <1>1, <1>5 DEF startVars, StartInv, StartTyped
<1> QED BY <1>2, <1>3, <1>4, <1>5 DEF StartNext

LEMMA StartSpecInv == StartSpec => []StartInv
<1>1. StartInit => StartInv
  BY DEF StartInit, StartInv, StartTyped, ParentChosen, Positions, TraceShared
<1> QED BY <1>1, StartNextInv, PTL DEF StartSpec

\* Whatever references a span is started with, the loop chooses the parent it should.
THEOREM ParentsAreChosen == StartSpec => []ParentChosen
<1> QED BY StartSpecInv, PTL DEF StartInv

\* A span and its parent share trace, sampling and debugging, and as much of the baggage
\* as the format between them carries: through headers of HTTP in the format of Jaeger
\* every key, in lower case, and the values of visible ASCII.
THEOREM TracesAreShared == StartSpec => []TraceShared
<1> QED BY StartSpecInv, PTL DEF StartInv

-----------------------------------------------------------------------------
(* The parts side by side                                                  *)

\* One step of a part is a step of its own or none, so a tracer's parts behave as the
\* specifications of each allow.
LEMMA EachPart ==
    PartsSpec =>
        Spec /\ LimiterSpec /\ SpanSpec /\ SamplingSpec /\ StartSpec /\ RestrictionSpec
<1>1. PartsInit =>
        /\ Init /\ LimiterInit /\ SpanInit /\ SamplingInit /\ StartInit
        /\ RestrictionInit
    BY DEF PartsInit
<1>2. [PartsNext]_partsVars =>
        /\ [Next]_vars /\ [LimiterNext]_limiterVars /\ [SpanNext]_spanVars
        /\ [SamplingNext]_samplingVars /\ [StartNext]_startVars
        /\ [RestrictionNext]_restrictionVars
    BY DEF PartsNext, Sender, Limiter, Lifecycle, Sampler, Start, Restriction, partsVars
<1> QED
    BY <1>1, <1>2, PTL
    DEF PartsSpec, Spec, LimiterSpec, SpanSpec, SamplingSpec, StartSpec, RestrictionSpec

\* The sender's buffer, the limiter's balance and the sampler in force are well formed at
\* every step of a tracer's parts.
THEOREM PartsWellFormed == PartsSpec => []PartsOK
<1>1. IInv => TypeOK  BY DEF IInv
<1> QED  BY <1>1, EachPart, Invariance, BalanceInRange, SamplersWellFormed, PTL DEF PartsOK

\* A poll that fails, of the sampler or of the restrictions, changes nothing, and an
\* answer over again gives no limiter its credit anew.
THEOREM PollsChangeNothing == PartsSpec => PollsKeepState
<1> QED  BY EachPart, SamplerIsKept, RestrictionsAreKept, PTL DEF PollsKeepState

=============================================================================
