------------------------- MODULE ReportAgentProofs -------------------------
(***************************************************************************)
(* A report that calls itself completed is whole, a task that calls itself *)
(* completed has such a report, and what the loop accepted is grounded.    *)
(***************************************************************************)
EXTENDS ReportAgent, FiniteSetTheorems, TLAPS

USE ReportAssumption

-----------------------------------------------------------------------------
(* The sections that are found *)

(* In a finite set of integers every rank below the size is taken.         *)
LEMMA RanksAreTaken ==
  ASSUME NEW S \in SUBSET Int, IsFiniteSet(S), NEW n \in 0..(Cardinality(S) - 1)
  PROVE  \E x \in S : Cardinality({y \in S : y < x}) = n
<1> DEFINE Below(x) == {y \in S : y < x}
           rank == [x \in S |-> Cardinality(Below(x))]
           T == 0..(Cardinality(S) - 1)
<1>1. Cardinality(S) \in Nat
  BY FS_CardinalityType
<1>2. ASSUME NEW U \in SUBSET S, NEW V \in SUBSET U, V # U
      PROVE  Cardinality(V) \in Nat /\ Cardinality(U) \in Nat /\ Cardinality(V) < Cardinality(U)
  <2>1. IsFiniteSet(U) /\ IsFiniteSet(V)
    BY <1>2, FS_Subset
  <2>2. Cardinality(V) <= Cardinality(U) /\ Cardinality(U) # Cardinality(V)
    BY <1>2, <2>1, FS_Subset
  <2>3. Cardinality(V) \in Nat /\ Cardinality(U) \in Nat
    BY <2>1, FS_CardinalityType
  <2>4. QED
    BY <2>2, <2>3
<1>3. rank \in [S -> T]
  <2> SUFFICES ASSUME NEW x \in S PROVE Cardinality(Below(x)) \in T
    OBVIOUS
  <2>1. Below(x) \in SUBSET S /\ Below(x) # S
    OBVIOUS
  <2> HIDE DEF Below
  <2>2. S \in SUBSET S
    OBVIOUS
  <2>3. Cardinality(Below(x)) \in Nat /\ Cardinality(Below(x)) < Cardinality(S)
    BY <1>2, <2>1, <2>2
  <2>4. QED
    BY <1>1, <2>3
<1>4. ASSUME NEW x \in S, NEW y \in S, x < y PROVE rank[x] # rank[y]
  <2>0. \A z \in S : z \in Int
    OBVIOUS
  <2>1. ASSUME NEW z \in Below(x) PROVE z \in Below(y)
    <3>1. z \in S /\ z < x /\ z \in Int /\ x \in Int /\ y \in Int
      BY <2>0
    <3>2. z < y
      BY <1>4, <3>1
    <3>3. QED
      BY <3>1, <3>2
  <2>2. x \in Below(y) /\ x \notin Below(x) /\ Below(y) \subseteq S
    BY <1>4, <2>0
  <2> HIDE DEF Below
  <2>3. /\ Cardinality(Below(x)) < Cardinality(Below(y))
        /\ Cardinality(Below(x)) \in Nat /\ Cardinality(Below(y)) \in Nat
    <3>1. Below(x) \in SUBSET Below(y) /\ Below(x) # Below(y) /\ Below(y) \in SUBSET S
      BY <2>1, <2>2
    <3>2. QED
      BY <1>2, <3>1
  <2>4. QED
    BY <2>3
<1>5. \A x, y \in S : x # y => x < y \/ y < x
  OBVIOUS
<1>6. \A x, y \in S : rank[x] = rank[y] => x = y
  <2> HIDE DEF rank
  <2>1. QED
    BY <1>4, <1>5
<1>7. rank \in Injection(S, T)
  <2> HIDE DEF rank, T
  <2>1. QED
    BY <1>3, <1>6 DEF Injection, IsInjective
<1>8. IsFiniteSet(T) /\ Cardinality(T) = Cardinality(S)
  <2>1. Cardinality(S) - 1 \in Int /\ 0 \in Int
    BY <1>1
  <2>2. IsFiniteSet(T) /\ Cardinality(T) = IF 0 > Cardinality(S) - 1 THEN 0 ELSE Cardinality(S) - 1 - 0 + 1
    BY <2>1, FS_Interval
  <2>3. QED
    BY <1>1, <2>2
<1>9. rank \in Surjection(S, T)
  <2> HIDE DEF rank, T
  <2>1. QED
    BY <1>7, <1>8, FS_Injection
<1>10. PICK x \in S : rank[x] = n
  BY <1>9 DEF Surjection
<1>11. QED
  BY <1>10

(* If the files 1 to m are there and no others, they are found in order.   *)
LEMMA FoundInOrder ==
  ASSUME NEW m \in 0..MaxSections, NEW saved,
         \A i \in 1..MaxSections : saved[i] # NoContent <=> i <= m
  PROVE  Found(saved) = [n \in 1..m |-> saved[n]]
<1> DEFINE Nth(n) == CHOOSE i \in 1..m : Cardinality({k \in 1..m : k < i}) = n - 1
<1>1. {i \in 1..MaxSections : saved[i] # NoContent} = 1..m
  OBVIOUS
<1>2. Cardinality(1..m) = m
  BY FS_Interval
<1>3. ASSUME NEW i \in 1..m PROVE Cardinality({k \in 1..m : k < i}) = i - 1
  <2>1. {k \in 1..m : k < i} = 1..(i - 1)
    OBVIOUS
  <2>2. Cardinality(1..(i - 1)) = i - 1
    BY FS_Interval
  <2>3. QED
    BY <2>1, <2>2
<1>4. ASSUME NEW n \in 1..m PROVE Nth(n) = n
  <2>1. \A i \in 1..m : Cardinality({k \in 1..m : k < i}) = n - 1 <=> i = n
    BY <1>3
  <2>2. QED
    BY <2>1
<1>5. Found(saved) = [n \in 1..m |-> saved[Nth(n)]]
  <2> DEFINE In(S) == [n \in 1..Cardinality(S) |->
                        saved[CHOOSE i \in S : Cardinality({k \in S : k < i}) = n - 1]]
  <2>1. Found(saved) = In({i \in 1..MaxSections : saved[i] # NoContent})
    BY Zenon DEF Found
  <2>2. In(1..m) = [n \in 1..m |-> saved[Nth(n)]]
    BY <1>2
  <2> HIDE DEF In, Nth
  <2>3. QED
    BY <1>1, <2>1, <2>2
<1>6. QED
  BY <1>4, <1>5

-----------------------------------------------------------------------------
(* Types *)

LEMMA Bounds ==
  /\ MinTools \in 0..MaxTools /\ MaxIterations \in Nat /\ MaxIterations >= 2
  /\ MaxTools \in Nat /\ MaxReflect \in Nat /\ MaxCrashes \in Nat
  /\ MaxSections \in Nat /\ MaxSections >= 1 /\ MaxRuns \in Nat /\ MaxRuns >= 1
  BY DEF MinTools, MaxIterations, Smaller, Larger

LEMMA IdleTypes == Idle \in Agent /\ Empty \in Folder
<1>1. Idle \in Agent
  BY Bounds DEF Idle, Agent, AgentPC
<1>2. <<>> \in [1..0 -> Content] /\ 0 \in 0..MaxSections
  BY Bounds
<1>3. <<>> \in UNION {[1..n -> Content] : n \in 0..MaxSections}
  BY <1>2
<1>4. [i \in 1..MaxSections |-> NoContent] \in [1..MaxSections -> Content \cup {NoContent}]
  OBVIOUS
<1>5. QED
  BY <1>1, <1>3, <1>4 DEF Empty, Folder

LEMMA InitTypes == ReportInit => ReportTypeOK
  BY IdleTypes, Bounds DEF ReportInit, ReportTypeOK

LEMMA RecordTypes ==
  ASSUME NEW t \in Agent
  PROVE  /\ Again(t) \in Agent /\ Accepts(t) \in Agent /\ RunsTool(t) \in Agent
         /\ NextSection(t) \in Agent
         /\ \A pc \in AgentPC : [t EXCEPT !.pc = pc] \in Agent
<1>0. /\ t.iteration \in 0..(MaxIterations - 1) /\ t.tools \in 0..MaxTools
      /\ t.section \in 1..MaxSections /\ t.outline \in 0..MaxSections
  BY DEF Agent
<1>1. \A pc \in AgentPC : [t EXCEPT !.pc = pc] \in Agent
  BY DEF Agent
<1>2. ASSUME NEW u \in Agent PROVE Again(u) \in Agent
  <2>1. CASE u.iteration + 1 < MaxIterations
    <3>1. u.iteration + 1 \in 0..(MaxIterations - 1)
      BY <2>1, Bounds DEF Agent
    <3>2. QED
      BY <2>1, <3>1 DEF Again, Agent
  <2>2. CASE ~(u.iteration + 1 < MaxIterations)
    BY <2>2 DEF Again, Agent, AgentPC
  <2>3. QED
    BY <2>1, <2>2
<1>3. Accepts(t) \in Agent
  <2>1. [t EXCEPT !.pc = "save", !.how = "answered"] \in Agent
    BY DEF Agent, AgentPC
  <2>2. QED
    BY <1>2, <2>1 DEF Accepts
<1>4. RunsTool(t) \in Agent
  <2>1. CASE t.tools >= MaxTools
    BY <1>2, <2>1 DEF RunsTool
  <2>2. CASE ~(t.tools >= MaxTools)
    <3>1. t.tools + 1 \in 0..MaxTools
      BY <1>0, <2>2, Bounds
    <3>2. [t EXCEPT !.tools = t.tools + 1] \in Agent
      BY <3>1 DEF Agent
    <3>3. QED
      BY <1>2, <2>2, <3>2 DEF RunsTool
  <2>3. QED
    BY <2>1, <2>2
<1>5. NextSection(t) \in Agent
  <2>1. CASE t.section < t.outline
    <3>1. t.section + 1 \in 1..MaxSections
      BY <1>0, <2>1, Bounds
    <3>2. [Idle EXCEPT !.pc = "progress", !.section = t.section + 1, !.outline = t.outline] \in Agent
      BY <1>0, <3>1, IdleTypes DEF Agent, AgentPC
    <3>3. QED
      BY <2>1, <3>2 DEF NextSection
  <2>2. CASE ~(t.section < t.outline)
    BY <2>2, IdleTypes DEF NextSection, Agent, AgentPC
  <2>3. QED
    BY <2>1, <2>2
<1>6. QED
  BY <1>1, <1>2, <1>3, <1>4, <1>5

(* A step of r changes nothing of another report. *)
Others(r) == \A q \in Reports \ {r} : agent'[q] = agent[q] /\ disk'[q] = disk[q] /\ task'[q] = task[q]

(* The words a task, meta.json and progress.json hold. *)
TaskStatus == {"none", "pending", "processing", "completed", "failed"}
MetaStatus == {"absent", "torn", "pending", "planning", "completed", "failed"}
ProgressStatus == {"none", "pending", "planning", "generating", "completed", "failed"}

LEMMA Words ==
  /\ "pending" \in TaskStatus /\ "processing" \in TaskStatus /\ "none" \in TaskStatus
  /\ "completed" \in TaskStatus /\ "failed" \in TaskStatus
  /\ "torn" \in MetaStatus /\ "pending" \in MetaStatus /\ "planning" \in MetaStatus
  /\ "completed" \in MetaStatus /\ "failed" \in MetaStatus
  /\ "pending" \in ProgressStatus /\ "planning" \in ProgressStatus
  /\ "generating" \in ProgressStatus /\ "completed" \in ProgressStatus
  /\ "failed" \in ProgressStatus
BY DEF TaskStatus, MetaStatus, ProgressStatus

(* What the folder of a report may become. *)
LEMMA FolderTypes ==
  ASSUME NEW d \in Folder
  PROVE  /\ \A meta \in MetaStatus :
              [d EXCEPT !.meta = meta] \in Folder
         /\ \A progress \in ProgressStatus :
              [d EXCEPT !.progress = progress] \in Folder
         /\ [d EXCEPT !.meta = "failed", !.progress = "failed"] \in Folder
         /\ \A i \in 1..MaxSections, content \in Content :
              [d EXCEPT !.saved[i] = content, !.progress = "generating"] \in Folder
  BY DEF Folder, MetaStatus, ProgressStatus

LEMMA FoundTypes ==
  ASSUME NEW d \in Folder
  PROVE  [d EXCEPT !.full = Found(d.saved)] \in Folder
<1> DEFINE numbers == {i \in 1..MaxSections : d.saved[i] # NoContent}
           Nth(n) == CHOOSE i \in numbers : Cardinality({k \in numbers : k < i}) = n - 1
           size == Cardinality(numbers)
<1>1. IsFiniteSet(numbers) /\ size \in 0..MaxSections /\ numbers \in SUBSET Int
  <2>1. IsFiniteSet(1..MaxSections) /\ Cardinality(1..MaxSections) = MaxSections
    BY FS_Interval, Bounds
  <2>2. numbers \in SUBSET (1..MaxSections)
    OBVIOUS
  <2> HIDE DEF numbers
  <2>3. IsFiniteSet(numbers) /\ size <= MaxSections
    BY <2>1, <2>2, FS_Subset
  <2>4. size \in Nat
    BY <2>3, FS_CardinalityType
  <2>5. QED
    BY <2>2, <2>3, <2>4, Bounds
<1>2. ASSUME NEW n \in 1..size PROVE d.saved[Nth(n)] \in Content
  <2>1. n - 1 \in 0..(size - 1)
    BY <1>1
  <2>2. \E i \in numbers : Cardinality({k \in numbers : k < i}) = n - 1
    <3> HIDE DEF numbers
    <3>1. QED
      BY <1>1, <2>1, RanksAreTaken
  <2>3. Nth(n) \in numbers
    <3> HIDE DEF numbers
    <3>1. QED
      BY <2>2
  <2>4. d.saved[Nth(n)] # NoContent /\ Nth(n) \in 1..MaxSections
    <3> HIDE DEF Nth
    <3>1. QED
      BY <2>3
  <2> HIDE DEF Nth
  <2>5. QED
    BY <2>4 DEF Folder
<1>3. Found(d.saved) = [n \in 1..size |-> d.saved[Nth(n)]]
  BY Zenon DEF Found
<1> HIDE DEF size, Nth
<1>4. Found(d.saved) \in UNION {[1..n -> Content] : n \in 0..MaxSections}
  BY <1>1, <1>2, <1>3
<1>5. QED
  BY <1>4 DEF Folder

(* A step that writes at most its own thread, folder and task. *)
Step1(r) ==
  /\ agent' \in [Reports -> Agent] /\ disk' \in [Reports -> Folder]
  /\ task' \in [Reports -> TaskStatus]
  /\ Others(r) /\ run' = run /\ crashes' = crashes
  /\ readers' \subseteq Reports /\ \A q \in Reports \ {r} : q \in readers' <=> q \in readers

LEMMA Step1Types ==
  ASSUME ReportTypeOK, NEW r \in Reports, Step1(r)
  PROVE  ReportTypeOK'
  BY DEF ReportTypeOK, Step1, TaskStatus

LEMMA OwnStep ==
  ASSUME ReportTypeOK, NEW r \in Reports,
         NEW t \in Agent, agent' = [agent EXCEPT ![r] = t],
         NEW d \in Folder, disk' = [disk EXCEPT ![r] = d],
         NEW s \in TaskStatus,
         task' = [task EXCEPT ![r] = s],
         run' = run, crashes' = crashes,
         \/ readers' = readers \/ readers' = readers \cup {r} \/ readers' = readers \ {r}
  PROVE  Step1(r) /\ agent'[r] = t /\ disk'[r] = d /\ task'[r] = s
  BY DEF ReportTypeOK, Step1, Others, TaskStatus

-----------------------------------------------------------------------------
(* The effect of each action of the thread. *)

(* A reply moves the thread within its section. *)
Replied(t, u) ==
  /\ u \in Agent /\ u.pc \in {"ask", "forced", "save", "fail"}
  /\ u.section = t.section /\ u.outline = t.outline /\ u.status = t.status
  /\ \/ u.how = t.how
     \/ u.how = "answered" /\ u.pc = "save" /\ u.tools >= MinTools

LEMMA PcFields ==
  ASSUME NEW t \in Agent, NEW pc \in AgentPC, NEW u, u = [t EXCEPT !.pc = pc]
  PROVE  /\ u \in Agent /\ u.pc = pc /\ u.section = t.section /\ u.outline = t.outline
         /\ u.status = t.status /\ u.how = t.how /\ u.tools = t.tools
<1>1. u \in Agent
  BY RecordTypes
<1>2. QED
  BY <1>1 DEF Agent

LEMMA ReplyFields ==
  ASSUME NEW t \in Agent, t.pc = "ask"
  PROVE  Replied(t, Again(t)) /\ Replied(t, Accepts(t)) /\ Replied(t, RunsTool(t))
<1>1. ASSUME NEW u \in Agent, u.pc = "ask", u.section = t.section, u.outline = t.outline,
             u.status = t.status, u.how = t.how
      PROVE  Replied(t, Again(u))
  <2>1. Again(u) \in Agent
    BY RecordTypes
  <2>2. CASE u.iteration + 1 < MaxIterations
    <3>1. PICK w : w = [u EXCEPT !.iteration = u.iteration + 1]
      OBVIOUS
    <3>2. w = Again(u)
      BY <2>2, <3>1 DEF Again
    <3>3. /\ w.pc = u.pc /\ w.section = u.section /\ w.outline = u.outline
          /\ w.status = u.status /\ w.how = u.how
      BY <3>1 DEF Agent
    <3>4. QED
      BY <1>1, <2>1, <3>2, <3>3 DEF Replied
  <2>3. CASE ~(u.iteration + 1 < MaxIterations)
    <3>1. PICK w : w = [u EXCEPT !.pc = "forced"]
      OBVIOUS
    <3>2. w = Again(u) /\ "forced" \in AgentPC
      BY <2>3, <3>1 DEF Again, AgentPC
    <3>3. QED
      BY <1>1, <3>1, <3>2, PcFields DEF Replied
  <2>4. QED
    BY <2>2, <2>3
<1>2. Replied(t, Accepts(t))
  <2>1. CASE t.tools < MinTools
    BY <1>1, <2>1 DEF Accepts
  <2>2. CASE ~(t.tools < MinTools)
    <3>1. Accepts(t) = [t EXCEPT !.pc = "save", !.how = "answered"]
      BY <2>2 DEF Accepts
    <3>2. t.tools \in Nat /\ MinTools \in Nat
      BY Bounds DEF Agent
    <3>3. Accepts(t) \in Agent
      BY RecordTypes
    <3>4. Accepts(t).pc = "save" /\ Accepts(t).how = "answered" /\ Accepts(t).tools = t.tools
          /\ Accepts(t).section = t.section /\ Accepts(t).outline = t.outline
          /\ Accepts(t).status = t.status
      BY <3>1 DEF Agent
    <3>5. t.tools >= MinTools
      BY <2>2, <3>2
    <3>6. QED
      BY <3>3, <3>4, <3>5 DEF Replied
  <2>3. QED
    BY <2>1, <2>2
<1>3. Replied(t, RunsTool(t))
  <2>1. CASE t.tools >= MaxTools
    BY <1>1, <2>1 DEF RunsTool
  <2>2. CASE ~(t.tools >= MaxTools)
    <3>1. t.tools + 1 \in 0..MaxTools
      BY <2>2, Bounds DEF Agent
    <3>2. PICK u : u = [t EXCEPT !.tools = t.tools + 1]
      OBVIOUS
    <3>3. u \in Agent /\ u.pc = "ask" /\ u.section = t.section /\ u.outline = t.outline
          /\ u.status = t.status /\ u.how = t.how
      BY <3>1, <3>2 DEF Agent
    <3>4. RunsTool(t) = Again(u)
      BY <2>2, <3>2 DEF RunsTool
    <3>5. QED
      BY <1>1, <3>3, <3>4
  <2>3. QED
    BY <2>1, <2>2
<1>4. QED
  BY <1>1, <1>2, <1>3

Replies(r) ==
  LLMFails(r) \/ RepliesNothing(r) \/ RepliesAnswer(r) \/ RepliesToolCall(r)
    \/ RepliesMalformedCall(r) \/ RepliesConflict(r)

(* A step that leaves folder, task and lease alone. *)
Thinks(r) == Step1(r) /\ disk' = disk /\ task' = task /\ readers' = readers

LEMMA ThinksTypes ==
  ASSUME ReportTypeOK, NEW r \in Reports, NEW t \in Agent, agent' = [agent EXCEPT ![r] = t],
         UNCHANGED <<disk, task, readers, run, crashes>>
  PROVE  Thinks(r) /\ agent'[r] = t
  BY DEF ReportTypeOK, Step1, Others, Thinks, TaskStatus

LEMMA RepliesDo ==
  ASSUME ReportTypeOK, NEW r \in Reports, Replies(r)
  PROVE  /\ Thinks(r) /\ agent[r].pc = "ask"
         /\ agent'[r].pc \in {"ask", "forced", "save", "fail"}
         /\ agent'[r].section = agent[r].section /\ agent'[r].outline = agent[r].outline
         /\ agent'[r].status = agent[r].status
         /\ \/ agent'[r].how = agent[r].how
            \/ agent'[r].pc = "save" /\ agent'[r].tools >= MinTools
<1>0. PICK t \in Agent : t = agent[r]
  BY DEF ReportTypeOK
<1> SUFFICES ASSUME t.pc = "ask", NEW u, Replied(t, u), Reply(r, u)
             PROVE  /\ Thinks(r) /\ agent'[r] = u
  <2>1. t.pc = "ask"
    BY <1>0 DEF Replies, LLMFails, RepliesNothing, RepliesAnswer, RepliesToolCall,
                RepliesMalformedCall, RepliesConflict, Reply
  <2>2. \E u : Replied(t, u) /\ Reply(r, u)
    <3>1. CASE LLMFails(r)
      <4>1. Replied(t, [t EXCEPT !.pc = "forced"])
        BY PcFields DEF Replied, AgentPC
      <4>2. QED
        BY <1>0, <3>1, <4>1 DEF LLMFails
    <3>2. CASE RepliesNothing(r) \/ RepliesAnswer(r) \/ RepliesToolCall(r)
      BY <1>0, <2>1, <3>2, ReplyFields DEF RepliesNothing, RepliesAnswer, RepliesToolCall
    <3>3. CASE RepliesMalformedCall(r)
      <4>1. Replied(t, [t EXCEPT !.pc = "fail"])
        BY PcFields DEF Replied, AgentPC
      <4>2. QED
        BY <1>0, <3>3, <4>1 DEF RepliesMalformedCall
    <3>4. CASE RepliesConflict(r)
      <4>1. CASE t.conflicts < 2
        <5>1. PICK v : v = [t EXCEPT !.conflicts = t.conflicts + 1]
          OBVIOUS
        <5>2. v \in Agent /\ v.pc = "ask" /\ v.section = t.section /\ v.outline = t.outline
              /\ v.status = t.status /\ v.how = t.how
          BY <2>1, <4>1, <5>1 DEF Agent
        <5>3. Replied(v, Again(v)) /\ Reply(r, Again(v))
          BY <1>0, <3>4, <4>1, <5>1, <5>2, ReplyFields DEF RepliesConflict
        <5>4. Replied(t, Again(v))
          BY <5>2, <5>3 DEF Replied
        <5>5. QED
          BY <5>3, <5>4
      <4>2. CASE ~(t.conflicts < 2)
        <5>1. PICK v : v = [t EXCEPT !.conflicts = 0]
          OBVIOUS
        <5>2. v \in Agent /\ v.pc = "ask" /\ v.section = t.section /\ v.outline = t.outline
              /\ v.status = t.status /\ v.how = t.how
          BY <2>1, <5>1 DEF Agent
        <5>3. /\ Replied(v, RunsTool(v)) /\ Replied(v, Accepts(v))
              /\ Reply(r, RunsTool(v)) \/ Reply(r, Accepts(v))
          BY <1>0, <3>4, <4>2, <5>1, <5>2, ReplyFields DEF RepliesConflict
        <5>4. Replied(t, RunsTool(v)) /\ Replied(t, Accepts(v))
          BY <5>2, <5>3 DEF Replied
        <5>5. QED
          BY <5>3, <5>4
      <4>3. QED
        BY <4>1, <4>2
    <3>5. QED
      BY <3>1, <3>2, <3>3, <3>4 DEF Replies
  <2>3. QED
    BY <1>0, <2>1, <2>2 DEF Replied
<1>1. QED
  BY ThinksTypes DEF Replied, Reply

(* What a step keeps of the folder, and of the thread. *)
Kept(r) == disk'[r].saved = disk[r].saved /\ disk'[r].full = disk[r].full
SameThread(r) ==
  /\ agent'[r].section = agent[r].section /\ agent'[r].outline = agent[r].outline
  /\ agent'[r].status = agent[r].status
  /\ agent'[r].how = agent[r].how /\ agent'[r].tools = agent[r].tools
Does(r, from, to) == Step1(r) /\ agent[r].pc = from /\ agent'[r].pc \in to

(* The thread goes on and writes at most meta.json and the progress. *)
LEMMA GoesOn ==
  ASSUME ReportTypeOK, NEW r \in Reports, NEW pc \in AgentPC, Goes(r, pc),
         NEW d \in Folder, disk' = [disk EXCEPT ![r] = d],
         NEW s \in TaskStatus,
         task' = [task EXCEPT ![r] = s], UNCHANGED <<readers, run, crashes>>
  PROVE  /\ Step1(r) /\ agent'[r].pc = pc /\ SameThread(r) /\ disk'[r] = d /\ task'[r] = s
         /\ readers' = readers
<1>1. PICK t \in Agent : t = agent[r]
  BY DEF ReportTypeOK
<1>a. PICK u : u = [t EXCEPT !.pc = pc]
  OBVIOUS
<1>2. /\ u \in Agent /\ u.pc = pc /\ u.section = t.section /\ u.outline = t.outline
      /\ u.status = t.status /\ u.how = t.how /\ u.tools = t.tools
  BY <1>a, PcFields
<1>3. agent' = [agent EXCEPT ![r] = u]
  BY <1>1, <1>a DEF Goes
<1>4. Step1(r) /\ agent'[r] = u /\ disk'[r] = d /\ task'[r] = s
  BY <1>2, <1>3, OwnStep
<1>5. QED
  BY <1>1, <1>2, <1>4 DEF SameThread

LEMMA SameTypes ==
  ASSUME ReportTypeOK, NEW r \in Reports
  PROVE  /\ disk = [disk EXCEPT ![r] = disk[r]] /\ task = [task EXCEPT ![r] = task[r]]
         /\ disk[r] \in Folder /\ agent[r] \in Agent
         /\ task[r] \in TaskStatus
  BY DEF ReportTypeOK, TaskStatus

(* A new meta.json, or a new progress.json, and nothing else. *)
LEMMA MetaWritten ==
  ASSUME ReportTypeOK, NEW r \in Reports, NEW pc \in AgentPC, Goes(r, pc),
         NEW meta \in MetaStatus,
         disk' = [disk EXCEPT ![r].meta = meta],
         NEW s \in TaskStatus,
         task' = [task EXCEPT ![r] = s], UNCHANGED <<readers, run, crashes>>
  PROVE  /\ Step1(r) /\ agent'[r].pc = pc /\ SameThread(r) /\ Kept(r) /\ readers' = readers
         /\ disk'[r].meta = meta /\ disk'[r].progress = disk[r].progress /\ task'[r] = s
<1>1. PICK d \in Folder : d = disk[r]
  BY SameTypes
<1>a. PICK e : e = [d EXCEPT !.meta = meta]
  OBVIOUS
<1>2. e \in Folder /\ disk' = [disk EXCEPT ![r] = e]
  BY <1>1, <1>a, FolderTypes
<1>3. /\ Step1(r) /\ agent'[r].pc = pc /\ SameThread(r) /\ disk'[r] = e /\ task'[r] = s
      /\ readers' = readers
  BY <1>2, GoesOn
<1>4. e.meta = meta /\ e.progress = d.progress /\ e.saved = d.saved /\ e.full = d.full
  BY <1>a DEF Folder
<1>5. QED
  BY <1>1, <1>3, <1>4 DEF Kept

LEMMA ProgressWritten ==
  ASSUME ReportTypeOK, NEW r \in Reports, NEW pc \in AgentPC, Goes(r, pc),
         NEW progress \in ProgressStatus,
         disk' = [disk EXCEPT ![r].progress = progress],
         NEW s \in TaskStatus,
         task' = [task EXCEPT ![r] = s], UNCHANGED <<readers, run, crashes>>
  PROVE  /\ Step1(r) /\ agent'[r].pc = pc /\ SameThread(r) /\ Kept(r) /\ readers' = readers
         /\ disk'[r].meta = disk[r].meta /\ disk'[r].progress = progress /\ task'[r] = s
<1>1. PICK d \in Folder : d = disk[r]
  BY SameTypes
<1>a. PICK e : e = [d EXCEPT !.progress = progress]
  OBVIOUS
<1>2. e \in Folder /\ disk' = [disk EXCEPT ![r] = e]
  BY <1>1, <1>a, FolderTypes
<1>3. /\ Step1(r) /\ agent'[r].pc = pc /\ SameThread(r) /\ disk'[r] = e /\ task'[r] = s
      /\ readers' = readers
  BY <1>2, GoesOn
<1>4. e.meta = d.meta /\ e.progress = progress /\ e.saved = d.saved /\ e.full = d.full
  BY <1>a DEF Folder
<1>5. QED
  BY <1>1, <1>3, <1>4 DEF Kept

(* Nothing is written. *)
LEMMA NothingWritten ==
  ASSUME ReportTypeOK, NEW r \in Reports, NEW pc \in AgentPC, Goes(r, pc), disk' = disk,
         NEW s \in TaskStatus,
         task' = [task EXCEPT ![r] = s], UNCHANGED <<readers, run, crashes>>
  PROVE  /\ Step1(r) /\ agent'[r].pc = pc /\ SameThread(r) /\ Kept(r) /\ readers' = readers
         /\ disk'[r] = disk[r] /\ task'[r] = s
<1>1. disk' = [disk EXCEPT ![r] = disk[r]] /\ disk[r] \in Folder
  BY SameTypes
<1>2. Step1(r) /\ agent'[r].pc = pc /\ SameThread(r) /\ task'[r] = s /\ readers' = readers
  BY <1>1, GoesOn
<1>3. QED
  BY <1>2 DEF Kept

LEMMA BeginDoes ==
  ASSUME ReportTypeOK, NEW r \in Reports, Begin(r)
  PROVE  /\ Does(r, "begin", {"pending", "fail"}) /\ SameThread(r) /\ Kept(r) /\ readers' = readers
         /\ disk'[r].meta = disk[r].meta /\ disk'[r].progress \in {disk[r].progress, "pending"}
         /\ task'[r] = "processing"
<1>0. /\ task' = [task EXCEPT ![r] = "processing"] /\ UNCHANGED <<readers, run, crashes>>
      /\ agent[r].pc = "begin"
  BY DEF Begin
<1>1. {"pending", "fail"} \subseteq AgentPC
  BY DEF AgentPC
<1>2. CASE Goes(r, "pending") /\ disk' = [disk EXCEPT ![r].progress = "pending"]
  <2>1. /\ Step1(r) /\ agent'[r].pc = "pending" /\ SameThread(r) /\ Kept(r)
        /\ disk'[r].meta = disk[r].meta /\ disk'[r].progress = "pending" /\ task'[r] = "processing"
    BY <1>0, <1>1, <1>2, Words, ProgressWritten
  <2>2. QED
    BY <1>0, <2>1 DEF Does
<1>3. CASE Goes(r, "fail") /\ UNCHANGED disk
  <2>1. /\ Step1(r) /\ agent'[r].pc = "fail" /\ SameThread(r) /\ Kept(r)
        /\ disk'[r] = disk[r] /\ task'[r] = "processing"
    BY <1>0, <1>1, <1>3, Words, NothingWritten
  <2>2. QED
    BY <1>0, <2>1 DEF Does
<1>4. QED
  BY <1>2, <1>3 DEF Begin

(* The report is saved, or its file is torn. *)
LEMMA SavesReportDoes ==
  ASSUME ReportTypeOK, NEW r \in Reports, NEW next \in AgentPC,
         NEW status \in MetaStatus,
         SavesReport(r, status, next), UNCHANGED <<task, readers, run, crashes>>
  PROVE  /\ Step1(r) /\ SameThread(r) /\ Kept(r) /\ readers' = readers
         /\ disk'[r].progress = disk[r].progress /\ task'[r] = task[r]
         /\ \/ agent'[r].pc = next /\ disk'[r].meta = status
            \/ agent'[r].pc = "fail" /\ disk'[r].meta = "torn"
<1>0. /\ task' = [task EXCEPT ![r] = task[r]] /\ task[r] \in TaskStatus
      /\ UNCHANGED <<readers, run, crashes>>
  BY SameTypes
<1>1. "fail" \in AgentPC
  BY DEF AgentPC
<1>2. CASE disk' = [disk EXCEPT ![r].meta = status] /\ Goes(r, next)
  <2>1. /\ Step1(r) /\ agent'[r].pc = next /\ SameThread(r) /\ Kept(r) /\ readers' = readers
        /\ disk'[r].meta = status /\ disk'[r].progress = disk[r].progress /\ task'[r] = task[r]
    BY <1>0, <1>2, MetaWritten
  <2>2. QED
    BY <2>1
<1>3. CASE disk' = [disk EXCEPT ![r].meta = "torn"] /\ Goes(r, "fail")
  <2>1. /\ Step1(r) /\ agent'[r].pc = "fail" /\ SameThread(r) /\ Kept(r) /\ readers' = readers
        /\ disk'[r].meta = "torn" /\ disk'[r].progress = disk[r].progress /\ task'[r] = task[r]
    BY <1>0, <1>1, <1>3, Words, MetaWritten
  <2>2. QED
    BY <2>1
<1>4. QED
  BY <1>2, <1>3 DEF SavesReport

LEMMA SavePendingDoes ==
  ASSUME ReportTypeOK, NEW r \in Reports, SavePending(r)
  PROVE  /\ Does(r, "pending", {"plan", "fail"}) /\ SameThread(r) /\ Kept(r) /\ readers' = readers
         /\ disk'[r].meta \in {"pending", "torn"} /\ disk'[r].progress = disk[r].progress
         /\ task'[r] = task[r]
<1>1. "plan" \in AgentPC
  BY DEF AgentPC
<1>2. SavesReport(r, "pending", "plan") /\ UNCHANGED <<task, readers, run, crashes>> /\ agent[r].pc = "pending"
  BY DEF SavePending
<1>3. QED
  BY <1>1, <1>2, Words, SavesReportDoes DEF Does

LEMMA PlanOutlineDoes ==
  ASSUME ReportTypeOK, NEW r \in Reports, PlanOutline(r)
  PROVE  /\ Does(r, "plan", {"outline", "fail"}) /\ Kept(r) /\ readers' = readers
         /\ agent'[r].section = agent[r].section /\ agent'[r].status = agent[r].status
         /\ agent'[r].how = agent[r].how /\ agent'[r].tools = agent[r].tools
         /\ disk'[r].meta = disk[r].meta /\ disk'[r].progress = "planning"
         /\ task'[r] = task[r]
<1>0. /\ task' = [task EXCEPT ![r] = task[r]] /\ task[r] \in TaskStatus
      /\ UNCHANGED <<readers, run, crashes>>
  BY SameTypes DEF PlanOutline
<1>1. {"outline", "fail"} \subseteq AgentPC
  BY DEF AgentPC
<1>2. CASE Goes(r, "fail")
  <2>1. disk' = [disk EXCEPT ![r].progress = "planning"] /\ agent[r].pc = "plan"
    BY DEF PlanOutline
  <2>2. /\ Step1(r) /\ agent'[r].pc = "fail" /\ SameThread(r) /\ Kept(r) /\ readers' = readers
        /\ disk'[r].meta = disk[r].meta /\ disk'[r].progress = "planning"
        /\ task'[r] = task[r]
    BY <1>0, <1>1, <1>2, <2>1, Words, ProgressWritten
  <2>3. QED
    BY <2>1, <2>2 DEF Does, SameThread
<1>3. ASSUME NEW n \in 0..MaxSections,
             agent' = [agent EXCEPT ![r].pc = "outline", ![r].outline = n]
      PROVE  /\ Does(r, "plan", {"outline", "fail"}) /\ Kept(r) /\ readers' = readers
             /\ agent'[r].section = agent[r].section /\ agent'[r].status = agent[r].status
             /\ agent'[r].how = agent[r].how /\ agent'[r].tools = agent[r].tools
             /\ disk'[r].meta = disk[r].meta /\ disk'[r].progress = "planning"
             /\ task'[r] = task[r]
  <2>0. PICK t \in Agent : t = agent[r]
    BY SameTypes
  <2>1. PICK u : u = [t EXCEPT !.pc = "outline", !.outline = n]
    OBVIOUS
  <2>2. u \in Agent
    BY <1>1, <2>1 DEF Agent
  <2>3. /\ u.pc = "outline" /\ u.section = t.section /\ u.status = t.status /\ u.how = t.how
        /\ u.tools = t.tools
    BY <2>1 DEF Agent
  <2>4. agent' = [agent EXCEPT ![r] = u]
    BY <1>3, <2>0, <2>1
  <2>5. PICK d \in Folder : d = disk[r]
    BY SameTypes
  <2>6. PICK e : e = [d EXCEPT !.progress = "planning"]
    OBVIOUS
  <2>7. e \in Folder /\ disk' = [disk EXCEPT ![r] = e]
    BY <2>5, <2>6, Words, FolderTypes DEF PlanOutline
  <2>8. e.meta = d.meta /\ e.progress = "planning" /\ e.saved = d.saved /\ e.full = d.full
    BY <2>6 DEF Folder
  <2>9. Step1(r) /\ agent'[r] = u /\ disk'[r] = e /\ task'[r] = task[r] /\ readers' = readers
    BY <1>0, <2>2, <2>4, <2>7, OwnStep
  <2>10. QED
    BY <2>0, <2>3, <2>5, <2>8, <2>9 DEF PlanOutline, Does, Kept
<1>4. QED
  BY <1>2, <1>3 DEF PlanOutline

LEMMA SaveOutlineDoes ==
  ASSUME ReportTypeOK, NEW r \in Reports, SaveOutline(r)
  PROVE  /\ Does(r, "outline", {"assemble", "progress", "fail"})
         /\ agent'[r].pc = "assemble" => agent[r].outline = 0
         /\ agent'[r].pc = "progress" => agent[r].outline # 0
         /\ SameThread(r) /\ Kept(r) /\ readers' = readers
         /\ disk'[r].meta \in {"planning", "torn"} /\ disk'[r].progress = disk[r].progress
         /\ task'[r] = task[r]
<1>1. PICK next \in {"assemble", "progress"} :
        next = IF agent[r].outline = 0 THEN "assemble" ELSE "progress"
  OBVIOUS
<1>2. /\ next \in AgentPC /\ agent[r].pc = "outline" /\ SavesReport(r, "planning", next)
      /\ UNCHANGED <<task, readers, run, crashes>>
  BY <1>1 DEF SaveOutline, AgentPC
<1>3. /\ Step1(r) /\ SameThread(r) /\ Kept(r) /\ readers' = readers
      /\ disk'[r].progress = disk[r].progress /\ task'[r] = task[r]
      /\ \/ agent'[r].pc = next /\ disk'[r].meta = "planning"
         \/ agent'[r].pc = "fail" /\ disk'[r].meta = "torn"
  BY <1>2, Words, SavesReportDoes
<1>4. QED
  BY <1>1, <1>2, <1>3 DEF Does

LEMMA StartSectionDoes ==
  ASSUME ReportTypeOK, NEW r \in Reports, StartSection(r)
  PROVE  /\ Does(r, "progress", {"ask"}) /\ SameThread(r) /\ Kept(r) /\ readers' = readers
         /\ disk'[r].meta = disk[r].meta /\ disk'[r].progress = "generating"
         /\ task'[r] = task[r]
<1>0. /\ task' = [task EXCEPT ![r] = task[r]] /\ task[r] \in TaskStatus
      /\ UNCHANGED <<readers, run, crashes>>
  BY SameTypes DEF StartSection
<1>1. "ask" \in AgentPC
  BY DEF AgentPC
<1>2. /\ Goes(r, "ask") /\ disk' = [disk EXCEPT ![r].progress = "generating"]
      /\ agent[r].pc = "progress"
  BY DEF StartSection
<1>3. QED
  BY <1>0, <1>1, <1>2, Words, ProgressWritten DEF Does

LEMMA ForcesFinalDoes ==
  ASSUME ReportTypeOK, NEW r \in Reports, ForcesFinal(r)
  PROVE  /\ Thinks(r) /\ Does(r, "forced", {"save"})
         /\ agent'[r].section = agent[r].section /\ agent'[r].outline = agent[r].outline
         /\ agent'[r].status = agent[r].status /\ agent'[r].how = "forced"
<1>1. PICK t \in Agent : t = agent[r]
  BY SameTypes
<1>2. PICK u : u = [t EXCEPT !.pc = "save", !.how = "forced"]
  OBVIOUS
<1>3. u \in Agent
  BY <1>2 DEF Agent, AgentPC
<1>4. /\ u.pc = "save" /\ u.how = "forced" /\ u.section = t.section /\ u.outline = t.outline
      /\ u.status = t.status
  BY <1>2 DEF Agent
<1>5. agent' = [agent EXCEPT ![r] = u]
  BY <1>1, <1>2 DEF ForcesFinal
<1>6. Thinks(r) /\ agent'[r] = u
  BY <1>3, <1>5, ThinksTypes DEF ForcesFinal
<1>7. QED
  BY <1>1, <1>4, <1>6 DEF ForcesFinal, Does, Thinks

(* The thread after its section was saved. *)
LEMMA NextSectionFields ==
  ASSUME NEW t \in Agent
  PROVE  /\ t.section < t.outline =>
              /\ NextSection(t).pc = "progress" /\ NextSection(t).section = t.section + 1
              /\ NextSection(t).outline = t.outline
         /\ ~(t.section < t.outline) => NextSection(t).pc = "assemble"
         /\ NextSection(t).status = "pending" /\ NextSection(t).how = "none"
  BY DEF NextSection, Idle

LEMMA SaveSectionDoes ==
  ASSUME ReportTypeOK, NEW r \in Reports, SaveSection(r)
  PROVE  /\ Step1(r) /\ agent[r].pc = "save" /\ readers' = readers /\ task'[r] = task[r]
         /\ \/ agent'[r].pc = "fail" /\ disk'[r] = disk[r] /\ SameThread(r) /\ Kept(r)
            \/ /\ agent'[r] = NextSection(agent[r])
               /\ disk'[r].saved = [disk[r].saved EXCEPT
                                      ![agent[r].section] = [section |-> agent[r].section, run |-> run]]
               /\ disk'[r].meta = disk[r].meta /\ disk'[r].progress = "generating"
<1>0. /\ task' = [task EXCEPT ![r] = task[r]] /\ task[r] \in TaskStatus
      /\ UNCHANGED <<readers, run, crashes>>
  BY SameTypes DEF SaveSection
<1>1. agent[r].pc = "save" /\ "fail" \in AgentPC
  BY DEF SaveSection, AgentPC
<1>2. CASE Goes(r, "fail") /\ UNCHANGED disk
  BY <1>0, <1>1, <1>2, NothingWritten
<1>3. PICK t \in Agent, d \in Folder, k \in 1..MaxRuns : t = agent[r] /\ d = disk[r] /\ k = run
  BY SameTypes DEF ReportTypeOK
<1>4. PICK content : content = [section |-> t.section, run |-> k]
  OBVIOUS
<1>5. content \in Content /\ t.section \in 1..MaxSections
  BY <1>4 DEF Content, Agent
<1>6. PICK e : e = [d EXCEPT !.saved[t.section] = content, !.progress = "generating"]
  OBVIOUS
<1>7. e \in Folder
  BY <1>5, <1>6, FolderTypes
<1>8. /\ e.saved = [d.saved EXCEPT ![t.section] = content]
      /\ e.meta = d.meta /\ e.progress = "generating"
  BY <1>6 DEF Folder
<1>9. CASE /\ disk' = [disk EXCEPT ![r].saved[agent[r].section] =
                         [section |-> agent[r].section, run |-> run], ![r].progress = "generating"]
           /\ agent' = [agent EXCEPT ![r] = NextSection(agent[r])]
  <2>1. disk' = [disk EXCEPT ![r] = e]
    BY <1>3, <1>4, <1>6, <1>9
  <2>2. PICK u \in Agent : u = NextSection(t)
    BY RecordTypes
  <2>3. agent' = [agent EXCEPT ![r] = u]
    BY <1>3, <1>9, <2>2
  <2>4. Step1(r) /\ agent'[r] = u /\ disk'[r] = e /\ task'[r] = task[r] /\ readers' = readers
    BY <1>0, <1>7, <2>1, <2>3, OwnStep
  <2>5. QED
    BY <1>1, <1>3, <1>4, <1>8, <2>2, <2>4
<1>10. QED
  BY <1>2, <1>9 DEF SaveSection

LEMMA AssembleDoes ==
  ASSUME ReportTypeOK, NEW r \in Reports, Assemble(r)
  PROVE  /\ Does(r, "assemble", {"complete", "fail"}) /\ readers' = readers /\ task'[r] = task[r]
         /\ agent'[r].how = agent[r].how /\ agent'[r].tools = agent[r].tools
         /\ \/ agent'[r].pc = "fail" /\ disk'[r] = disk[r] /\ SameThread(r) /\ Kept(r)
            \/ /\ agent'[r].pc = "complete" /\ agent'[r].status = "completed"
               /\ disk'[r].saved = disk[r].saved /\ disk'[r].full = Found(disk[r].saved)
<1>0. /\ task' = [task EXCEPT ![r] = task[r]] /\ task[r] \in TaskStatus
      /\ UNCHANGED <<readers, run, crashes>>
  BY SameTypes DEF Assemble
<1>1. agent[r].pc = "assemble" /\ "fail" \in AgentPC
  BY DEF Assemble, AgentPC
<1>2. CASE Goes(r, "fail") /\ UNCHANGED disk
  <2>1. /\ Step1(r) /\ agent'[r].pc = "fail" /\ SameThread(r) /\ Kept(r) /\ readers' = readers
        /\ disk'[r] = disk[r] /\ task'[r] = task[r]
    BY <1>0, <1>1, <1>2, NothingWritten
  <2>2. QED
    BY <1>1, <2>1 DEF Does, SameThread
<1>3. PICK t \in Agent, d \in Folder : t = agent[r] /\ d = disk[r]
  BY SameTypes
<1>4. PICK e : e = [d EXCEPT !.full = Found(d.saved)]
  OBVIOUS
<1>5. e \in Folder
  BY <1>4, FoundTypes
<1>6. e.saved = d.saved /\ e.full = Found(d.saved)
  BY <1>4 DEF Folder
<1>7. PICK u : u = [t EXCEPT !.pc = "complete", !.status = "completed"]
  OBVIOUS
<1>8. u \in Agent
  BY <1>7 DEF Agent, AgentPC
<1>9. u.pc = "complete" /\ u.status = "completed" /\ u.how = t.how /\ u.tools = t.tools
  BY <1>7 DEF Agent
<1>10. CASE /\ disk' = [disk EXCEPT ![r].full = Found(disk[r].saved)]
            /\ agent' = [agent EXCEPT ![r].pc = "complete", ![r].status = "completed"]
  <2>1. disk' = [disk EXCEPT ![r] = e] /\ agent' = [agent EXCEPT ![r] = u]
    BY <1>3, <1>4, <1>7, <1>10
  <2>2. Step1(r) /\ agent'[r] = u /\ disk'[r] = e /\ task'[r] = task[r] /\ readers' = readers
    BY <1>0, <1>5, <1>8, <2>1, OwnStep
  <2>3. QED
    BY <1>1, <1>3, <1>6, <1>9, <2>2 DEF Does
<1>11. QED
  BY <1>2, <1>10 DEF Assemble

LEMMA SaveCompletedDoes ==
  ASSUME ReportTypeOK, NEW r \in Reports, SaveCompleted(r)
  PROVE  /\ Does(r, "complete", {"told", "fail"}) /\ SameThread(r) /\ Kept(r) /\ readers' = readers
         /\ disk'[r].progress = disk[r].progress /\ task'[r] = task[r]
<1>1. "told" \in AgentPC
  BY DEF AgentPC
<1>2. SavesReport(r, "completed", "told") /\ UNCHANGED <<task, readers, run, crashes>> /\ agent[r].pc = "complete"
  BY DEF SaveCompleted
<1>3. QED
  BY <1>1, <1>2, Words, SavesReportDoes DEF Does

LEMMA TellCompletedDoes ==
  ASSUME ReportTypeOK, NEW r \in Reports, TellCompleted(r)
  PROVE  /\ Does(r, "told", {"return", "fail"}) /\ SameThread(r) /\ Kept(r) /\ readers' = readers
         /\ task'[r] = task[r]
<1>0. /\ task' = [task EXCEPT ![r] = task[r]] /\ task[r] \in TaskStatus
      /\ UNCHANGED <<readers, run, crashes>>
  BY SameTypes DEF TellCompleted
<1>1. {"return", "fail"} \subseteq AgentPC /\ agent[r].pc = "told"
  BY DEF AgentPC, TellCompleted
<1>2. CASE Goes(r, "return") /\ disk' = [disk EXCEPT ![r].progress = "completed"]
  BY <1>0, <1>1, <1>2, Words, ProgressWritten DEF Does
<1>3. CASE Goes(r, "fail") /\ UNCHANGED disk
  BY <1>0, <1>1, <1>3, NothingWritten DEF Does
<1>4. QED
  BY <1>2, <1>3 DEF TellCompleted

LEMMA SaveFailedDoes ==
  ASSUME ReportTypeOK, NEW r \in Reports, SaveFailed(r)
  PROVE  /\ Does(r, "fail", {"return"}) /\ Kept(r) /\ readers' = readers /\ task'[r] = task[r]
         /\ agent'[r].status = "failed" /\ agent'[r].how = "none"
         /\ disk'[r].meta \in {"failed", "torn"}
         /\ disk'[r].progress \in {disk[r].progress, "failed"}
<1>0. /\ task' = [task EXCEPT ![r] = task[r]] /\ UNCHANGED <<readers, run, crashes>>
      /\ agent[r].pc = "fail"
  BY SameTypes DEF SaveFailed
<1>1. PICK u : u = [Idle EXCEPT !.pc = "return", !.status = "failed"]
  OBVIOUS
<1>2. u \in Agent /\ u.pc = "return" /\ u.status = "failed" /\ u.how = "none"
  <2>1. Idle.how = "none"
    BY DEF Idle
  <2>2. QED
    BY <1>1, <2>1, IdleTypes DEF Agent, AgentPC
<1>3. agent' = [agent EXCEPT ![r] = u]
  BY <1>1 DEF SaveFailed
<1>4. PICK d \in Folder : d = disk[r]
  BY SameTypes
<1>5. \E e \in Folder : /\ disk' = [disk EXCEPT ![r] = e] /\ e.saved = d.saved /\ e.full = d.full
                        /\ e.meta \in {"failed", "torn"} /\ e.progress \in {d.progress, "failed"}
  <2>1. PICK e1 : e1 = [d EXCEPT !.meta = "failed", !.progress = "failed"]
    OBVIOUS
  <2>2. PICK e2 : e2 = [d EXCEPT !.meta = "torn"]
    OBVIOUS
  <2>3. PICK e3 : e3 = [d EXCEPT !.meta = "failed"]
    OBVIOUS
  <2>4. {e1, e2, e3} \subseteq Folder
    BY <2>1, <2>2, <2>3, Words, FolderTypes
  <2>5. /\ e1.saved = d.saved /\ e1.full = d.full /\ e1.meta = "failed" /\ e1.progress = "failed"
        /\ e2.saved = d.saved /\ e2.full = d.full /\ e2.meta = "torn" /\ e2.progress = d.progress
        /\ e3.saved = d.saved /\ e3.full = d.full /\ e3.meta = "failed" /\ e3.progress = d.progress
    BY <2>1, <2>2, <2>3 DEF Folder
  <2>6. \/ disk' = [disk EXCEPT ![r] = e1]
        \/ disk' = [disk EXCEPT ![r] = e2]
        \/ disk' = [disk EXCEPT ![r] = e3]
    BY <1>4, <2>1, <2>2, <2>3 DEF SaveFailed
  <2>7. QED
    BY <2>4, <2>5, <2>6
<1>6. PICK e \in Folder : /\ disk' = [disk EXCEPT ![r] = e] /\ e.saved = d.saved /\ e.full = d.full
                        /\ e.meta \in {"failed", "torn"} /\ e.progress \in {d.progress, "failed"}
  BY <1>5
<1>7. Step1(r) /\ agent'[r] = u /\ disk'[r] = e /\ task'[r] = task[r] /\ readers' = readers
  <2>1. disk' = [disk EXCEPT ![r] = e] /\ u \in Agent
    BY <1>2, <1>6
  <2>2. task[r] \in TaskStatus
    BY SameTypes
  <2>3. QED
    BY <1>0, <1>3, <2>1, <2>2, OwnStep
<1>8. QED
  BY <1>0, <1>2, <1>4, <1>6, <1>7 DEF Does, Kept

LEMMA SaveReturnedDoes ==
  ASSUME ReportTypeOK, NEW r \in Reports, SaveReturned(r)
  PROVE  /\ Does(r, "return", {"task", "release"}) /\ SameThread(r) /\ Kept(r) /\ readers' = readers
         /\ disk'[r].progress = disk[r].progress
         /\ \/ agent'[r].pc = "task" /\ disk'[r].meta = agent[r].status /\ task'[r] = task[r]
            \/ agent'[r].pc = "release" /\ disk'[r].meta = "torn" /\ task'[r] = "failed"
<1>0. UNCHANGED <<readers, run, crashes>> /\ agent[r].pc = "return"
  BY DEF SaveReturned
<1>1. {"task", "release"} \subseteq AgentPC
  BY DEF AgentPC
<1>2. PICK s \in {"pending", "completed", "failed"} : s = agent[r].status
  BY SameTypes DEF Agent
<1>3. CASE disk' = [disk EXCEPT ![r].meta = s] /\ Goes(r, "task") /\ UNCHANGED task
  <2>1. task' = [task EXCEPT ![r] = task[r]] /\ task[r] \in TaskStatus /\ s \in MetaStatus
    BY <1>2, <1>3, SameTypes, Words
  <2>2. /\ Step1(r) /\ agent'[r].pc = "task" /\ SameThread(r) /\ Kept(r) /\ readers' = readers
        /\ disk'[r].meta = s /\ disk'[r].progress = disk[r].progress /\ task'[r] = task[r]
    BY <1>0, <1>1, <1>3, <2>1, MetaWritten
  <2>3. QED
    BY <1>0, <1>2, <2>2 DEF Does
<1>4. CASE /\ disk' = [disk EXCEPT ![r].meta = "torn"] /\ Goes(r, "release")
           /\ task' = [task EXCEPT ![r] = "failed"]
  <2>1. /\ Step1(r) /\ agent'[r].pc = "release" /\ SameThread(r) /\ Kept(r) /\ readers' = readers
        /\ disk'[r].meta = "torn" /\ disk'[r].progress = disk[r].progress /\ task'[r] = "failed"
    BY <1>0, <1>1, <1>4, Words, MetaWritten
  <2>2. QED
    BY <1>0, <2>1 DEF Does
<1>5. QED
  BY <1>2, <1>3, <1>4 DEF SaveReturned

LEMMA SettleTaskDoes ==
  ASSUME ReportTypeOK, NEW r \in Reports, SettleTask(r)
  PROVE  /\ Does(r, "task", {"release"}) /\ SameThread(r) /\ Kept(r) /\ readers' = readers
         /\ disk'[r] = disk[r]
         /\ task'[r] = "completed" => agent[r].status = "completed"
<1>1. PICK s \in {"completed", "failed"} :
         s = IF agent[r].status = "completed" THEN "completed" ELSE "failed"
  OBVIOUS
<1>2. /\ "release" \in AgentPC /\ agent[r].pc = "task" /\ Goes(r, "release") /\ disk' = disk
      /\ task' = [task EXCEPT ![r] = s] /\ UNCHANGED <<readers, run, crashes>>
  BY <1>1 DEF AgentPC, SettleTask
<1>3. QED
  BY <1>1, <1>2, Words, NothingWritten DEF Does

LEMMA ReleaseDoes ==
  ASSUME ReportTypeOK, NEW r \in Reports, Release(r)
  PROVE  /\ Does(r, "release", {"ended"}) /\ Kept(r) /\ disk'[r] = disk[r] /\ task'[r] = task[r]
         /\ agent'[r].status = "pending" /\ agent'[r].how = "none"
<1>1. PICK u : u = [Idle EXCEPT !.pc = "ended"]
  OBVIOUS
<1>2. u \in Agent /\ u.pc = "ended" /\ u.status = "pending" /\ u.how = "none"
  <2>1. Idle.how = "none" /\ Idle.status = "pending"
    BY DEF Idle
  <2>2. QED
    BY <1>1, <2>1, IdleTypes DEF Agent, AgentPC
<1>3. /\ agent' = [agent EXCEPT ![r] = u] /\ disk' = [disk EXCEPT ![r] = disk[r]]
      /\ task' = [task EXCEPT ![r] = task[r]] /\ readers' = readers \ {r}
      /\ run' = run /\ crashes' = crashes /\ agent[r].pc = "release"
      /\ disk[r] \in Folder /\ task[r] \in TaskStatus
  BY <1>1, SameTypes DEF Release
<1>4. Step1(r) /\ agent'[r] = u /\ disk'[r] = disk[r] /\ task'[r] = task[r]
  BY <1>2, <1>3, OwnStep
<1>5. QED
  BY <1>2, <1>3, <1>4 DEF Does, Kept

LEMMA RequestDoes ==
  ASSUME ReportTypeOK, NEW r \in Reports, NEW force \in BOOLEAN, Request(r, force)
  PROVE  /\ Does(r, "idle", {"begin", "ended"}) /\ SameThread(r) /\ disk'[r] = disk[r]
         /\ agent'[r].pc = "begin" => r \in readers'
         /\ task'[r] = "pending"
<1>1. PICK pc \in {"begin", "ended"} : /\ Goes(r, pc)
                                       /\ pc = "begin" => readers' = readers \cup {r}
                                       /\ pc = "ended" => readers' = readers
  BY DEF Request, TakesLease
<1>2. PICK t \in Agent : t = agent[r]
  BY SameTypes
<1>3. PICK u : u = [t EXCEPT !.pc = pc]
  OBVIOUS
<1>4. /\ u \in Agent /\ u.pc = pc /\ u.section = t.section /\ u.outline = t.outline
      /\ u.status = t.status /\ u.how = t.how /\ u.tools = t.tools
  BY <1>3, PcFields DEF AgentPC
<1>5. /\ agent' = [agent EXCEPT ![r] = u] /\ disk' = [disk EXCEPT ![r] = disk[r]]
      /\ task' = [task EXCEPT ![r] = "pending"] /\ run' = run /\ crashes' = crashes
      /\ agent[r].pc = "idle" /\ disk[r] \in Folder
  BY <1>1, <1>2, <1>3, SameTypes DEF Request, Goes
<1>6. Step1(r) /\ agent'[r] = u /\ disk'[r] = disk[r] /\ task'[r] = "pending"
  BY <1>1, <1>4, <1>5, Words, OwnStep
<1>7. QED
  BY <1>1, <1>2, <1>4, <1>5, <1>6 DEF Does, SameThread

LEMMA DeleteDoes ==
  ASSUME ReportTypeOK, NEW r \in Reports, Delete(r)
  PROVE  /\ Step1(r) /\ agent' = agent /\ task' = task /\ readers' = readers
         /\ disk'[r] = Empty /\ disk[r] # Empty /\ (DeletesBusy \/ ~Working(r))
<1>1. /\ agent' = [agent EXCEPT ![r] = agent[r]] /\ task' = [task EXCEPT ![r] = task[r]]
      /\ readers' = readers /\ run' = run /\ crashes' = crashes
      /\ disk' = [disk EXCEPT ![r] = Empty] /\ Empty \in Folder
      /\ agent[r] \in Agent /\ task[r] \in TaskStatus
  BY SameTypes, IdleTypes DEF Delete, ReportTypeOK
<1>2. Step1(r) /\ disk'[r] = Empty
  BY <1>1, OwnStep
<1>3. QED
  BY <1>2 DEF Delete

-----------------------------------------------------------------------------
(* The types, in every step. *)

LEMMA ThinksIsStep1 ==
  ASSUME NEW r \in Reports, Thinks(r)
  PROVE  Step1(r) /\ disk' = disk /\ task' = task /\ readers' = readers
  BY DEF Thinks

LEMMA StepDoes ==
  ASSUME ReportTypeOK, NEW r \in Reports, Step(r)
  PROVE  Step1(r)
<1>1. CASE Replies(r)
  BY <1>1, RepliesDo DEF Thinks
<1>2. CASE Begin(r) \/ SavePending(r) \/ PlanOutline(r) \/ SaveOutline(r)
  BY <1>2, BeginDoes, SavePendingDoes, PlanOutlineDoes, SaveOutlineDoes DEF Does
<1>3. CASE StartSection(r) \/ ForcesFinal(r) \/ SaveSection(r)
  BY <1>3, StartSectionDoes, ForcesFinalDoes, SaveSectionDoes DEF Does
<1>4. CASE Assemble(r) \/ SaveCompleted(r) \/ TellCompleted(r)
  BY <1>4, AssembleDoes, SaveCompletedDoes, TellCompletedDoes DEF Does
<1>5. CASE SaveFailed(r) \/ SaveReturned(r) \/ SettleTask(r) \/ Release(r)
  BY <1>5, SaveFailedDoes, SaveReturnedDoes, SettleTaskDoes, ReleaseDoes DEF Does
<1>6. QED
  BY <1>1, <1>2, <1>3, <1>4, <1>5 DEF Step, Replies

(* What a restart leaves. *)
Crashed(r) ==
  /\ \/ ~Working(r) /\ agent'[r] = agent[r]
     \/ Working(r) /\ agent'[r] = [Idle EXCEPT !.pc = "dead"]
  /\ \/ disk'[r] = disk[r]
     \/ Working(r) /\ Kept(r) /\ disk'[r].meta = "torn" /\ disk'[r].progress = disk[r].progress
  /\ task'[r] = "none" /\ readers' = {} /\ run' = run

LEMMA RestartDoes ==
  ASSUME ReportTypeOK, ServerRestarts
  PROVE  ReportTypeOK' /\ \A r \in Reports : Crashed(r)
<1>1. PICK torn \in SUBSET {r \in Reports : Torn /\ agent[r].pc \in Saving} :
        disk' = [r \in Reports |-> IF r \in torn THEN [disk[r] EXCEPT !.meta = "torn"] ELSE disk[r]]
  BY DEF ServerRestarts
<1>2. ASSUME NEW r \in Reports
      PROVE  /\ disk'[r] \in Folder
             /\ \/ disk'[r] = disk[r]
                \/ Working(r) /\ Kept(r) /\ disk'[r].meta = "torn" /\ disk'[r].progress = disk[r].progress
  <2>1. PICK d \in Folder : d = disk[r]
    BY SameTypes
  <2>2. PICK e : e = [d EXCEPT !.meta = "torn"]
    OBVIOUS
  <2>3. e \in Folder
    BY <2>2, Words, FolderTypes
  <2>4. e.meta = "torn" /\ e.progress = d.progress /\ e.saved = d.saved /\ e.full = d.full
    BY <2>2 DEF Folder
  <2>5. r \in torn => Working(r)
    BY DEF Working, Saving
  <2>6. disk'[r] = IF r \in torn THEN e ELSE d
    BY <1>1, <2>1, <2>2
  <2>7. QED
    BY <2>1, <2>3, <2>4, <2>5, <2>6 DEF Kept
<1>3. disk' \in [Reports -> Folder]
  BY <1>1, <1>2
<1>4. PICK u : u = [Idle EXCEPT !.pc = "dead"]
  OBVIOUS
<1>5. u \in Agent
  BY <1>4, IdleTypes DEF Agent, AgentPC
<1>6. agent' = [r \in Reports |-> IF Working(r) THEN u ELSE agent[r]]
  BY <1>4 DEF ServerRestarts
<1>7. agent' \in [Reports -> Agent]
  BY <1>5, <1>6 DEF ReportTypeOK
<1>8. /\ task' = [r \in Reports |-> "none"] /\ readers' = {} /\ run' = run
      /\ crashes' \in 0..MaxCrashes
  BY Bounds DEF ServerRestarts, ReportTypeOK
<1>9. ReportTypeOK'
  BY <1>3, <1>7, <1>8 DEF ReportTypeOK
<1>10. QED
  BY <1>2, <1>4, <1>6, <1>8, <1>9 DEF Crashed

LEMMA NextTypes ==
  ASSUME ReportTypeOK, [ReportNext]_reportVars
  PROVE  ReportTypeOK'
<1>1. ASSUME NEW r \in Reports, Step(r) \/ Delete(r) \/ \E force \in BOOLEAN : Request(r, force)
      PROVE  ReportTypeOK'
  <2>1. Step1(r)
    BY <1>1, StepDoes, DeleteDoes, RequestDoes DEF Does
  <2>2. QED
    BY <2>1, Step1Types
<1>2. CASE RunsAgain
  BY <1>2, Bounds DEF RunsAgain, ReportTypeOK
<1>3. CASE UNCHANGED reportVars
  BY <1>3 DEF reportVars, ReportTypeOK
<1>4. QED
  BY <1>1, <1>2, <1>3, RestartDoes DEF ReportNext

(* What each variable may hold. *)
THEOREM ReportTypesHold == ReportSpec => []ReportTypeOK
<1>1. QED
  BY InitTypes, NextTypes, PTL DEF ReportSpec

-----------------------------------------------------------------------------
(* Completed reports are whole *)

(* The folder holds the first n sections, of the present run. *)
Has(r, n) ==
  \A i \in 1..MaxSections :
    disk[r].saved[i] = IF i <= n THEN [section |-> i, run |-> run] ELSE NoContent

Labelled(r) == disk[r].meta = "completed" \/ disk[r].progress = "completed"

(* What CompletedIsWhole asks of a folder. *)
Whole(r) ==
  /\ \A i \in 1..MaxSections : disk[r].saved[i] # NoContent <=> i <= Len(disk[r].full)
  /\ \A i \in 1..Len(disk[r].full) :
       disk[r].full[i].section = i /\ disk[r].full[i].run = disk[r].full[1].run

Planning == {"begin", "pending", "plan", "outline"}
Within == {"progress", "ask", "forced", "save"}
Unfinished == Planning \cup Within \cup {"assemble"}

(* Where the thread of r is, its folder holds the sections it has written  *)
(* in the one run there was since it took its lease, no file calls the     *)
(* report completed before it is assembled, and what is assembled stays.   *)
Sound(r) ==
  /\ agent[r].pc = "idle" => agent[r] = Idle /\ disk[r] = Empty
  /\ Working(r) => r \in readers
  /\ agent[r].pc \in Planning => agent[r].section = 1 /\ Has(r, 0)
  /\ \A n \in 1..MaxSections : agent[r].pc \in Within /\ agent[r].section = n =>
       n <= agent[r].outline /\ Has(r, n - 1)
  /\ agent[r].pc = "assemble" => \E n \in 0..MaxSections : Has(r, n)
  /\ agent[r].pc \in Unfinished => ~Labelled(r)
  /\ agent[r].pc \in Unfinished \cup {"ended", "dead"} => agent[r].status # "completed"
  /\ agent[r].pc \in {"complete", "told"} => agent[r].status = "completed"
  /\ Labelled(r) \/ agent[r].status = "completed" => Whole(r)

SectionsInv == \A r \in Reports : Sound(r)

LEMMA HasStays ==
  ASSUME NEW r \in Reports, NEW n \in 0..MaxSections, Kept(r), run' = run, Has(r, n)
  PROVE  Has(r, n)'
  BY DEF Has, Kept

LEMMA WholeStays ==
  ASSUME NEW r \in Reports, Kept(r), Whole(r)
  PROVE  Whole(r)'
  BY DEF Whole, Kept

(* A step that leaves sections and full report, and keeps to its stage or  *)
(* leaves the writing altogether.                                          *)
LEMMA QuietStep ==
  ASSUME ReportTypeOK, NEW r \in Reports, Sound(r), Working(r), Kept(r), run' = run, readers' = readers,
         agent'[r].status \in {agent[r].status, "failed"},
         Labelled(r)' => Labelled(r) \/ agent[r].status = "completed",
         \/ /\ agent[r].pc \in Planning /\ agent'[r].pc \in Planning
            /\ agent'[r].section = agent[r].section
         \/ /\ agent[r].pc \in Within /\ agent'[r].pc \in Within
            /\ agent'[r].section = agent[r].section /\ agent'[r].outline = agent[r].outline
         \/ agent'[r].pc \in {"fail", "return", "task", "release"}
         \/ agent[r].pc = "complete" /\ agent'[r].pc = "told" /\ agent'[r].status = agent[r].status
  PROVE  Sound(r)'
<1>1. /\ agent'[r].pc # "idle" /\ r \in readers'
      /\ agent'[r].pc \notin {"assemble", "complete", "ended", "dead"}
  BY DEF Sound, Planning, Within
<1>2. ASSUME agent'[r].pc \in Planning PROVE agent'[r].section = 1 /\ Has(r, 0)'
  <2>1. agent[r].pc \in Planning /\ agent'[r].section = agent[r].section
    BY <1>2 DEF Planning, Within
  <2>2. QED
    BY <2>1, HasStays, Bounds DEF Sound
<1>3. ASSUME NEW n \in 1..MaxSections, agent'[r].pc \in Within, agent'[r].section = n
      PROVE  n <= agent'[r].outline /\ Has(r, n - 1)'
  <2>1. /\ agent[r].pc \in Within /\ agent'[r].outline = agent[r].outline
        /\ agent'[r].section = agent[r].section
    BY <1>3 DEF Planning, Within
  <2>2. n <= agent[r].outline /\ Has(r, n - 1) /\ n - 1 \in 0..MaxSections
    BY <1>3, <2>1, Bounds DEF Sound
  <2>3. QED
    BY <2>1, <2>2, HasStays
<1>4. ASSUME agent'[r].pc \in Unfinished PROVE ~Labelled(r)' /\ agent'[r].status # "completed"
  <2>1. agent[r].pc \in Unfinished
    BY <1>1, <1>4 DEF Planning, Within, Unfinished
  <2>2. ~Labelled(r) /\ agent[r].status # "completed"
    BY <2>1 DEF Sound
  <2>3. QED
    BY <2>2
<1>5. agent'[r].pc = "told" => agent'[r].status = "completed"
  BY DEF Sound, Planning, Within
<1>6. Labelled(r)' \/ agent'[r].status = "completed" => Whole(r)'
  BY WholeStays DEF Sound
<1>7. QED
  BY <1>1, <1>2, <1>3, <1>4, <1>5, <1>6 DEF Sound

(* A step of others. *)
LEMMA OtherStep ==
  ASSUME NEW r \in Reports, Sound(r), agent'[r] = agent[r], disk'[r] = disk[r],
         Working(r) => run' = run /\ (r \in readers => r \in readers')
  PROVE  Sound(r)'
<1>1. Kept(r) /\ (Labelled(r)' <=> Labelled(r)) /\ (Working(r)' <=> Working(r))
  BY DEF Kept, Labelled, Working
<1>2. ASSUME Working(r), NEW n \in 0..MaxSections, Has(r, n) PROVE Has(r, n)'
  BY <1>1, <1>2, HasStays
<1>3. agent[r].pc \in Unfinished => Working(r)
  BY DEF Unfinished, Planning, Within, Working
<1>4. agent[r].pc \in Planning => Has(r, 0)'
  BY <1>2, <1>3, Bounds DEF Sound, Unfinished
<1>5. ASSUME NEW n \in 1..MaxSections, agent[r].pc \in Within, agent[r].section = n
      PROVE  Has(r, n - 1)'
  <2>1. n - 1 \in 0..MaxSections /\ Has(r, n - 1)
    BY <1>5, Bounds DEF Sound
  <2>2. QED
    BY <1>2, <1>3, <1>5, <2>1 DEF Unfinished
<1>6. agent[r].pc = "assemble" => \E n \in 0..MaxSections : Has(r, n)'
  BY <1>2, <1>3 DEF Sound, Unfinished
<1>7. Whole(r) => Whole(r)'
  BY <1>1, WholeStays
<1>8. QED
  BY <1>1, <1>4, <1>5, <1>6, <1>7 DEF Sound

-----------------------------------------------------------------------------
(* Each action keeps the report of its thread sound. *)

LEMMA QuietActions ==
  ASSUME ReportTypeOK, NEW r \in Reports, Sound(r),
         \/ Begin(r) \/ SavePending(r) \/ PlanOutline(r) \/ StartSection(r) \/ Replies(r)
         \/ ForcesFinal(r) \/ SaveCompleted(r) \/ TellCompleted(r) \/ SaveFailed(r)
         \/ SaveReturned(r) \/ SettleTask(r)
  PROVE  Sound(r)'
<1>1. CASE Begin(r)
  BY <1>1, BeginDoes, QuietStep
  DEF Does, Step1, SameThread, Working, Labelled, Planning, Within
<1>2. CASE SavePending(r)
  BY <1>2, SavePendingDoes, QuietStep
  DEF Does, Step1, SameThread, Working, Labelled, Planning, Within
<1>3. CASE PlanOutline(r)
  BY <1>3, PlanOutlineDoes, QuietStep
  DEF Does, Step1, Working, Labelled, Planning, Within
<1>4. CASE StartSection(r)
  BY <1>4, StartSectionDoes, QuietStep
  DEF Does, Step1, SameThread, Working, Labelled, Planning, Within
<1>5. CASE Replies(r)
  BY <1>5, RepliesDo, QuietStep
  DEF Thinks, Step1, Kept, Working, Labelled, Planning, Within
<1>6. CASE ForcesFinal(r)
  BY <1>6, ForcesFinalDoes, QuietStep
  DEF Does, Thinks, Step1, Kept, Working, Labelled, Planning, Within
<1>7. CASE SaveCompleted(r)
  BY <1>7, SaveCompletedDoes, QuietStep
  DEF Does, Step1, SameThread, Working, Sound, Planning, Within
<1>8. CASE TellCompleted(r)
  BY <1>8, TellCompletedDoes, QuietStep
  DEF Does, Step1, SameThread, Working, Sound, Planning, Within
<1>9. CASE SaveFailed(r)
  BY <1>9, SaveFailedDoes, QuietStep
  DEF Does, Step1, Working, Labelled, Planning, Within
<1>10. CASE SaveReturned(r)
  BY <1>10, SaveReturnedDoes, QuietStep
  DEF Does, Step1, SameThread, Working, Labelled, Planning, Within
<1>11. CASE SettleTask(r)
  BY <1>11, SettleTaskDoes, QuietStep
  DEF Does, Step1, SameThread, Working, Labelled, Planning, Within
<1>12. QED
  BY <1>1, <1>2, <1>3, <1>4, <1>5, <1>6, <1>7, <1>8, <1>9, <1>10, <1>11

(* The outline is written: the first section, or the end of a report that  *)
(* has none.                                                               *)
LEMMA OutlineStep ==
  ASSUME ReportTypeOK, NEW r \in Reports, Sound(r), SaveOutline(r)
  PROVE  Sound(r)'
<1>1. /\ Does(r, "outline", {"assemble", "progress", "fail"})
      /\ agent'[r].pc = "progress" => agent[r].outline # 0
      /\ SameThread(r) /\ Kept(r) /\ readers' = readers
      /\ disk'[r].meta \in {"planning", "torn"} /\ disk'[r].progress = disk[r].progress
  BY SaveOutlineDoes
<1>2. CASE agent'[r].pc = "fail"
  BY <1>1, <1>2, QuietStep DEF Does, Step1, SameThread, Working, Labelled, Planning, Within
<1>3. CASE agent'[r].pc # "fail"
  <2>1. /\ agent[r].pc = "outline" /\ agent'[r].pc \in {"assemble", "progress"}
        /\ agent'[r].section = agent[r].section /\ agent'[r].outline = agent[r].outline
        /\ agent'[r].status = agent[r].status /\ run' = run
    BY <1>1, <1>3 DEF Does, Step1, SameThread
  <2>2. /\ agent[r].section = 1 /\ Has(r, 0) /\ r \in readers /\ ~Labelled(r)
        /\ agent[r].status # "completed"
    BY <2>1 DEF Sound, Working, Planning, Unfinished
  <2>3. Has(r, 0)'
    BY <1>1, <2>1, <2>2, HasStays, Bounds
  <2>4. agent[r].outline \in Nat
    BY Bounds DEF ReportTypeOK, Agent
  <2>5. ~Labelled(r)'
    BY <1>1, <2>2 DEF Labelled
  <2>6. ASSUME NEW n \in 1..MaxSections, agent'[r].pc \in Within, agent'[r].section = n
        PROVE  n <= agent'[r].outline /\ Has(r, n - 1)'
    <3>1. n = 1 /\ n - 1 = 0 /\ agent[r].outline # 0
      BY <1>1, <2>1, <2>2, <2>6 DEF Within
    <3>2. QED
      BY <2>1, <2>3, <2>4, <3>1
  <2>7. 0 \in 0..MaxSections
    BY Bounds
  <2>8. QED
    BY <1>1, <2>1, <2>2, <2>3, <2>5, <2>6, <2>7 DEF Sound, Planning
<1>4. QED
  BY <1>2, <1>3

(* One section more is there, and it was written from the present run. *)
LEMMA SectionStep ==
  ASSUME ReportTypeOK, NEW r \in Reports, Sound(r), SaveSection(r)
  PROVE  Sound(r)'
<1>1. /\ Step1(r) /\ agent[r].pc = "save" /\ readers' = readers
      /\ \/ agent'[r].pc = "fail" /\ disk'[r] = disk[r] /\ SameThread(r) /\ Kept(r)
         \/ /\ agent'[r] = NextSection(agent[r])
            /\ disk'[r].saved = [disk[r].saved EXCEPT
                                   ![agent[r].section] = [section |-> agent[r].section, run |-> run]]
            /\ disk'[r].meta = disk[r].meta /\ disk'[r].progress = "generating"
  BY SaveSectionDoes
<1>2. CASE agent'[r].pc = "fail" /\ disk'[r] = disk[r] /\ SameThread(r) /\ Kept(r)
  BY <1>1, <1>2, QuietStep DEF Step1, SameThread, Working, Labelled, Planning, Within
<1>3. CASE /\ agent'[r] = NextSection(agent[r])
           /\ disk'[r].saved = [disk[r].saved EXCEPT
                                  ![agent[r].section] = [section |-> agent[r].section, run |-> run]]
           /\ disk'[r].meta = disk[r].meta /\ disk'[r].progress = "generating"
  <2>1. PICK t \in Agent, s \in 1..MaxSections : t = agent[r] /\ s = t.section
    BY DEF ReportTypeOK, Agent
  <2>2. /\ s <= t.outline /\ Has(r, s - 1) /\ r \in readers /\ ~Labelled(r)
        /\ t.outline \in 0..MaxSections
    BY <1>1, <2>1 DEF Sound, Working, Within, Unfinished, Agent
  <2>3. Has(r, s)'
    <3>1. disk[r].saved \in [1..MaxSections -> Content \cup {NoContent}]
      BY DEF ReportTypeOK, Folder
    <3>2. run' = run
      BY <1>1 DEF Step1
    <3>3. ASSUME NEW i \in 1..MaxSections
          PROVE  disk'[r].saved[i] = IF i <= s THEN [section |-> i, run |-> run] ELSE NoContent
      <4>1. disk[r].saved[i] = IF i <= s - 1 THEN [section |-> i, run |-> run] ELSE NoContent
        BY <2>2 DEF Has
      <4>2. disk'[r].saved[i] = IF i = s THEN [section |-> s, run |-> run] ELSE disk[r].saved[i]
        BY <1>3, <2>1, <3>1
      <4>3. (i <= s <=> i = s \/ i <= s - 1) /\ (i = s => ~(i <= s - 1))
        OBVIOUS
      <4>4. QED
        BY <4>1, <4>2, <4>3
    <3>4. QED
      BY <3>2, <3>3 DEF Has
  <2>4. ~Labelled(r)'
    BY <1>3, <2>2 DEF Labelled
  <2>5. /\ s < t.outline => /\ agent'[r].pc = "progress" /\ agent'[r].section = s + 1
                            /\ agent'[r].outline = t.outline
        /\ ~(s < t.outline) => agent'[r].pc = "assemble"
        /\ agent'[r].status = "pending"
    BY <1>3, <2>1, NextSectionFields
  <2>6. ASSUME NEW n \in 1..MaxSections, agent'[r].pc \in Within, agent'[r].section = n
        PROVE  n <= agent'[r].outline /\ Has(r, n - 1)'
    <3>1. s < t.outline
      BY <2>5, <2>6 DEF Within
    <3>2. n = s + 1 /\ n - 1 = s /\ agent'[r].outline = t.outline
      BY <2>5, <2>6, <3>1
    <3>3. QED
      BY <2>2, <2>3, <3>1, <3>2
  <2>7. agent'[r].pc \in {"progress", "assemble"} /\ s \in 0..MaxSections
    BY <2>5
  <2>8. QED
    BY <1>1, <2>2, <2>3, <2>4, <2>5, <2>6, <2>7 DEF Sound, Planning
<1>4. QED
  BY <1>1, <1>2, <1>3

(* The sections found are all there are, in their order. *)
LEMMA AssembleStep ==
  ASSUME ReportTypeOK, NEW r \in Reports, Sound(r), Assemble(r)
  PROVE  Sound(r)'
<1>1. /\ Does(r, "assemble", {"complete", "fail"}) /\ readers' = readers
      /\ \/ agent'[r].pc = "fail" /\ disk'[r] = disk[r] /\ SameThread(r) /\ Kept(r)
         \/ /\ agent'[r].pc = "complete" /\ agent'[r].status = "completed"
            /\ disk'[r].saved = disk[r].saved /\ disk'[r].full = Found(disk[r].saved)
  BY AssembleDoes
<1>2. CASE agent'[r].pc = "fail" /\ disk'[r] = disk[r] /\ SameThread(r) /\ Kept(r)
  BY <1>1, <1>2, QuietStep DEF Does, Step1, SameThread, Working, Labelled, Planning, Within
<1>3. CASE /\ agent'[r].pc = "complete" /\ agent'[r].status = "completed"
           /\ disk'[r].saved = disk[r].saved /\ disk'[r].full = Found(disk[r].saved)
  <2>1. agent[r].pc = "assemble" /\ r \in readers
    BY <1>1 DEF Does, Sound, Working
  <2>2. PICK m \in 0..MaxSections : Has(r, m)
    BY <2>1 DEF Sound
  <2>3. PICK saved, full, k : saved = disk[r].saved /\ full = disk'[r].full /\ k = run
    OBVIOUS
  <2>4. \A i \in 1..MaxSections : saved[i] = IF i <= m THEN [section |-> i, run |-> k] ELSE NoContent
    BY <2>2, <2>3 DEF Has
  <2>5. \A i \in 1..MaxSections : [section |-> i, run |-> k] # NoContent
    BY DEF NoContent
  <2>6. \A i \in 1..MaxSections : saved[i] # NoContent <=> i <= m
    BY <2>4, <2>5
  <2>7. full = [n \in 1..m |-> saved[n]]
    <3>1. full = Found(saved)
      BY <1>3, <2>3
    <3>2. QED
      BY <2>6, <3>1, FoundInOrder
  <2>8. Len(full) = m
    BY <2>7
  <2>9. \A i \in 1..m : full[i] = [section |-> i, run |-> k]
    BY <2>4, <2>7
  <2>10. Whole(r)'
    <3>1. \A i \in 1..m : full[i].section = i /\ full[i].run = full[1].run
      <4>1. ASSUME NEW i \in 1..m PROVE full[i].section = i /\ full[i].run = k
        <5>1. full[i] = [section |-> i, run |-> k]
          BY <2>9
        <5>2. PICK c : c = [section |-> i, run |-> k]
          OBVIOUS
        <5>3. c.section = i /\ c.run = k
          BY <5>2
        <5>4. QED
          BY <5>1, <5>2, <5>3
      <4>2. ASSUME NEW i \in 1..m PROVE 1 \in 1..m
        OBVIOUS
      <4>3. QED
        BY <4>1, <4>2
    <3>2. QED
      BY <1>3, <2>3, <2>6, <2>8, <3>1 DEF Whole
  <2>11. QED
    BY <1>1, <1>3, <2>1, <2>10 DEF Sound, Planning, Within, Unfinished
<1>4. QED
  BY <1>1, <1>2, <1>3

LEMMA EndSteps ==
  ASSUME ReportTypeOK, NEW r \in Reports, Sound(r)
  PROVE  /\ Release(r) => Sound(r)'
         /\ \A force \in BOOLEAN : Request(r, force) => Sound(r)'
         /\ Delete(r) /\ ~Working(r) => Sound(r)'
<1>1. ASSUME Release(r) PROVE Sound(r)'
  <2>1. /\ Does(r, "release", {"ended"}) /\ Kept(r) /\ disk'[r] = disk[r]
        /\ agent'[r].status = "pending"
    BY <1>1, ReleaseDoes
  <2>2. (Labelled(r)' <=> Labelled(r)) /\ (Whole(r) => Whole(r)')
    BY <2>1, WholeStays DEF Labelled
  <2>3. agent'[r].pc = "ended"
    BY <2>1 DEF Does
  <2>4. QED
    BY <2>1, <2>2, <2>3 DEF Sound, Working, Planning, Within, Unfinished
<1>2. ASSUME NEW force \in BOOLEAN, Request(r, force) PROVE Sound(r)'
  <2>1. /\ Does(r, "idle", {"begin", "ended"}) /\ SameThread(r) /\ disk'[r] = disk[r]
        /\ agent'[r].pc = "begin" => r \in readers'
    BY <1>2, RequestDoes
  <2>2. agent[r] = Idle /\ disk[r] = Empty
    BY <2>1 DEF Does, Sound
  <2>3. agent'[r].section = 1 /\ agent'[r].status = "pending" /\ disk'[r] = Empty
    BY <2>1, <2>2 DEF SameThread, Idle
  <2>4. ~Labelled(r)' /\ Has(r, 0)'
    BY <2>3, Bounds DEF Labelled, Has, Empty
  <2>5. agent'[r].pc \in {"begin", "ended"}
    BY <2>1 DEF Does
  <2>6. QED
    BY <2>1, <2>3, <2>4, <2>5 DEF Sound, Working, Planning, Within, Unfinished
<1>3. ASSUME Delete(r), ~Working(r) PROVE Sound(r)'
  <2>1. agent' = agent /\ disk'[r] = Empty /\ disk[r] # Empty
    BY <1>3, DeleteDoes
  <2>2. agent'[r].pc \in {"ended", "dead"} /\ agent'[r].status # "completed"
    BY <1>3, <2>1 DEF Sound, Working, Unfinished
  <2>3. ~Labelled(r)'
    BY <2>1 DEF Labelled, Empty
  <2>4. QED
    BY <2>2, <2>3 DEF Sound, Working, Planning, Within, Unfinished
<1>4. QED
  BY <1>1, <1>2, <1>3

LEMMA CrashStep ==
  ASSUME ReportTypeOK, NEW r \in Reports, Sound(r), Crashed(r)
  PROVE  Sound(r)'
<1>1. CASE ~Working(r)
  <2>1. agent'[r] = agent[r] /\ disk'[r] = disk[r]
    BY <1>1 DEF Crashed
  <2>2. QED
    BY <1>1, <2>1, OtherStep
<1>2. CASE Working(r)
  <2>1. agent'[r] = [Idle EXCEPT !.pc = "dead"] /\ Kept(r) /\ (Labelled(r)' => Labelled(r))
    BY <1>2 DEF Crashed, Kept, Labelled
  <2>2. agent'[r].pc = "dead" /\ agent'[r].status = "pending"
    BY <2>1 DEF Idle
  <2>3. Whole(r) => Whole(r)'
    BY <2>1, WholeStays
  <2>4. QED
    BY <2>1, <2>2, <2>3 DEF Sound, Working, Planning, Within, Unfinished
<1>3. QED
  BY <1>1, <1>2

LEMMA NextSections ==
  ASSUME DeletesBusy = FALSE, ReportTypeOK, SectionsInv, [ReportNext]_reportVars
  PROVE  SectionsInv'
<1> SUFFICES ASSUME NEW r \in Reports PROVE Sound(r)'
  BY DEF SectionsInv
<1>0. Sound(r)
  BY DEF SectionsInv
<1>1. ASSUME NEW q \in Reports, Step(q) \/ Delete(q) \/ \E force \in BOOLEAN : Request(q, force)
      PROVE  Sound(r)'
  <2>1. Step1(q)
    BY <1>1, StepDoes, DeleteDoes, RequestDoes DEF Does
  <2>2. CASE q = r
    <3>1. CASE Step(r)
      BY <1>0, <3>1, QuietActions, OutlineStep, SectionStep, AssembleStep, EndSteps DEF Step, Replies
    <3>2. CASE Delete(r)
      BY <1>0, <3>2, EndSteps DEF Delete
    <3>3. CASE \E force \in BOOLEAN : Request(r, force)
      BY <1>0, <3>3, EndSteps
    <3>4. QED
      BY <1>1, <2>2, <3>1, <3>2, <3>3
  <2>3. CASE q # r
    BY <1>0, <2>1, <2>3, OtherStep DEF Step1, Others
  <2>4. QED
    BY <2>2, <2>3
<1>2. CASE RunsAgain
  <2>1. ~Working(r) /\ agent' = agent /\ disk' = disk
    BY <1>0, <1>2 DEF RunsAgain, Sound
  <2>2. QED
    BY <1>0, <2>1, OtherStep
<1>3. CASE ServerRestarts
  BY <1>0, <1>3, RestartDoes, CrashStep
<1>4. CASE UNCHANGED reportVars
  BY <1>0, <1>4, OtherStep DEF reportVars
<1>5. QED
  BY <1>1, <1>2, <1>3, <1>4 DEF ReportNext

LEMMA InitSections == ReportInit => SectionsInv
<1> SUFFICES ASSUME ReportInit, NEW r \in Reports PROVE Sound(r)
  BY DEF SectionsInv
<1>1. agent[r] = Idle /\ disk[r] = Empty
  BY DEF ReportInit
<1>2. agent[r].pc = "idle" /\ agent[r].status = "pending" /\ ~Labelled(r)
  BY <1>1 DEF Idle, Empty, Labelled
<1>3. QED
  BY <1>1, <1>2 DEF Sound, Working, Planning, Within, Unfinished

LEMMA SectionsMeans == SectionsInv => CompletedIsWhole
<1> SUFFICES ASSUME SectionsInv, NEW r \in Reports, Labelled(r)
             PROVE  LET full == disk[r].full
                    IN  /\ \A i \in 1..MaxSections : disk[r].saved[i] # NoContent <=> i <= Len(full)
                        /\ \A i \in 1..Len(full) : full[i].section = i /\ full[i].run = full[1].run
  BY DEF CompletedIsWhole, Labelled
<1>1. Whole(r)
  BY DEF SectionsInv, Sound
<1>2. QED
  BY <1>1 DEF Whole

(* While no report is deleted under its writer, the sections of each are   *)
(* where its thread left them, and from one run.                           *)
THEOREM SectionsInvHolds ==
  ASSUME DeletesBusy = FALSE
  PROVE  ReportSpec => []SectionsInv
<1>1. QED
  BY InitTypes, NextTypes, InitSections, NextSections, PTL DEF ReportSpec

(* What calls itself completed is every section of the outline in order,   *)
(* all of them from one run (assemble_full_report), wherever the writing   *)
(* fails or the server stops.                                              *)
THEOREM CompletedIsWholeHolds ==
  ASSUME DeletesBusy = FALSE
  PROVE  ReportSpec => []CompletedIsWhole
<1>1. QED
  BY SectionsInvHolds, SectionsMeans, PTL

-----------------------------------------------------------------------------
(* A task that says completed *)

(* The task is told after the report is saved, and nothing writes the      *)
(* folder after that but a delete.                                         *)
Told(r) ==
  /\ agent[r].pc = "idle" => task[r] = "none"
  /\ task[r] = "completed" => agent[r].pc \in {"release", "ended"}
  /\ task[r] = "completed" \/ (agent[r].pc = "task" /\ agent[r].status = "completed") =>
       disk[r] = Empty \/ disk[r].meta = "completed"

TasksInv == \A r \in Reports : Told(r)

(* A step that neither tells the task nor is the last save. *)
LEMMA UntoldStep ==
  ASSUME NEW r \in Reports, Told(r), agent[r].pc \notin {"release", "ended"},
         agent'[r].pc \notin {"idle", "task"}, task'[r] # "completed"
  PROVE  Told(r)'
  BY DEF Told

LEMMA StepTold ==
  ASSUME ReportTypeOK, NEW r \in Reports, Told(r), Step(r)
  PROVE  Told(r)'
<1>0. agent[r].pc \notin {"release", "ended"} => task[r] # "completed"
  BY DEF Told
<1>1. CASE \/ Begin(r) \/ SavePending(r) \/ PlanOutline(r) \/ SaveOutline(r) \/ StartSection(r)
           \/ Assemble(r) \/ SaveCompleted(r) \/ TellCompleted(r) \/ SaveFailed(r)
  BY <1>0, <1>1, UntoldStep, BeginDoes, SavePendingDoes, PlanOutlineDoes, SaveOutlineDoes,
     StartSectionDoes, AssembleDoes, SaveCompletedDoes, TellCompletedDoes, SaveFailedDoes DEF Does
<1>2. CASE Replies(r) \/ ForcesFinal(r)
  <2>1. /\ task' = task /\ agent[r].pc \in {"ask", "forced"}
        /\ agent'[r].pc \in {"ask", "forced", "save", "fail"}
    BY <1>2, RepliesDo, ForcesFinalDoes DEF Does, Thinks
  <2>2. QED
    BY <1>0, <2>1, UntoldStep
<1>3. CASE SaveSection(r)
  <2>1. agent[r].pc = "save" /\ task'[r] = task[r]
    BY <1>3, SaveSectionDoes
  <2>2. agent'[r].pc \in {"fail", "progress", "assemble"}
    <3>1. PICK t \in Agent : t = agent[r]
      BY SameTypes
    <3>2. NextSection(t).pc \in {"progress", "assemble"}
      BY NextSectionFields
    <3>3. QED
      BY <1>3, <3>1, <3>2, SaveSectionDoes
  <2>3. QED
    BY <1>0, <2>1, <2>2, UntoldStep
<1>4. CASE SaveReturned(r)
  BY <1>0, <1>4, SaveReturnedDoes DEF Does, SameThread, Told
<1>5. CASE SettleTask(r)
  BY <1>0, <1>5, SettleTaskDoes DEF Does, SameThread, Told
<1>6. CASE Release(r)
  BY <1>6, ReleaseDoes DEF Does, Told
<1>7. QED
  BY <1>1, <1>2, <1>3, <1>4, <1>5, <1>6 DEF Step, Replies

LEMMA NextTold ==
  ASSUME ReportTypeOK, TasksInv, [ReportNext]_reportVars
  PROVE  TasksInv'
<1> SUFFICES ASSUME NEW r \in Reports PROVE Told(r)'
  BY DEF TasksInv
<1>0. Told(r)
  BY DEF TasksInv
<1>1. ASSUME agent'[r] = agent[r], disk'[r] = disk[r], task'[r] = task[r] PROVE Told(r)'
  BY <1>0, <1>1 DEF Told
<1>2. ASSUME NEW q \in Reports, Step(q) \/ Delete(q) \/ \E force \in BOOLEAN : Request(q, force)
      PROVE  Told(r)'
  <2>1. Step1(q)
    BY <1>2, StepDoes, DeleteDoes, RequestDoes DEF Does
  <2>2. CASE q # r
    BY <1>1, <2>1, <2>2 DEF Step1, Others
  <2>3. CASE q = r
    <3>1. CASE Step(r)
      BY <1>0, <3>1, StepTold
    <3>2. CASE Delete(r)
      BY <1>0, <3>2, DeleteDoes DEF Told
    <3>3. CASE \E force \in BOOLEAN : Request(r, force)
      BY <1>0, <3>3, RequestDoes DEF Does, Told
    <3>4. QED
      BY <1>2, <2>3, <3>1, <3>2, <3>3
  <2>4. QED
    BY <2>2, <2>3
<1>3. CASE RunsAgain
  BY <1>1, <1>3 DEF RunsAgain
<1>4. CASE ServerRestarts
  <2>1. Crashed(r)
    BY <1>4, RestartDoes
  <2>2. agent'[r].pc # "task" /\ task'[r] = "none"
    <3>1. [Idle EXCEPT !.pc = "dead"].pc = "dead"
      BY DEF Idle
    <3>2. QED
      BY <2>1, <3>1 DEF Crashed, Working
  <2>3. QED
    BY <2>2 DEF Told
<1>5. CASE UNCHANGED reportVars
  BY <1>1, <1>5 DEF reportVars
<1>6. QED
  BY <1>2, <1>3, <1>4, <1>5 DEF ReportNext

LEMMA InitTold == ReportInit => TasksInv
  BY DEF ReportInit, TasksInv, Told, Idle, Empty

(* A task that says completed has a report that says so too, or one that   *)
(* was deleted since (run_generate saves before it completes the task).    *)
THEOREM TaskHasReportHolds == ReportSpec => []TaskHasReport
<1>1. TasksInv => TaskHasReport
  BY DEF TasksInv, Told, TaskHasReport
<1>2. QED
  BY <1>1, InitTypes, NextTypes, InitTold, NextTold, PTL DEF ReportSpec

-----------------------------------------------------------------------------
(* Answers are grounded *)

Unanswered == Planning \cup {"idle", "progress", "ask", "forced"}

(* Nothing is answered before the loop has answered it. *)
Grounded(r) ==
  /\ agent[r].how = "answered" => agent[r].tools \in MinTools..MaxTools
  /\ agent[r].pc \in Unanswered => agent[r].how = "none"

GroundedInv == \A r \in Reports : Grounded(r)

LEMMA StepGrounded ==
  ASSUME ReportTypeOK, NEW r \in Reports, Grounded(r), Step(r), ReportTypeOK'
  PROVE  Grounded(r)'
<1>0. agent'[r].tools \in 0..MaxTools
  BY DEF ReportTypeOK, Agent
<1>1. CASE \/ Begin(r) \/ SavePending(r) \/ PlanOutline(r) \/ SaveOutline(r) \/ StartSection(r)
           \/ Assemble(r) \/ SaveCompleted(r) \/ TellCompleted(r) \/ SaveFailed(r)
           \/ SaveReturned(r) \/ SettleTask(r) \/ Release(r)
  BY <1>1, BeginDoes, SavePendingDoes, PlanOutlineDoes, SaveOutlineDoes, StartSectionDoes,
     AssembleDoes, SaveCompletedDoes, TellCompletedDoes, SaveFailedDoes, SaveReturnedDoes,
     SettleTaskDoes, ReleaseDoes DEF Does, SameThread, Grounded, Unanswered, Planning
<1>2. CASE Replies(r)
  BY <1>0, <1>2, RepliesDo, Bounds DEF Grounded, Unanswered, Planning
<1>3. CASE ForcesFinal(r)
  BY <1>3, ForcesFinalDoes DEF Does, Grounded, Unanswered, Planning
<1>4. CASE SaveSection(r)
  <2>1. CASE agent'[r].pc = "fail" /\ SameThread(r)
    BY <2>1 DEF SameThread, Grounded, Unanswered, Planning
  <2>2. CASE agent'[r] = NextSection(agent[r])
    <3>1. PICK t \in Agent : t = agent[r]
      BY SameTypes
    <3>2. NextSection(t).how = "none"
      BY NextSectionFields
    <3>3. QED
      BY <2>2, <3>1, <3>2 DEF Grounded
  <2>3. QED
    BY <1>4, <2>1, <2>2, SaveSectionDoes
<1>5. QED
  BY <1>1, <1>2, <1>3, <1>4 DEF Step, Replies

LEMMA NextGrounded ==
  ASSUME ReportTypeOK, GroundedInv, [ReportNext]_reportVars
  PROVE  GroundedInv'
<1> SUFFICES ASSUME NEW r \in Reports PROVE Grounded(r)'
  BY DEF GroundedInv
<1>0. Grounded(r) /\ ReportTypeOK'
  BY NextTypes DEF GroundedInv
<1>1. ASSUME agent'[r] = agent[r] PROVE Grounded(r)'
  BY <1>0, <1>1 DEF Grounded
<1>2. ASSUME NEW q \in Reports, Step(q) \/ Delete(q) \/ \E force \in BOOLEAN : Request(q, force)
      PROVE  Grounded(r)'
  <2>1. Step1(q)
    BY <1>2, StepDoes, DeleteDoes, RequestDoes DEF Does
  <2>2. CASE q # r
    BY <1>1, <2>1, <2>2 DEF Step1, Others
  <2>3. CASE q = r
    <3>1. CASE Step(r)
      BY <1>0, <3>1, StepGrounded
    <3>2. CASE Delete(r)
      BY <1>1, <3>2, DeleteDoes
    <3>3. CASE \E force \in BOOLEAN : Request(r, force)
      BY <1>0, <3>3, RequestDoes DEF Does, SameThread, Grounded, Unanswered, Planning
    <3>4. QED
      BY <1>2, <2>3, <3>1, <3>2, <3>3
  <2>4. QED
    BY <2>2, <2>3
<1>3. CASE RunsAgain \/ UNCHANGED reportVars
  BY <1>1, <1>3 DEF RunsAgain, reportVars
<1>4. CASE ServerRestarts
  <2>1. Crashed(r)
    BY <1>4, RestartDoes
  <2>2. [Idle EXCEPT !.pc = "dead"].how = "none"
    BY DEF Idle
  <2>3. QED
    BY <1>0, <2>1, <2>2 DEF Crashed, Grounded
<1>5. QED
  BY <1>2, <1>3, <1>4 DEF ReportNext

LEMMA InitGrounded == ReportInit => GroundedInv
  BY DEF ReportInit, GroundedInv, Grounded, Idle

(* Through conflicts, empty replies and cut-off replies, an answer of the  *)
(* loop was accepted only after enough tools, and never over the budget    *)
(* (_generate_section_react).                                              *)
THEOREM AnswersAreGroundedHolds == ReportSpec => []AnswersAreGrounded
<1>1. GroundedInv => AnswersAreGrounded
  BY DEF GroundedInv, Grounded, AnswersAreGrounded
<1>2. QED
  BY <1>1, InitTypes, NextTypes, InitGrounded, NextGrounded, PTL DEF ReportSpec
=============================================================================
