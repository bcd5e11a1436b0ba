--------------------- MODULE EnvironmentPreparationProofs ---------------------
(***************************************************************************)
(* What the check calls prepared is one whole environment, and the range   *)
(* of agents per hour can be drawn from.                                   *)
(***************************************************************************)
EXTENDS EnvironmentPreparation, FiniteSetTheorems, TLAPS

USE PreparationAssumption

Files == [reddit: Profiles, twitter: Profiles, config: Config]
TaskStatus == {"none", "pending", "processing", "completed", "failed"}

LEMMA Bounds ==
  /\ MaxEntities \in Nat /\ MaxEntities >= 1 /\ BatchSize \in Nat /\ BatchSize >= 1
  /\ Parallel \in Nat /\ MaxTries \in Nat /\ MaxTries >= 1
  /\ MaxPosts \in Nat /\ MaxCrashes \in Nat /\ Ids \in SUBSET Int /\ IsFiniteSet(Ids)
<1>1. IsFiniteSet(Ids)
  BY FS_Interval DEF Ids
<1>2. QED
  BY <1>1 DEF Ids

LEMMA CountIs ==
  ASSUME NEW n \in 0..MaxEntities
  PROVE  Count(n) \in SUBSET Ids /\ Cardinality(Count(n)) = n
<1>1. n - 1 \in Int /\ 0 \in Int /\ n \in Nat
  OBVIOUS
<1>2. Cardinality(0..(n - 1)) = IF 0 > n - 1 THEN 0 ELSE (n - 1) - 0 + 1
  BY <1>1, FS_Interval
<1>3. QED
  BY <1>1, <1>2, Bounds DEF Count, Ids

-----------------------------------------------------------------------------
(* The range of agents per hour *)

Usable(least, most, n) == 1 <= least /\ least <= most /\ least <= n /\ most <= n + 1

LEMMA LargerIs ==
  ASSUME NEW x \in Int, NEW y \in Int
  PROVE  /\ Larger(x, y) \in {x, y} /\ Larger(x, y) >= x /\ Larger(x, y) >= y
         /\ Smaller(x, y) \in {x, y} /\ Smaller(x, y) <= x /\ Smaller(x, y) <= y
  BY DEF Larger, Smaller

LEMMA Halves ==
  ASSUME NEW n \in Nat
  PROVE  /\ n \div 2 \in Nat /\ n \div 2 <= n /\ n \div 10 \in Nat /\ n \div 10 <= n
         /\ n \div 15 \in Nat /\ n \div 15 <= n /\ n \div 5 \in Nat /\ n \div 5 <= n
  OBVIOUS

(* Whatever positive numbers are answered, what is made of them is usable. *)
LEMMA ParsedIsUsable ==
  ASSUME NEW n \in 1..MaxEntities, NEW least \in Nat \ {0}, NEW most \in Nat \ {0},
         NEW answer, answer = [least |-> least, most |-> most]
  PROVE  /\ ParseTimeConfig(answer, n).least \in Hours /\ ParseTimeConfig(answer, n).most \in Hours
         /\ Usable(ParseTimeConfig(answer, n).least, ParseTimeConfig(answer, n).most, n)
<1>0. n \in Nat /\ n >= 1 /\ answer.least = least /\ answer.most = most
  OBVIOUS
<1>1. PICK l : l = IF least > n THEN Larger(1, n \div 10) ELSE least
  OBVIOUS
<1>2. l \in Nat /\ 1 <= l /\ l <= n
  <2>1. Larger(1, n \div 10) \in Nat /\ 1 <= Larger(1, n \div 10) /\ Larger(1, n \div 10) <= n
    BY <1>0, Halves, LargerIs
  <2>2. QED
    BY <1>0, <1>1, <2>1
<1>3. PICK m : m = IF most > n THEN Larger(l + 1, n \div 2) ELSE most
  OBVIOUS
<1>4. m \in Nat /\ 1 <= m /\ m <= n + 1
  <2>1. Larger(l + 1, n \div 2) \in Nat /\ 1 <= Larger(l + 1, n \div 2) /\ Larger(l + 1, n \div 2) <= n + 1
    BY <1>0, <1>2, Halves, LargerIs
  <2>2. QED
    BY <1>0, <1>3, <2>1
<1>5. PICK k : k = IF l >= m THEN Larger(1, m \div 2) ELSE l
  OBVIOUS
<1>6. k \in Nat /\ 1 <= k /\ k <= m /\ k <= n
  <2>1. Larger(1, m \div 2) \in Nat /\ 1 <= Larger(1, m \div 2) /\ Larger(1, m \div 2) <= m
    BY <1>4, Halves, LargerIs
  <2>2. QED
    BY <1>2, <1>4, <1>5, <2>1
<1>7. ParseTimeConfig(answer, n) = [least |-> k, most |-> m]
  BY <1>0, <1>1, <1>3, <1>5 DEF ParseTimeConfig
<1>8. ParseTimeConfig(answer, n).least = k /\ ParseTimeConfig(answer, n).most = m
  BY <1>7
<1>9. k \in Hours /\ m \in Hours
  BY <1>4, <1>6, Bounds DEF Hours
<1>10. QED
  BY <1>4, <1>6, <1>8, <1>9 DEF Usable

-----------------------------------------------------------------------------
(* The agents of the batches *)

LEMMA Multiples ==
  ASSUME NEW b \in Nat
  PROVE  /\ b * BatchSize \in Nat /\ b <= b * BatchSize
         /\ (b + 1) * BatchSize = b * BatchSize + BatchSize
         /\ 0 * BatchSize = 0
  BY Bounds

(* A batch adds the next agents, whichever the LLM answered for. *)
LEMMA BatchAdds ==
  ASSUME NEW b \in Nat, NEW n \in 0..MaxEntities, NEW answered,
         NEW first, first = b * BatchSize, first < n, NEW next, next = (b + 1) * BatchSize
  PROVE  /\ Count(Smaller(first, n)) \cup Batch(first, n, answered) = Count(Smaller(next, n))
         /\ b + 1 \in 0..MaxEntities
<1>1. /\ first \in Nat /\ b <= first /\ n \in Nat /\ n <= MaxEntities
      /\ next = first + BatchSize
  BY Multiples
<1>2. Batch(first, n, answered) = first..(Smaller(next, n) - 1)
  BY <1>1 DEF Batch, Due
<1>3. PICK last : last = Smaller(next, n)
  OBVIOUS
<1>4. last \in Nat /\ last >= first
  BY <1>1, <1>3, Bounds DEF Smaller
<1>5. Smaller(first, n) = first
  BY <1>1 DEF Smaller
<1>6. 0..(first - 1) \cup first..(last - 1) = 0..(last - 1)
  BY <1>1, <1>4
<1>7. Count(first) \cup Batch(first, n, answered) = Count(last)
  BY <1>2, <1>3, <1>6 DEF Count
<1>8. b + 1 \in 0..MaxEntities
  BY <1>1, Bounds
<1>9. QED
  BY <1>3, <1>5, <1>7, <1>8

-----------------------------------------------------------------------------
(* The posters *)

(* In a finite set of integers every rank below the size is taken.         *)
LEMMA RanksAreTaken ==
  ASSUME NEW S \in SUBSET Int, IsFiniteSet(S), NEW n \in 0..(Cardinality(S) - 1)
  PROVE  \E x \in S : Cardinality({y \in S : y < x}) = n
<1> DEFINE Below(x) == {y \in S : y < x}
           rank == [x \in S |-> Cardinality(Below(x))]
           T == 0..(Cardinality(S) - 1)
<1>1. Cardinality(S) \in Nat
  BY FS_CardinalityType
<1>2. ASSUME NEW U \in SUBSET S, NEW V \in SUBSET U, V # U
      PROVE  Cardinality(V) \in Nat /\ Cardinality(U) \in Nat /\ Cardinality(V) < Cardinality(U)
  <2>1. IsFiniteSet(U) /\ IsFiniteSet(V)
    BY <1>2, FS_Subset
  <2>2. Cardinality(V) <= Cardinality(U) /\ Cardinality(U) # Cardinality(V)
    BY <1>2, <2>1, FS_Subset
  <2>3. Cardinality(V) \in Nat /\ Cardinality(U) \in Nat
    BY <2>1, FS_CardinalityType
  <2>4. QED
    BY <2>2, <2>3
<1>3. rank \in [S -> T]
  <2> SUFFICES ASSUME NEW x \in S PROVE Cardinality(Below(x)) \in T
    OBVIOUS
  <2>1. Below(x) \in SUBSET S /\ Below(x) # S
    OBVIOUS
  <2> HIDE DEF Below
  <2>2. S \in SUBSET S
    OBVIOUS
  <2>3. Cardinality(Below(x)) \in Nat /\ Cardinality(Below(x)) < Cardinality(S)
    BY <1>2, <2>1, <2>2
  <2>4. QED
    BY <1>1, <2>3
<1>4. ASSUME NEW x \in S, NEW y \in S, x < y PROVE rank[x] # rank[y]
  <2>0. \A z \in S : z \in Int
    OBVIOUS
  <2>1. ASSUME NEW z \in Below(x) PROVE z \in Below(y)
    <3>1. z \in S /\ z < x /\ z \in Int /\ x \in Int /\ y \in Int
      BY <2>0
    <3>2. z < y
      BY <1>4, <3>1
    <3>3. QED
      BY <3>1, <3>2
  <2>2. x \in Below(y) /\ x \notin Below(x) /\ Below(y) \subseteq S
    BY <1>4, <2>0
  <2> HIDE DEF Below
  <2>3. /\ Cardinality(Below(x)) < Cardinality(Below(y))
        /\ Cardinality(Below(x)) \in Nat /\ Cardinality(Below(y)) \in Nat
    <3>1. Below(x) \in SUBSET Below(y) /\ Below(x) # Below(y) /\ Below(y) \in SUBSET S
      BY <2>1, <2>2
    <3>2. QED
      BY <1>2, <3>1
  <2>4. QED
    BY <2>3
<1>5. \A x, y \in S : x # y => x < y \/ y < x
  OBVIOUS
<1>6. \A x, y \in S : rank[x] = rank[y] => x = y
  <2> HIDE DEF rank
  <2>1. QED
    BY <1>4, <1>5
<1>7. rank \in Injection(S, T)
  <2> HIDE DEF rank, T
  <2>1. QED
    BY <1>3, <1>6 DEF Injection, IsInjective
<1>8. IsFiniteSet(T) /\ Cardinality(T) = Cardinality(S)
  <2>1. Cardinality(S) - 1 \in Int /\ 0 \in Int
    BY <1>1
  <2>2. IsFiniteSet(T) /\ Cardinality(T) = IF 0 > Cardinality(S) - 1 THEN 0 ELSE Cardinality(S) - 1 - 0 + 1
    BY <2>1, FS_Interval
  <2>3. QED
    BY <1>1, <2>2
<1>9. rank \in Surjection(S, T)
  <2> HIDE DEF rank, T
  <2>1. QED
    BY <1>7, <1>8, FS_Injection
<1>10. PICK x \in S : rank[x] = n
  BY <1>9 DEF Surjection
<1>11. QED
  BY <1>10

(* Every poster is an agent. *)
LEMMA PostersAreAgents ==
  ASSUME NEW agents \in SUBSET Ids, NEW n \in Nat, NEW types \in [1..n -> {"held", "other"}],
         NEW held \in SUBSET agents, NEW star \in agents
  PROVE  Posters(types, [held |-> held, other |-> {}], star) \subseteq agents
<1>1. PICK holders : holders = [held |-> held, other |-> {}]
  OBVIOUS
<1> DEFINE Earlier(i) == {k \in 1..(i - 1) : types[k] = types[i]}
           Turn(i) == Cardinality(Earlier(i)) % Cardinality(holders[types[i]])
           Poster(i) == IF holders[types[i]] = {} THEN star
                        ELSE CHOOSE x \in holders[types[i]] :
                               Cardinality({y \in holders[types[i]] : y < x}) = Turn(i)
<1>2. ASSUME NEW i \in 1..n PROVE Poster(i) \in agents
  <2>1. PICK h : h = holders[types[i]]
    OBVIOUS
  <2>2. h \in SUBSET agents /\ h \in SUBSET Int /\ IsFiniteSet(h)
    <3>1. h \in {held, {}}
      BY <1>1, <2>1
    <3>2. h \in SUBSET Ids /\ h \in SUBSET agents
      BY <3>1
    <3>3. IsFiniteSet(h)
      BY <3>2, Bounds, FS_Subset
    <3>4. QED
      BY <3>2, <3>3, Bounds
  <2>3. CASE h = {}
    BY <2>1, <2>3
  <2>4. CASE h # {}
    <3>1. Cardinality(h) \in Nat /\ Cardinality(h) # 0
      BY <2>2, <2>4, FS_CardinalityType, FS_EmptySet
    <3>2. Cardinality(Earlier(i)) \in Nat
      <4>1. Earlier(i) \in SUBSET (1..(i - 1))
        OBVIOUS
      <4>2. IsFiniteSet(1..(i - 1))
        BY FS_Interval
      <4> HIDE DEF Earlier
      <4>3. QED
        BY <4>1, <4>2, FS_Subset, FS_CardinalityType
    <3>3. PICK e \in Nat, c \in Nat \ {0} : e = Cardinality(Earlier(i)) /\ c = Cardinality(h)
      BY <3>1, <3>2
    <3>4. e % c \in 0..(c - 1)
      BY <3>3
    <3>5. PICK turn : turn = e % c
      OBVIOUS
    <3>6. \E x \in h : Cardinality({y \in h : y < x}) = turn
      BY <2>2, <3>3, <3>4, <3>5, RanksAreTaken
    <3>7. Poster(i) = CHOOSE x \in h : Cardinality({y \in h : y < x}) = turn
      <4> HIDE DEF Earlier
      <4>1. QED
        BY <2>1, <2>4, <3>3, <3>5
    <3>8. Poster(i) \in h
      <4> HIDE DEF Poster
      <4>1. QED
        BY <3>6, <3>7
    <3>9. QED
      BY <2>2, <3>8
  <2>5. QED
    BY <2>3, <2>4
<1>3. DOMAIN types = 1..n
  OBVIOUS
<1>4. Posters(types, holders, star) = {Poster(i) : i \in 1..n}
  BY <1>3, Zenon DEF Posters
<1> HIDE DEF Poster
<1>5. Posters(types, holders, star) \subseteq agents
  BY <1>2, <1>4
<1>6. QED
  BY <1>1, <1>5, Zenon

-----------------------------------------------------------------------------
(* Types *)

LEMMA IdleTypes == Idle \in Attempt /\ NoWorkers \in [Ids -> Worker]
<1>1. Idle \in Attempt
  BY Bounds DEF Idle, Attempt, AttemptPC, Hours
<1>2. NoWorkers \in [Ids -> Worker]
  BY Bounds DEF NoWorkers, Worker
<1>3. QED
  BY <1>1, <1>2

LEMMA InitTypes == PrepInit => PrepTypeOK
<1> SUFFICES ASSUME PrepInit PROVE PrepTypeOK
  OBVIOUS
<1>1. NoProfiles \in Profiles /\ NoConfig \in Config
  BY Bounds DEF NoProfiles, NoConfig, Profiles, Config, Hours
<1>2. PICK p, c : p = NoProfiles /\ c = NoConfig
  OBVIOUS
<1>3. [reddit |-> p, twitter |-> p, config |-> c]
        \in [reddit: Profiles, twitter: Profiles, config: Config]
  BY <1>1, <1>2
<1>4. files \in [reddit: Profiles, twitter: Profiles, config: Config]
  BY <1>2, <1>3 DEF PrepInit
<1>5. state \in State
  BY DEF PrepInit, State
<1>6. attempt \in [Attempts -> Attempt] /\ worker \in [Ids -> Worker]
  BY IdleTypes DEF PrepInit
<1>7. /\ task \in [Attempts -> {"none", "pending", "processing", "completed", "failed"}]
      /\ crashes \in 0..MaxCrashes
  BY Bounds DEF PrepInit
<1>8. flips \in BOOLEAN
  BY DEF PrepInit
<1>9. QED
  BY <1>4, <1>5, <1>6, <1>7, <1>8 DEF PrepTypeOK

(* All of an attempt but its place and what it knows of state.json. *)
Like(u, t) ==
  /\ u.entities = t.entities /\ u.llm = t.llm /\ u.posts = t.posts /\ u.batches = t.batches
  /\ u.agents = t.agents /\ u.least = t.least /\ u.most = t.most

LEMMA PcFields ==
  ASSUME NEW t \in Attempt, NEW pc \in AttemptPC, NEW u, u = [t EXCEPT !.pc = pc]
  PROVE  u \in Attempt /\ u.pc = pc /\ u.status = t.status /\ u.config = t.config /\ Like(u, t)
<1>1. u \in Attempt
  BY DEF Attempt
<1>2. QED
  BY <1>1 DEF Attempt, Like

LEMMA StatusFields ==
  ASSUME NEW t \in Attempt, NEW status \in {"created", "preparing", "ready", "failed"}, NEW u,
         u = [t EXCEPT !.status = status]
  PROVE  u \in Attempt /\ u.pc = t.pc /\ u.status = status /\ u.config = t.config /\ Like(u, t)
<1>1. u \in Attempt
  BY DEF Attempt
<1>2. QED
  BY <1>1 DEF Attempt, Like

LEMMA Now ==
  ASSUME PrepTypeOK, NEW a \in Attempts
  PROVE  /\ attempt[a] \in Attempt /\ state \in State /\ files \in Files /\ worker \in [Ids -> Worker]
         /\ task[a] \in TaskStatus /\ task = [task EXCEPT ![a] = task[a]]
         /\ attempt = [attempt EXCEPT ![a] = attempt[a]]
  BY DEF PrepTypeOK, Files, TaskStatus

(* A step of the thread of a. *)
Step1(a) ==
  /\ PrepTypeOK' /\ \A b \in Attempts \ {a} : attempt'[b] = attempt[b]

LEMMA OwnStep ==
  ASSUME PrepTypeOK, NEW a \in Attempts, NEW t \in Attempt, attempt' = [attempt EXCEPT ![a] = t],
         worker' \in [Ids -> Worker], state' \in State, files' \in Files,
         NEW s \in TaskStatus, task' = [task EXCEPT ![a] = s],
         flips' = flips, crashes' = crashes
  PROVE  Step1(a) /\ attempt'[a] = t
  BY DEF PrepTypeOK, Files, TaskStatus, Step1

(* state.json is saved, or not. *)
LEMMA SavesStateDoes ==
  ASSUME PrepTypeOK, NEW a \in Attempts, NEW record \in Attempt,
         NEW next \in AttemptPC, NEW failing \in AttemptPC,
         SavesState(a, record, next, failing),
         NEW s \in TaskStatus, task' = [task EXCEPT ![a] = s], UNCHANGED <<worker, files, flips, crashes>>
  PROVE  /\ Step1(a) /\ attempt'[a].config = record.config /\ Like(attempt'[a], record)
         /\ attempt'[a].status = record.status
         /\ \/ attempt'[a].pc = next /\ state'.config = record.config
            \/ attempt'[a].pc = failing /\ state'.config = state.config
<1>1. ASSUME NEW pc \in AttemptPC, attempt' = [attempt EXCEPT ![a] = [record EXCEPT !.pc = pc]],
             state' \in State
      PROVE  /\ Step1(a) /\ attempt'[a].config = record.config /\ Like(attempt'[a], record)
             /\ attempt'[a].status = record.status /\ attempt'[a].pc = pc
  <2>1. PICK u : u = [record EXCEPT !.pc = pc]
    OBVIOUS
  <2>2. u \in Attempt /\ u.pc = pc /\ u.status = record.status /\ u.config = record.config
        /\ Like(u, record)
    BY <2>1, PcFields
  <2>3. attempt' = [attempt EXCEPT ![a] = u]
    BY <1>1, <2>1
  <2>4. worker' \in [Ids -> Worker] /\ files' \in Files
    BY Now
  <2>5. Step1(a) /\ attempt'[a] = u
    BY <1>1, <2>2, <2>3, <2>4, OwnStep
  <2>6. QED
    BY <2>2, <2>5
<1>2. CASE /\ state' = [is |-> "whole", status |-> record.status, config |-> record.config]
           /\ attempt' = [attempt EXCEPT ![a] = [record EXCEPT !.pc = next]]
  <2>1. record.status \in {"created", "preparing", "ready", "failed"} /\ record.config \in BOOLEAN
    BY DEF Attempt
  <2>2. state' \in State /\ state'.config = record.config
    BY <1>2, <2>1 DEF State
  <2>3. QED
    BY <1>1, <1>2, <2>2
<1>3. CASE /\ state' \in {state, [state EXCEPT !.is = "torn"]}
           /\ attempt' = [attempt EXCEPT ![a] = [record EXCEPT !.pc = failing]]
  <2>1. PICK v \in State : v = state
    BY Now
  <2>2. PICK w : w = [v EXCEPT !.is = "torn"]
    OBVIOUS
  <2>3. w \in State /\ w.config = v.config
    BY <2>2 DEF State
  <2>4. state' \in State /\ state'.config = state.config
    BY <1>3, <2>1, <2>2, <2>3
  <2>5. QED
    BY <1>1, <1>3, <2>4
<1>4. QED
  BY <1>2, <1>3 DEF SavesState

(* The thread goes on, and writes at most workers and files. *)
LEMMA GoesDoes ==
  ASSUME PrepTypeOK, NEW a \in Attempts, NEW pc \in AttemptPC, Goes(a, pc),
         worker' \in [Ids -> Worker], files' \in Files, state' = state,
         NEW s \in TaskStatus, task' = [task EXCEPT ![a] = s], UNCHANGED <<flips, crashes>>
  PROVE  /\ Step1(a) /\ attempt'[a].pc = pc /\ attempt'[a].config = attempt[a].config
         /\ Like(attempt'[a], attempt[a]) /\ attempt'[a].status = attempt[a].status
<1>1. PICK t \in Attempt : t = attempt[a]
  BY Now
<1>2. PICK u : u = [t EXCEPT !.pc = pc]
  OBVIOUS
<1>3. u \in Attempt /\ u.pc = pc /\ u.status = t.status /\ u.config = t.config /\ Like(u, t)
  BY <1>2, PcFields
<1>4. attempt' = [attempt EXCEPT ![a] = u]
  BY <1>1, <1>2 DEF Goes
<1>5. state' \in State
  BY Now
<1>6. Step1(a) /\ attempt'[a] = u
  BY <1>3, <1>4, <1>5, OwnStep
<1>7. QED
  BY <1>1, <1>3, <1>6

LEMMA FilesFields ==
  ASSUME NEW f \in Files
  PROVE  /\ \A p \in Profiles : /\ [f EXCEPT !.reddit = p] \in Files
                                /\ [f EXCEPT !.reddit = p].reddit = p
                                /\ [f EXCEPT !.reddit = p].twitter = f.twitter
                                /\ [f EXCEPT !.reddit = p].config = f.config
         /\ \A p \in Profiles : /\ [f EXCEPT !.twitter = p] \in Files
                                /\ [f EXCEPT !.twitter = p].twitter = p
                                /\ [f EXCEPT !.twitter = p].reddit = f.reddit
                                /\ [f EXCEPT !.twitter = p].config = f.config
         /\ \A c \in Config : /\ [f EXCEPT !.config = c] \in Files
                              /\ [f EXCEPT !.config = c].config = c
                              /\ [f EXCEPT !.config = c].reddit = f.reddit
                              /\ [f EXCEPT !.config = c].twitter = f.twitter
<1>1. ASSUME NEW p \in Profiles, NEW g, g = [f EXCEPT !.reddit = p]
      PROVE  g \in Files /\ g.reddit = p /\ g.twitter = f.twitter /\ g.config = f.config
  BY <1>1 DEF Files
<1>2. ASSUME NEW p \in Profiles, NEW g, g = [f EXCEPT !.twitter = p]
      PROVE  g \in Files /\ g.twitter = p /\ g.reddit = f.reddit /\ g.config = f.config
  BY <1>2 DEF Files
<1>3. ASSUME NEW c \in Config, NEW g, g = [f EXCEPT !.config = c]
      PROVE  g \in Files /\ g.config = c /\ g.reddit = f.reddit /\ g.twitter = f.twitter
  BY <1>3 DEF Files
<1>4. QED
  BY <1>1, <1>2, <1>3

-----------------------------------------------------------------------------
(* The effect of each step of the thread *)

(* The attempt goes from one place to another. *)
Does(a, from, to) == Step1(a) /\ attempt[a].pc = from /\ attempt'[a].pc \in to
SameConfig(a) == attempt'[a].config = attempt[a].config
SameRest(a) == Like(attempt'[a], attempt[a])
SameFiles == files' = files /\ flips' = flips

LEMMA SavesPreparingDoes ==
  ASSUME PrepTypeOK, NEW a \in Attempts, SavesPreparing(a)
  PROVE  /\ Does(a, "asked", {"spawned", "ended"}) /\ SameConfig(a) /\ SameRest(a) /\ SameFiles
         /\ state'.config \in {state.config, attempt[a].config}
<1>1. PICK t \in Attempt : t = attempt[a]
  BY Now
<1>2. PICK u : u = [t EXCEPT !.status = "preparing"]
  OBVIOUS
<1>3. u \in Attempt /\ u.config = t.config /\ Like(u, t)
  BY <1>2, StatusFields
<1>4. /\ SavesState(a, u, "spawned", "ended") /\ attempt[a].pc = "asked"
      /\ task' = [task EXCEPT ![a] = "pending"] /\ UNCHANGED <<worker, files, flips, crashes>>
  BY <1>1, <1>2 DEF SavesPreparing
<1>5. "pending" \in TaskStatus /\ {"spawned", "ended"} \subseteq AttemptPC
  BY DEF TaskStatus, AttemptPC
<1>6. /\ Step1(a) /\ attempt'[a].config = u.config /\ Like(attempt'[a], u)
      /\ \/ attempt'[a].pc = "spawned" /\ state'.config = u.config
         \/ attempt'[a].pc = "ended" /\ state'.config = state.config
  BY <1>3, <1>4, <1>5, SavesStateDoes
<1>7. QED
  BY <1>1, <1>3, <1>4, <1>6 DEF Does, SameConfig, SameRest, SameFiles, Like

LEMMA BeginsDoes ==
  ASSUME PrepTypeOK, NEW a \in Attempts, Begins(a)
  PROVE  /\ Does(a, "spawned", {"reset"}) /\ SameConfig(a) /\ SameRest(a) /\ SameFiles
         /\ state'.config = state.config
<1>1. "processing" \in TaskStatus /\ "reset" \in AttemptPC /\ Goes(a, "reset")
  BY DEF TaskStatus, AttemptPC, Begins
<1>2. /\ worker' \in [Ids -> Worker] /\ files' \in Files /\ state' = state
      /\ task' = [task EXCEPT ![a] = "processing"] /\ UNCHANGED <<flips, crashes>>
  BY Now DEF Begins
<1>3. QED
  BY <1>1, <1>2, GoesDoes DEF Begins, Does, SameConfig, SameRest, SameFiles

LEMMA ResetsStateDoes ==
  ASSUME PrepTypeOK, NEW a \in Attempts, ResetsState(a)
  PROVE  /\ Does(a, "reset", {"read", "fail"}) /\ SameRest(a) /\ SameFiles
         /\ attempt'[a].config = FALSE /\ (AtomicCheck => flips = FALSE)
         /\ attempt'[a].pc = "read" => state'.config = FALSE
         /\ attempt'[a].pc = "fail" => state'.config = state.config
<1>1. PICK t \in Attempt : t = attempt[a]
  BY Now
<1>2. PICK u : u = [t EXCEPT !.status = "preparing", !.config = FALSE]
  OBVIOUS
<1>a. u \in Attempt
  BY <1>2 DEF Attempt
<1>3. u.config = FALSE /\ Like(u, t)
  BY <1>2 DEF Attempt, Like
<1>4. /\ SavesState(a, u, "read", "fail") /\ attempt[a].pc = "reset" /\ UNCHANGED <<worker, files, flips, crashes>>
  BY <1>1, <1>2 DEF ResetsState
<1>b. task' = [task EXCEPT ![a] = task[a]] /\ task[a] \in TaskStatus
  BY Now DEF ResetsState
<1>5. {"read", "fail"} \subseteq AttemptPC
  BY DEF AttemptPC
<1>6. /\ Step1(a) /\ attempt'[a].config = u.config /\ Like(attempt'[a], u)
      /\ \/ attempt'[a].pc = "read" /\ state'.config = u.config
         \/ attempt'[a].pc = "fail" /\ state'.config = state.config
  BY <1>a, <1>b, <1>4, <1>5, SavesStateDoes
<1>7. AtomicCheck => flips = FALSE
  BY DEF ResetsState, PrepTypeOK
<1>8. QED
  BY <1>1, <1>3, <1>4, <1>6, <1>7 DEF Does, SameRest, SameFiles, Like

LEMMA ReadsEntitiesDoes ==
  ASSUME PrepTypeOK, NEW a \in Attempts, ReadsEntities(a)
  PROVE  /\ Does(a, "read", {"profiles", "fail"}) /\ SameConfig(a) /\ SameFiles
         /\ state'.config = state.config
         /\ attempt'[a].batches = attempt[a].batches /\ attempt'[a].agents = attempt[a].agents
         /\ attempt'[a].pc = "profiles" => attempt'[a].entities \in 1..MaxEntities
<1>1. /\ attempt[a].pc = "read" /\ task' = [task EXCEPT ![a] = task[a]] /\ task[a] \in TaskStatus
      /\ state' = state /\ state' \in State /\ files' = files /\ files' \in Files
      /\ flips' = flips /\ crashes' = crashes
  BY Now DEF ReadsEntities
<1>2. CASE Goes(a, "fail") /\ UNCHANGED worker
  <2>1. worker' \in [Ids -> Worker] /\ "fail" \in AttemptPC
    BY <1>2, Now DEF AttemptPC
  <2>2. QED
    BY <1>1, <1>2, <2>1, GoesDoes DEF Does, SameConfig, Like, SameFiles
<1>3. ASSUME NEW n \in 1..MaxEntities,
             attempt' = [attempt EXCEPT ![a].pc = "profiles", ![a].entities = n],
             worker' = [i \in Ids |-> [pc |-> IF i < n THEN "queued" ELSE "none", tries |-> 0]]
      PROVE  /\ Does(a, "read", {"profiles", "fail"}) /\ SameConfig(a) /\ SameFiles
             /\ state'.config = state.config
             /\ attempt'[a].batches = attempt[a].batches /\ attempt'[a].agents = attempt[a].agents
             /\ attempt'[a].pc = "profiles" => attempt'[a].entities \in 1..MaxEntities
  <2>1. PICK t \in Attempt : t = attempt[a]
    BY Now
  <2>2. PICK u : u = [t EXCEPT !.pc = "profiles", !.entities = n]
    OBVIOUS
  <2>a. n \in 0..MaxEntities
    OBVIOUS
  <2>3. u \in Attempt
    BY <2>a, <2>2 DEF Attempt, AttemptPC
  <2>4. u.pc = "profiles" /\ u.config = t.config /\ u.entities = n /\ u.batches = t.batches
        /\ u.agents = t.agents
    BY <2>2 DEF Attempt
  <2>5. attempt' = [attempt EXCEPT ![a] = u]
    BY <1>3, <2>1, <2>2
  <2>6. worker' \in [Ids -> Worker]
    BY <1>3, Bounds DEF Worker
  <2>7. Step1(a) /\ attempt'[a] = u
    BY <1>1, <2>3, <2>5, <2>6, OwnStep
  <2>8. QED
    BY <1>1, <2>1, <2>4, <2>7 DEF Does, SameConfig, SameFiles
<1>4. QED
  BY <1>2, <1>3 DEF ReadsEntities

LEMMA CollectsProfileDoes ==
  ASSUME PrepTypeOK, NEW a \in Attempts, NEW i \in Ids, CollectsProfile(a, i)
  PROVE  /\ PrepTypeOK' /\ attempt' = attempt /\ attempt[a].pc = "profiles" /\ state' = state
         /\ flips' = flips /\ files'.config = files.config
<1>1. PICK f \in Files, there \in SUBSET Ids, is \in {"whole", "torn"} :
         /\ f = files /\ files' = [files EXCEPT !.reddit = [is |-> is, of |-> a, agents |-> there]]
  BY Now DEF CollectsProfile
<1>2. PICK p : p = [is |-> is, of |-> a, agents |-> there]
  OBVIOUS
<1>3. p \in Profiles
  BY <1>2 DEF Profiles
<1>4. files' \in Files /\ files'.config = files.config
  BY <1>1, <1>2, <1>3, FilesFields
<1>5. worker' \in [Ids -> Worker]
  <2>1. PICK w \in Worker : w = worker[i]
    BY Now
  <2>2. PICK v : v = [w EXCEPT !.pc = "collected"]
    OBVIOUS
  <2>3. v \in Worker
    BY <2>2 DEF Worker
  <2>4. worker' = [worker EXCEPT ![i] = v]
    BY <2>1, <2>2 DEF CollectsProfile
  <2>5. QED
    BY <2>3, <2>4, Now
<1>6. QED
  BY <1>4, <1>5 DEF CollectsProfile, PrepTypeOK, Files

LEMMA PoolEndsDoes ==
  ASSUME PrepTypeOK, NEW a \in Attempts, PoolEnds(a)
  PROVE  /\ Does(a, "profiles", {"count"}) /\ SameConfig(a) /\ SameRest(a) /\ SameFiles
         /\ state'.config = state.config
<1>1. "count" \in AttemptPC /\ Goes(a, "count") /\ attempt[a].pc = "profiles"
  BY DEF AttemptPC, PoolEnds
<1>2. /\ worker' \in [Ids -> Worker] /\ files' \in Files /\ state' = state
      /\ task' = [task EXCEPT ![a] = task[a]] /\ task[a] \in TaskStatus
      /\ files' = files /\ flips' = flips /\ crashes' = crashes
  BY Now, IdleTypes DEF PoolEnds
<1>3. QED
  BY <1>1, <1>2, GoesDoes DEF Does, SameConfig, SameRest, SameFiles

LEMMA SavesCountDoes ==
  ASSUME PrepTypeOK, NEW a \in Attempts, SavesCount(a)
  PROVE  /\ Does(a, "count", {"reddit", "fail"}) /\ SameConfig(a) /\ SameRest(a) /\ SameFiles
         /\ state'.config \in {state.config, attempt[a].config}
<1>1. PICK t \in Attempt : t = attempt[a]
  BY Now
<1>2. /\ SavesState(a, t, "reddit", "fail") /\ attempt[a].pc = "count"
      /\ task' = [task EXCEPT ![a] = task[a]] /\ task[a] \in TaskStatus
      /\ UNCHANGED <<worker, files, flips, crashes>>
  BY <1>1, Now DEF SavesCount
<1>3. {"reddit", "fail"} \subseteq AttemptPC
  BY DEF AttemptPC
<1>4. /\ Step1(a) /\ attempt'[a].config = t.config /\ Like(attempt'[a], t)
      /\ \/ attempt'[a].pc = "reddit" /\ state'.config = t.config
         \/ attempt'[a].pc = "fail" /\ state'.config = state.config
  BY <1>2, <1>3, SavesStateDoes
<1>5. QED
  BY <1>1, <1>2, <1>4 DEF Does, SameConfig, SameRest, SameFiles

(* The file of profiles is whole, of this attempt and names these agents.  *)
Profiled(name, a, n) ==
  files[name].is = "whole" /\ files[name].of = a /\ files[name].agents = Count(n)

LEMMA SavesProfilesDo ==
  ASSUME PrepTypeOK, NEW a \in Attempts, NEW n, n = attempt[a].entities
  PROVE  /\ SavesRedditJson(a) =>
              /\ Does(a, "reddit", {"twitter", "fail"}) /\ SameConfig(a) /\ SameRest(a)
              /\ state'.config = state.config /\ flips' = flips
              /\ files'.config = files.config /\ files'.twitter = files.twitter
              /\ attempt'[a].pc = "twitter" => Profiled("reddit", a, n)'
         /\ SavesTwitterCsv(a) =>
              /\ Does(a, "twitter", {"time", "fail"}) /\ SameConfig(a) /\ SameRest(a)
              /\ state'.config = state.config /\ flips' = flips
              /\ files'.config = files.config /\ files'.reddit = files.reddit
              /\ attempt'[a].pc = "time" => Profiled("twitter", a, n)'
<1>1. PICK f \in Files : f = files
  BY Now
<1>2. n \in 0..MaxEntities
  BY Now DEF Attempt
<1>3. ASSUME NEW is \in {"whole", "torn"}, NEW p, p = [is |-> is, of |-> a, agents |-> Count(n)]
      PROVE  /\ p \in Profiles /\ p.is = is /\ p.of = a /\ p.agents = Count(n)
  <2>1. Count(n) \in SUBSET Ids
    BY <1>2, CountIs
  <2>2. QED
    BY <1>3, <2>1 DEF Profiles
<1>4. {"twitter", "time", "fail"} \subseteq AttemptPC
  BY DEF AttemptPC
<1>5. ASSUME SavesRedditJson(a)
      PROVE  /\ Does(a, "reddit", {"twitter", "fail"}) /\ SameConfig(a) /\ SameRest(a)
             /\ state'.config = state.config /\ flips' = flips
             /\ files'.config = files.config /\ files'.twitter = files.twitter
             /\ attempt'[a].pc = "twitter" => Profiled("reddit", a, n)'
  <2>1. PICK is \in {"whole", "torn"} :
           /\ files' = [files EXCEPT !["reddit"] = [is |-> is, of |-> a, agents |-> Count(attempt[a].entities)]]
           /\ Goes(a, IF is = "whole" THEN "twitter" ELSE "fail")
    BY <1>5 DEF SavesRedditJson, SavesProfiles
  <2>2. PICK p : p = [is |-> is, of |-> a, agents |-> Count(n)]
    OBVIOUS
  <2>3. p \in Profiles /\ p.is = is /\ p.of = a /\ p.agents = Count(n)
    BY <1>3, <2>2
  <2>4. files' = [f EXCEPT !.reddit = p]
    BY <1>1, <2>1, <2>2
  <2>5. files' \in Files /\ files'.reddit = p /\ files'.twitter = files.twitter
        /\ files'.config = files.config
    BY <1>1, <2>3, <2>4, FilesFields
  <2>6. PICK pc \in {"twitter", "fail"} : pc = IF is = "whole" THEN "twitter" ELSE "fail"
    OBVIOUS
  <2>7. /\ worker' \in [Ids -> Worker] /\ state' = state /\ attempt[a].pc = "reddit"
        /\ task' = [task EXCEPT ![a] = task[a]] /\ task[a] \in TaskStatus
        /\ flips' = flips /\ crashes' = crashes
    BY <1>5, Now DEF SavesRedditJson, SavesProfiles
  <2>8. Goes(a, pc) /\ pc \in AttemptPC
    BY <1>4, <2>1, <2>6
  <2>9. /\ Step1(a) /\ attempt'[a].pc = pc /\ attempt'[a].config = attempt[a].config
        /\ Like(attempt'[a], attempt[a])
    BY <2>5, <2>7, <2>8, GoesDoes
  <2>10. attempt'[a].pc = "twitter" => is = "whole"
    BY <2>6, <2>9
  <2>11. QED
    BY <2>3, <2>5, <2>6, <2>7, <2>9, <2>10 DEF Does, SameConfig, SameRest, Profiled
<1>6. ASSUME SavesTwitterCsv(a)
      PROVE  /\ Does(a, "twitter", {"time", "fail"}) /\ SameConfig(a) /\ SameRest(a)
             /\ state'.config = state.config /\ flips' = flips
             /\ files'.config = files.config /\ files'.reddit = files.reddit
             /\ attempt'[a].pc = "time" => Profiled("twitter", a, n)'
  <2>1. PICK is \in {"whole", "torn"} :
           /\ files' = [files EXCEPT !["twitter"] = [is |-> is, of |-> a, agents |-> Count(attempt[a].entities)]]
           /\ Goes(a, IF is = "whole" THEN "time" ELSE "fail")
    BY <1>6 DEF SavesTwitterCsv, SavesProfiles
  <2>2. PICK p : p = [is |-> is, of |-> a, agents |-> Count(n)]
    OBVIOUS
  <2>3. p \in Profiles /\ p.is = is /\ p.of = a /\ p.agents = Count(n)
    BY <1>3, <2>2
  <2>4. files' = [f EXCEPT !.twitter = p]
    BY <1>1, <2>1, <2>2
  <2>5. files' \in Files /\ files'.twitter = p /\ files'.reddit = files.reddit
        /\ files'.config = files.config
    BY <1>1, <2>3, <2>4, FilesFields
  <2>6. PICK pc \in {"time", "fail"} : pc = IF is = "whole" THEN "time" ELSE "fail"
    OBVIOUS
  <2>7. /\ worker' \in [Ids -> Worker] /\ state' = state /\ attempt[a].pc = "twitter"
        /\ task' = [task EXCEPT ![a] = task[a]] /\ task[a] \in TaskStatus
        /\ flips' = flips /\ crashes' = crashes
    BY <1>6, Now DEF SavesTwitterCsv, SavesProfiles
  <2>8. Goes(a, pc) /\ pc \in AttemptPC
    BY <1>4, <2>1, <2>6
  <2>9. /\ Step1(a) /\ attempt'[a].pc = pc /\ attempt'[a].config = attempt[a].config
        /\ Like(attempt'[a], attempt[a])
    BY <2>5, <2>7, <2>8, GoesDoes
  <2>10. attempt'[a].pc = "time" => is = "whole"
    BY <2>6, <2>9
  <2>11. QED
    BY <2>3, <2>5, <2>6, <2>7, <2>9, <2>10 DEF Does, SameConfig, SameRest, Profiled
<1>7. QED
  BY <1>5, <1>6

LEMMA ConfiguresDoes ==
  ASSUME PrepTypeOK, NEW a \in Attempts, NEW u \in Attempt, Configures(a, u)
  PROVE  /\ Step1(a) /\ attempt'[a] = u /\ SameFiles /\ state' = state
<1>1. /\ attempt' = [attempt EXCEPT ![a] = u] /\ worker' \in [Ids -> Worker] /\ state' \in State
      /\ files' \in Files /\ task[a] \in TaskStatus /\ task' = [task EXCEPT ![a] = task[a]]
      /\ flips' = flips /\ crashes' = crashes /\ files' = files /\ state' = state
  BY Now DEF Configures
<1>2. QED
  BY <1>1, OwnStep DEF SameFiles

LEMMA GeneratesTimeDoes ==
  ASSUME PrepTypeOK, NEW a \in Attempts, GeneratesTime(a), attempt[a].entities \in 1..MaxEntities
  PROVE  /\ Does(a, "time", {"events", "fail"}) /\ SameConfig(a) /\ SameFiles
         /\ state'.config = state.config
         /\ attempt'[a].entities = attempt[a].entities /\ attempt'[a].batches = attempt[a].batches
         /\ attempt'[a].agents = attempt[a].agents
         /\ attempt'[a].pc = "events" =>
              Usable(attempt'[a].least, attempt'[a].most, attempt[a].entities)
<1>1. PICK t \in Attempt, n \in 1..MaxEntities : t = attempt[a] /\ n = t.entities
  BY Now
<1>2. ASSUME NEW u \in Attempt, Configures(a, u), u.pc \in {"events", "fail"}, u.config = t.config,
             u.entities = n, u.batches = t.batches, u.agents = t.agents,
             u.pc = "events" => Usable(u.least, u.most, n)
      PROVE  /\ Does(a, "time", {"events", "fail"}) /\ SameConfig(a) /\ SameFiles
             /\ state'.config = state.config
             /\ attempt'[a].entities = attempt[a].entities /\ attempt'[a].batches = attempt[a].batches
             /\ attempt'[a].agents = attempt[a].agents
             /\ attempt'[a].pc = "events" =>
                  Usable(attempt'[a].least, attempt'[a].most, attempt[a].entities)
  <2>1. Step1(a) /\ attempt'[a] = u /\ SameFiles /\ state' = state /\ attempt[a].pc = "time"
    BY <1>2, ConfiguresDoes DEF GeneratesTime
  <2>2. QED
    BY <1>1, <1>2, <2>1 DEF Does, SameConfig
<1>3. ASSUME NEW llm \in BOOLEAN, NEW least \in Hours, NEW most \in Hours, Usable(least, most, n),
             Configures(a, [t EXCEPT !.pc = "events", !.llm = llm, !.least = least, !.most = most])
      PROVE  \E u \in Attempt : /\ Configures(a, u) /\ u.pc \in {"events", "fail"}
               /\ u.config = t.config /\ u.entities = n /\ u.batches = t.batches
               /\ u.agents = t.agents /\ (u.pc = "events" => Usable(u.least, u.most, n))
  <2>1. PICK u : u = [t EXCEPT !.pc = "events", !.llm = llm, !.least = least, !.most = most]
    OBVIOUS
  <2>2. u \in Attempt
    BY <2>1 DEF Attempt, AttemptPC
  <2>3. u.pc = "events" /\ u.config = t.config /\ u.entities = t.entities /\ u.batches = t.batches
        /\ u.agents = t.agents /\ u.least = least /\ u.most = most
    BY <2>1 DEF Attempt
  <2>4. QED
    BY <1>1, <1>3, <2>1, <2>2, <2>3
<1>4. ASSUME NEW llm \in BOOLEAN, NEW least \in Nat \ {0}, NEW most \in Nat \ {0}, NEW answer,
             answer = [least |-> least, most |-> most],
             Configures(a, LET range == ParseTimeConfig(answer, n)
                           IN [t EXCEPT !.pc = "events", !.llm = llm,
                                        !.least = range.least, !.most = range.most])
      PROVE  \E u \in Attempt : /\ Configures(a, u) /\ u.pc \in {"events", "fail"}
               /\ u.config = t.config /\ u.entities = n /\ u.batches = t.batches
               /\ u.agents = t.agents /\ (u.pc = "events" => Usable(u.least, u.most, n))
  <2>1. PICK l, m : l = ParseTimeConfig(answer, n).least /\ m = ParseTimeConfig(answer, n).most
    OBVIOUS
  <2>2. l \in Hours /\ m \in Hours /\ Usable(l, m, n)
    BY <1>4, <2>1, ParsedIsUsable
  <2>3. Configures(a, [t EXCEPT !.pc = "events", !.llm = llm, !.least = l, !.most = m])
    BY <1>4, <2>1
  <2>4. QED
    BY <1>3, <2>2, <2>3
<1>5. \E u \in Attempt : /\ Configures(a, u) /\ u.pc \in {"events", "fail"}
               /\ u.config = t.config /\ u.entities = n /\ u.batches = t.batches
               /\ u.agents = t.agents /\ (u.pc = "events" => Usable(u.least, u.most, n))
  <2>1. CASE \E llm \in BOOLEAN :
               Configures(a, LET range == ParseTimeConfig(DefaultTimeConfig(n), n)
                             IN [t EXCEPT !.pc = "events", !.llm = llm,
                                          !.least = range.least, !.most = range.most])
    <3>1. PICK l, m : l = Larger(1, n \div 15) /\ m = Larger(5, n \div 5)
      OBVIOUS
    <3>2. l \in Nat \ {0} /\ m \in Nat \ {0}
      <4>1. n \in Nat
        OBVIOUS
      <4>2. n \div 15 \in Nat /\ n \div 5 \in Nat
        BY <4>1, Halves
      <4>3. QED
        BY <3>1, <4>2, LargerIs
    <3>3. DefaultTimeConfig(n) = [least |-> l, most |-> m]
      BY <3>1 DEF DefaultTimeConfig
    <3>4. QED
      BY <1>4, <2>1, <3>2, <3>3
  <2>2. CASE \E answer \in [least: 1..(n + 1), most: 1..(n + 1)] :
               Configures(a, LET range == ParseTimeConfig(answer, n)
                             IN [t EXCEPT !.pc = "events", !.llm = TRUE,
                                          !.least = range.least, !.most = range.most])
    <3>1. PICK answer \in [least: 1..(n + 1), most: 1..(n + 1)] :
               Configures(a, LET range == ParseTimeConfig(answer, n)
                             IN [t EXCEPT !.pc = "events", !.llm = TRUE,
                                          !.least = range.least, !.most = range.most])
      BY <2>2
    <3>2. PICK l, m : l = answer.least /\ m = answer.most
      OBVIOUS
    <3>3. l \in Nat \ {0} /\ m \in Nat \ {0} /\ answer = [least |-> l, most |-> m]
      BY <3>2
    <3>4. QED
      BY <1>4, <3>1, <3>3
  <2>3. CASE Configures(a, [t EXCEPT !.pc = "fail"])
    <3>1. PICK u : u = [t EXCEPT !.pc = "fail"]
      OBVIOUS
    <3>2. u \in Attempt /\ u.pc = "fail" /\ u.config = t.config /\ Like(u, t)
      BY <3>1, PcFields DEF AttemptPC
    <3>3. QED
      BY <1>1, <2>3, <3>1, <3>2 DEF Like
  <2>4. QED
    BY <1>1, <2>1, <2>2, <2>3 DEF GeneratesTime
<1>6. QED
  BY <1>2, <1>5

LEMMA GeneratesEventsDoes ==
  ASSUME PrepTypeOK, NEW a \in Attempts, GeneratesEvents(a)
  PROVE  /\ Does(a, "events", {"batch"}) /\ SameConfig(a) /\ SameFiles
         /\ state'.config = state.config
         /\ attempt'[a].entities = attempt[a].entities /\ attempt'[a].batches = attempt[a].batches
         /\ attempt'[a].agents = attempt[a].agents
         /\ attempt'[a].least = attempt[a].least /\ attempt'[a].most = attempt[a].most
<1>1. PICK t \in Attempt : t = attempt[a]
  BY Now
<1>2. PICK posts \in 0..MaxPosts : Configures(a, [t EXCEPT !.pc = "batch", !.posts = posts])
  <2>1. \E posts \in IF t.llm THEN 0..MaxPosts ELSE {0} :
          Configures(a, [t EXCEPT !.pc = "batch", !.posts = posts])
    BY <1>1 DEF GeneratesEvents
  <2>2. (IF t.llm THEN 0..MaxPosts ELSE {0}) \subseteq 0..MaxPosts
    BY Bounds
  <2>3. QED
    BY <2>1, <2>2, Zenon
<1>3. PICK u : u = [t EXCEPT !.pc = "batch", !.posts = posts]
  OBVIOUS
<1>4. u \in Attempt
  BY <1>3 DEF Attempt, AttemptPC
<1>5. /\ u.pc = "batch" /\ u.config = t.config /\ u.entities = t.entities /\ u.batches = t.batches
      /\ u.agents = t.agents /\ u.least = t.least /\ u.most = t.most
  BY <1>3 DEF Attempt
<1>6. Step1(a) /\ attempt'[a] = u /\ SameFiles /\ state' = state /\ attempt[a].pc = "events"
  BY <1>2, <1>3, <1>4, ConfiguresDoes DEF GeneratesEvents
<1>7. QED
  BY <1>1, <1>5, <1>6 DEF Does, SameConfig

LEMMA GeneratesBatchDoes ==
  ASSUME PrepTypeOK, NEW a \in Attempts, GeneratesBatch(a),
         NEW b, NEW n, b = attempt[a].batches, n = attempt[a].entities,
         attempt[a].agents = Count(Smaller(b * BatchSize, n))
  PROVE  /\ Does(a, "batch", {"batch", "write"}) /\ SameConfig(a) /\ SameFiles
         /\ state'.config = state.config /\ attempt'[a].entities = attempt[a].entities
         /\ attempt'[a].least = attempt[a].least /\ attempt'[a].most = attempt[a].most
         /\ attempt'[a].pc = "batch" =>
              attempt'[a].batches = b + 1 /\ attempt'[a].agents = Count(Smaller((b + 1) * BatchSize, n))
         /\ attempt'[a].pc = "write" => attempt'[a].agents = Count(n)
<1>1. PICK t \in Attempt : t = attempt[a]
  BY Now
<1>2. b \in 0..MaxEntities /\ n \in 0..MaxEntities /\ b \in Nat /\ n \in Nat
      /\ b = t.batches /\ n = t.entities /\ t.agents = Count(Smaller(b * BatchSize, n))
  BY <1>1, Bounds DEF Attempt
<1>3. PICK first \in Nat : first = b * BatchSize
  BY <1>2, Multiples
<1>4. CASE first < n
  <2>1. PICK answered :
          Configures(a, [t EXCEPT !.agents = t.agents \cup Batch(first, n, answered), !.batches = b + 1])
    BY <1>1, <1>2, <1>3, <1>4 DEF GeneratesBatch
  <2>a. PICK next \in Nat : next = (b + 1) * BatchSize
    <3>1. b + 1 \in Nat
      BY <1>2
    <3>2. QED
      BY <3>1, Multiples
  <2>2. PICK m : m = Smaller(next, n)
    OBVIOUS
  <2>3. /\ t.agents \cup Batch(first, n, answered) = Count(m) /\ b + 1 \in 0..MaxEntities
    <3>1. t.agents = Count(Smaller(first, n))
      BY <1>2, <1>3
    <3>2. /\ Count(Smaller(first, n)) \cup Batch(first, n, answered) = Count(Smaller(next, n))
          /\ b + 1 \in 0..MaxEntities
      BY <1>2, <1>3, <1>4, <2>a, BatchAdds
    <3>3. QED
      BY <2>2, <3>1, <3>2
  <2>4. m \in 0..MaxEntities
    BY <1>2, <2>2 DEF Smaller
  <2>5. PICK u : u = [t EXCEPT !.agents = Count(m), !.batches = b + 1]
    OBVIOUS
  <2>6. u \in Attempt
    BY <2>3, <2>4, <2>5, CountIs DEF Attempt
  <2>7. /\ u.pc = t.pc /\ u.config = t.config /\ u.entities = t.entities /\ u.least = t.least
        /\ u.most = t.most /\ u.batches = b + 1 /\ u.agents = Count(m)
    BY <2>5 DEF Attempt
  <2>8. Configures(a, u)
    BY <2>1, <2>3, <2>5
  <2>9. Step1(a) /\ attempt'[a] = u /\ SameFiles /\ state' = state /\ attempt[a].pc = "batch"
    BY <2>6, <2>8, ConfiguresDoes DEF GeneratesBatch
  <2>10. QED
    BY <1>1, <2>a, <2>2, <2>7, <2>9 DEF Does, SameConfig
<1>5. CASE ~(first < n)
  <2>1. PICK u : u = [t EXCEPT !.pc = "write"]
    OBVIOUS
  <2>2. u \in Attempt /\ u.pc = "write" /\ u.config = t.config /\ Like(u, t)
    BY <2>1, PcFields DEF AttemptPC
  <2>3. Configures(a, u) /\ attempt[a].pc = "batch"
    BY <1>1, <1>2, <1>3, <1>5, <2>1 DEF GeneratesBatch
  <2>4. Step1(a) /\ attempt'[a] = u /\ SameFiles /\ state' = state
    BY <2>2, <2>3, ConfiguresDoes
  <2>5. Smaller(first, n) = n
    BY <1>2, <1>5 DEF Smaller
  <2>6. t.agents = Count(n)
    BY <1>2, <1>3, <2>5
  <2>7. QED
    BY <1>1, <2>2, <2>3, <2>4, <2>6 DEF Does, SameConfig, Like
<1>6. QED
  BY <1>4, <1>5

WrittenBy(a, t, types, held, star) ==
  LET Written(is) == [is |-> is, of |-> a, agents |-> t.agents, least |-> t.least, most |-> t.most,
                      strays |-> Posters(types, [held |-> held, other |-> {}], star) \ t.agents]
  IN  \/ /\ files' = [files EXCEPT !.config = Written("whole")]
         /\ attempt' = [attempt EXCEPT ![a].pc = "ready", ![a].config = TRUE]
      \/ files' = [files EXCEPT !.config = Written("torn")] /\ Goes(a, "fail")

LEMMA WritesConfigDoes ==
  ASSUME PrepTypeOK, NEW a \in Attempts, WritesConfig(a)
  PROVE  /\ Does(a, "write", {"ready", "fail"}) /\ SameRest(a)
         /\ state'.config = state.config /\ flips' = flips
         /\ files'.reddit = files.reddit /\ files'.twitter = files.twitter
         /\ attempt'[a].pc = "fail" => SameConfig(a) /\ files'.config.is = "torn"
         /\ attempt'[a].pc = "ready" => files'.config.is = "whole"
         /\ files'.config.of = a /\ files'.config.agents = attempt[a].agents
         /\ files'.config.strays = {}
         /\ files'.config.least = attempt[a].least /\ files'.config.most = attempt[a].most
<1>1. PICK t \in Attempt, f \in Files : t = attempt[a] /\ f = files
  BY Now
<1>a. \E types \in [1..attempt[a].posts -> {"held", "other"}],
          held \in SUBSET attempt[a].agents, star \in attempt[a].agents :
            WrittenBy(a, attempt[a], types, held, star)
  BY DEF WritesConfig, WrittenBy
<1>2. PICK types \in [1..t.posts -> {"held", "other"}], held \in SUBSET t.agents, star \in t.agents :
        WrittenBy(a, t, types, held, star)
  BY <1>1, <1>a
<1>3. t.agents \in SUBSET Ids /\ t.posts \in Nat /\ t.least \in Hours /\ t.most \in Hours
  BY Bounds DEF Attempt
<1>4. Posters(types, [held |-> held, other |-> {}], star) \ t.agents = {}
  BY <1>3, PostersAreAgents
<1>5. ASSUME NEW is \in {"whole", "torn"}, NEW c,
             c = [is |-> is, of |-> a, agents |-> t.agents, least |-> t.least, most |-> t.most,
                  strays |-> {}]
      PROVE  /\ c \in Config /\ c.is = is /\ c.of = a /\ c.agents = t.agents /\ c.least = t.least
             /\ c.most = t.most /\ c.strays = {}
  BY <1>3, <1>5 DEF Config
<1>6. /\ worker' \in [Ids -> Worker] /\ state' = state /\ state' \in State /\ attempt[a].pc = "write"
      /\ task' = [task EXCEPT ![a] = task[a]] /\ task[a] \in TaskStatus
      /\ flips' = flips /\ crashes' = crashes
  BY Now DEF WritesConfig
<1>7. CASE /\ files' = [files EXCEPT !.config =
                  [is |-> "whole", of |-> a, agents |-> t.agents, least |-> t.least, most |-> t.most,
                   strays |-> Posters(types, [held |-> held, other |-> {}], star) \ t.agents]]
           /\ attempt' = [attempt EXCEPT ![a].pc = "ready", ![a].config = TRUE]
  <2>1. PICK c : c = [is |-> "whole", of |-> a, agents |-> t.agents, least |-> t.least,
                      most |-> t.most, strays |-> {}]
    OBVIOUS
  <2>2. /\ c \in Config /\ c.is = "whole" /\ c.of = a /\ c.agents = t.agents /\ c.least = t.least
        /\ c.most = t.most /\ c.strays = {}
    BY <1>5, <2>1
  <2>3. files' = [f EXCEPT !.config = c]
    BY <1>1, <1>4, <1>7, <2>1
  <2>4. files' \in Files /\ files'.config = c /\ files'.reddit = f.reddit /\ files'.twitter = f.twitter
    BY <2>2, <2>3, FilesFields
  <2>5. PICK u : u = [t EXCEPT !.pc = "ready", !.config = TRUE]
    OBVIOUS
  <2>6. u \in Attempt
    BY <2>5 DEF Attempt, AttemptPC
  <2>7. u.pc = "ready" /\ Like(u, t)
    BY <2>5 DEF Attempt, Like
  <2>8. attempt' = [attempt EXCEPT ![a] = u]
    BY <1>1, <1>7, <2>5
  <2>9. Step1(a) /\ attempt'[a] = u
    BY <1>6, <2>4, <2>6, <2>8, OwnStep
  <2>10. QED
    BY <1>1, <1>6, <2>2, <2>4, <2>7, <2>9 DEF Does, SameRest
<1>8. CASE /\ files' = [files EXCEPT !.config =
                  [is |-> "torn", of |-> a, agents |-> t.agents, least |-> t.least, most |-> t.most,
                   strays |-> Posters(types, [held |-> held, other |-> {}], star) \ t.agents]]
           /\ Goes(a, "fail")
  <2>1. PICK c : c = [is |-> "torn", of |-> a, agents |-> t.agents, least |-> t.least,
                      most |-> t.most, strays |-> {}]
    OBVIOUS
  <2>2. /\ c \in Config /\ c.is = "torn" /\ c.of = a /\ c.agents = t.agents /\ c.least = t.least
        /\ c.most = t.most /\ c.strays = {}
    BY <1>5, <2>1
  <2>3. files' = [f EXCEPT !.config = c]
    BY <1>1, <1>4, <1>8, <2>1
  <2>4. files' \in Files /\ files'.config = c /\ files'.reddit = f.reddit /\ files'.twitter = f.twitter
    BY <2>2, <2>3, FilesFields
  <2>5. "fail" \in AttemptPC
    BY DEF AttemptPC
  <2>6. /\ Step1(a) /\ attempt'[a].pc = "fail" /\ attempt'[a].config = attempt[a].config
        /\ Like(attempt'[a], attempt[a])
    BY <1>6, <1>8, <2>4, <2>5, GoesDoes
  <2>7. QED
    BY <1>1, <1>6, <2>2, <2>4, <2>6 DEF Does, SameRest, SameConfig
<1>9. QED
  BY <1>2, <1>7, <1>8 DEF WrittenBy

LEMMA SavesReadyDoes ==
  ASSUME PrepTypeOK, NEW a \in Attempts, SavesReady(a)
  PROVE  /\ Does(a, "ready", {"complete", "fail"}) /\ SameConfig(a) /\ SameRest(a) /\ SameFiles
         /\ state'.config \in {state.config, attempt[a].config}
<1>1. PICK t \in Attempt : t = attempt[a]
  BY Now
<1>2. PICK u : u = [t EXCEPT !.status = "ready"]
  OBVIOUS
<1>3. u \in Attempt /\ u.config = t.config /\ Like(u, t)
  BY <1>2, StatusFields
<1>4. /\ SavesState(a, u, "complete", "fail") /\ attempt[a].pc = "ready"
      /\ task' = [task EXCEPT ![a] = task[a]] /\ task[a] \in TaskStatus
      /\ UNCHANGED <<worker, files, flips, crashes>>
  BY <1>1, <1>2, Now DEF SavesReady
<1>5. {"complete", "fail"} \subseteq AttemptPC
  BY DEF AttemptPC
<1>6. /\ Step1(a) /\ attempt'[a].config = u.config /\ Like(attempt'[a], u)
      /\ \/ attempt'[a].pc = "complete" /\ state'.config = u.config
         \/ attempt'[a].pc = "fail" /\ state'.config = state.config
  BY <1>3, <1>4, <1>5, SavesStateDoes
<1>7. QED
  BY <1>1, <1>3, <1>4, <1>6 DEF Does, SameConfig, SameRest, SameFiles, Like

LEMMA CompletesTaskDoes ==
  ASSUME PrepTypeOK, NEW a \in Attempts, CompletesTask(a)
  PROVE  /\ Does(a, "complete", {"ended"}) /\ SameFiles /\ state'.config = state.config
<1>1. PICK u : u = [Idle EXCEPT !.pc = "ended"]
  OBVIOUS
<1>2. u \in Attempt /\ u.pc = "ended"
  BY <1>1, IdleTypes, PcFields DEF AttemptPC
<1>3. /\ attempt' = [attempt EXCEPT ![a] = u] /\ attempt[a].pc = "complete"
      /\ worker' \in [Ids -> Worker] /\ state' \in State /\ files' \in Files
      /\ "completed" \in TaskStatus /\ task' = [task EXCEPT ![a] = "completed"]
      /\ flips' = flips /\ crashes' = crashes /\ files' = files /\ state' = state
  BY <1>1, Now DEF CompletesTask, TaskStatus
<1>4. Step1(a) /\ attempt'[a] = u
  BY <1>2, <1>3, OwnStep
<1>5. QED
  BY <1>2, <1>3, <1>4 DEF Does, SameFiles

LEMMA SavesFailedDoes ==
  ASSUME PrepTypeOK, NEW a \in Attempts, SavesFailed(a)
  PROVE  /\ Does(a, "fail", {"taskfail"}) /\ SameConfig(a) /\ SameRest(a) /\ SameFiles
         /\ state'.config \in {state.config, attempt[a].config}
<1>1. PICK t \in Attempt : t = attempt[a]
  BY Now
<1>2. PICK u : u = [t EXCEPT !.status = "failed"]
  OBVIOUS
<1>3. u \in Attempt /\ u.config = t.config /\ Like(u, t)
  BY <1>2, StatusFields
<1>4. /\ SavesState(a, u, "taskfail", "taskfail") /\ attempt[a].pc = "fail"
      /\ task' = [task EXCEPT ![a] = task[a]] /\ task[a] \in TaskStatus
      /\ UNCHANGED <<worker, files, flips, crashes>>
  BY <1>1, <1>2, Now DEF SavesFailed
<1>5. "taskfail" \in AttemptPC
  BY DEF AttemptPC
<1>6. /\ Step1(a) /\ attempt'[a].config = u.config /\ Like(attempt'[a], u)
      /\ \/ attempt'[a].pc = "taskfail" /\ state'.config = u.config
         \/ attempt'[a].pc = "taskfail" /\ state'.config = state.config
  BY <1>3, <1>4, <1>5, SavesStateDoes
<1>7. QED
  BY <1>1, <1>3, <1>4, <1>6 DEF Does, SameConfig, SameRest, SameFiles, Like

LEMMA FailsTaskDoes ==
  ASSUME PrepTypeOK, NEW a \in Attempts, FailsTask(a)
  PROVE  /\ Does(a, "taskfail", {"again"}) /\ SameConfig(a) /\ SameRest(a) /\ SameFiles
         /\ state'.config = state.config
<1>1. "failed" \in TaskStatus /\ "again" \in AttemptPC /\ Goes(a, "again")
  BY DEF TaskStatus, AttemptPC, FailsTask
<1>2. /\ worker' \in [Ids -> Worker] /\ files' \in Files /\ state' = state
      /\ task' = [task EXCEPT ![a] = "failed"] /\ UNCHANGED <<flips, crashes>>
  BY Now DEF FailsTask
<1>3. QED
  BY <1>1, <1>2, GoesDoes DEF FailsTask, Does, SameConfig, SameRest, SameFiles

LEMMA SavesFailedAgainDoes ==
  ASSUME PrepTypeOK, NEW a \in Attempts, SavesFailedAgain(a)
  PROVE  /\ Does(a, "again", {"ended"}) /\ SameConfig(a) /\ SameFiles
         /\ state'.config \in {state.config, attempt[a].config}
<1>1. PICK t \in Attempt : t = attempt[a]
  BY Now
<1>2. PICK u : u = [Idle EXCEPT !.status = "failed", !.config = t.config]
  OBVIOUS
<1>3. u \in Attempt
  BY <1>2, IdleTypes DEF Attempt
<1>a. u.config = t.config
  BY <1>2, IdleTypes DEF Attempt
<1>4. /\ SavesState(a, u, "ended", "ended") /\ attempt[a].pc = "again"
      /\ task' = [task EXCEPT ![a] = task[a]] /\ task[a] \in TaskStatus
      /\ UNCHANGED <<worker, files, flips, crashes>>
  BY <1>1, <1>2, Now DEF SavesFailedAgain
<1>5. "ended" \in AttemptPC
  BY DEF AttemptPC
<1>6. /\ Step1(a) /\ attempt'[a].config = u.config
      /\ attempt'[a].pc = "ended" /\ state'.config \in {u.config, state.config}
  BY <1>3, <1>4, <1>5, SavesStateDoes
<1>7. QED
  BY <1>1, <1>a, <1>4, <1>6 DEF Does, SameConfig, SameFiles

LEMMA RequestDoes ==
  ASSUME PrepTypeOK, NEW a \in Attempts, NEW force \in BOOLEAN, Request(a, force)
  PROVE  /\ Does(a, "idle", {"asked"}) /\ SameFiles /\ state' = state
         /\ attempt'[a].config = state.config /\ attempt'[a].batches = 0 /\ attempt'[a].agents = {}
         /\ Overlap \/ \A b \in Attempts : ~Working(b)
<1>1. PICK v \in State : v = state
  BY Now
<1>2. PICK u : u = [Idle EXCEPT !.pc = "asked", !.status = v.status, !.config = v.config]
  OBVIOUS
<1>3. u \in Attempt
  BY <1>2, IdleTypes DEF Attempt, AttemptPC, State
<1>4. u.pc = "asked" /\ u.config = v.config /\ u.batches = 0 /\ u.agents = {}
  <2>1. Idle.batches = 0 /\ Idle.agents = {}
    BY DEF Idle
  <2>2. QED
    BY <1>2, <2>1, IdleTypes DEF Attempt
<1>5. /\ attempt' = [attempt EXCEPT ![a] = u] /\ attempt[a].pc = "idle"
      /\ worker' \in [Ids -> Worker] /\ state' \in State /\ files' \in Files
      /\ task[a] \in TaskStatus /\ task' = [task EXCEPT ![a] = task[a]]
      /\ flips' = flips /\ crashes' = crashes /\ files' = files /\ state' = state
  BY <1>1, <1>2, Now DEF Request
<1>6. Step1(a) /\ attempt'[a] = u
  BY <1>3, <1>5, OwnStep
<1>7. QED
  BY <1>1, <1>4, <1>5, <1>6 DEF Request, Does, SameFiles

LEMMA WorkersDo ==
  ASSUME PrepTypeOK, NEW i \in Ids, WorkerStep(i)
  PROVE  /\ PrepTypeOK' /\ attempt' = attempt /\ state' = state /\ files' = files /\ flips' = flips
<1>1. ASSUME NEW pc \in {"none", "queued", "context", "ask", "made", "collected"},
             NEW tries \in 0..MaxTries, WorkerMoves(i, pc, tries)
      PROVE  /\ PrepTypeOK' /\ attempt' = attempt /\ state' = state /\ files' = files /\ flips' = flips
  <2>1. [pc |-> pc, tries |-> tries] \in Worker
    BY DEF Worker
  <2>2. worker' \in [Ids -> Worker]
    BY <1>1, <2>1 DEF WorkerMoves, PrepTypeOK
  <2>3. QED
    BY <1>1, <2>2 DEF WorkerMoves, PrepTypeOK
<1>2. PICK w \in Worker : w = worker[i]
  BY DEF PrepTypeOK
<1>3. w.tries \in 0..MaxTries /\ 0 \in 0..MaxTries /\ (w.tries + 1 < MaxTries => w.tries + 1 \in 0..MaxTries)
  BY Bounds DEF Worker
<1>4. CASE WorkerBegins(i)
  BY <1>1, <1>3, <1>4 DEF WorkerBegins
<1>5. CASE WorkerBuildsContext(i)
  BY <1>1, <1>3, <1>5 DEF WorkerBuildsContext
<1>6. CASE WorkerAsks(i)
  BY <1>1, <1>2, <1>3, <1>6 DEF WorkerAsks
<1>7. CASE WorkerUsesRules(i)
  BY <1>1, <1>3, <1>7 DEF WorkerUsesRules
<1>8. QED
  BY <1>4, <1>5, <1>6, <1>7 DEF WorkerStep

LEMMA ChecksDo ==
  ASSUME PrepTypeOK
  PROVE  /\ CheckReads => /\ PrepTypeOK' /\ attempt' = attempt /\ state' = state /\ files' = files
                          /\ state.config = TRUE
         /\ CheckWrites => /\ PrepTypeOK' /\ attempt' = attempt /\ files' = files
                           /\ flips = TRUE /\ flips' = FALSE
<1>1. ASSUME CheckReads
      PROVE  /\ PrepTypeOK' /\ attempt' = attempt /\ state' = state /\ files' = files
             /\ state.config = TRUE
  BY <1>1 DEF CheckReads, Prepared, PrepTypeOK, State
<1>2. ASSUME CheckWrites
      PROVE  /\ PrepTypeOK' /\ attempt' = attempt /\ files' = files
             /\ flips = TRUE /\ flips' = FALSE
  <2>1. PICK v \in State : v = state
    BY DEF PrepTypeOK
  <2>2. [is |-> "whole", status |-> "ready", config |-> TRUE] \in State
    BY DEF State
  <2>3. [v EXCEPT !.is = "torn"] \in State
    BY DEF State
  <2>4. state' \in State
    BY <1>2, <2>1, <2>2, <2>3 DEF CheckWrites
  <2>5. /\ attempt' = attempt /\ worker' = worker /\ files' = files /\ task' = task
        /\ crashes' = crashes /\ flips' = FALSE
    BY <1>2 DEF CheckWrites
  <2>6. flips = TRUE
    BY <1>2 DEF CheckWrites, PrepTypeOK
  <2>7. PrepTypeOK'
    BY <2>4, <2>5 DEF PrepTypeOK
  <2>8. QED
    BY <2>5, <2>6, <2>7
<1>3. QED
  BY <1>1, <1>2

LEMMA RestartDoes ==
  ASSUME PrepTypeOK, ServerRestarts
  PROVE  /\ PrepTypeOK' /\ files' = files /\ flips' = FALSE /\ state'.config = state.config
         /\ \A a \in Attempts : \/ ~Working(a) /\ attempt'[a] = attempt[a]
                                \/ attempt'[a].pc = "dead"
<1>1. PICK u : u = [Idle EXCEPT !.pc = "dead"]
  OBVIOUS
<1>2. u \in Attempt /\ u.pc = "dead"
  BY <1>1, IdleTypes, PcFields DEF AttemptPC
<1>3. attempt' = [a \in Attempts |-> IF Working(a) THEN u ELSE attempt[a]]
  BY <1>1 DEF ServerRestarts
<1>4. attempt' \in [Attempts -> Attempt]
  BY <1>2, <1>3 DEF PrepTypeOK
<1>5. PICK v \in State : v = state
  BY DEF PrepTypeOK
<1>6. PICK w : w = [v EXCEPT !.is = "torn"]
  OBVIOUS
<1>7. w \in State /\ w.config = v.config
  BY <1>6 DEF State
<1>8. state' \in {v, w}
  BY <1>5, <1>6 DEF ServerRestarts
<1>9. /\ worker' \in [Ids -> Worker] /\ files' = files /\ flips' = FALSE
      /\ task' \in [Attempts -> {"none", "pending", "processing", "completed", "failed"}]
  BY IdleTypes DEF ServerRestarts
<1>10. crashes' \in 0..MaxCrashes
  BY Bounds DEF ServerRestarts, PrepTypeOK
<1>11. PrepTypeOK'
  BY <1>4, <1>5, <1>7, <1>8, <1>9, <1>10 DEF PrepTypeOK
<1>12. QED
  BY <1>2, <1>3, <1>5, <1>7, <1>8, <1>9, <1>11

-----------------------------------------------------------------------------
(* Types and ranges, in every step *)

Entitled == {"profiles", "count", "reddit", "twitter", "time", "events", "batch", "write"}
Unbatched == {"asked", "spawned", "reset", "read", "profiles", "count", "reddit", "twitter", "time",
              "events"}

(* A thread that has read entities has some, one that has a range has a    *)
(* usable one, and the batches made so far cover the first entities.       *)
Ranged(t) ==
  /\ t.pc \in Entitled => t.entities \in 1..MaxEntities
  /\ t.pc \in {"events", "batch", "write"} => Usable(t.least, t.most, t.entities)
  /\ t.pc \in Unbatched => t.batches = 0 /\ t.agents = {}
  /\ t.pc = "batch" => t.agents = Count(Smaller(t.batches * BatchSize, t.entities))
  /\ t.pc = "write" => t.agents = Count(t.entities)

ConfigRanged(c) ==
  c.is = "whole" =>
    \E n \in 1..MaxEntities : c.agents = Count(n) /\ Usable(c.least, c.most, n)

RangeInv == (\A a \in Attempts : Ranged(attempt[a])) /\ ConfigRanged(files.config)

LEMMA LikeRanged ==
  ASSUME NEW t, NEW u, Ranged(t), Like(u, t),
         u.pc \in Entitled => t.pc \in Entitled,
         u.pc \in Unbatched => t.pc \in Unbatched,
         u.pc \notin {"events", "batch", "write"}
  PROVE  Ranged(u)
  BY DEF Ranged, Like

LEMMA FirstBatch ==
  ASSUME NEW n \in Nat
  PROVE  Count(Smaller(0 * BatchSize, n)) = {}
<1>1. Smaller(0, n) = 0
  BY DEF Smaller
<1>2. 0 * BatchSize = 0
  BY Multiples
<1>3. Count(0) = {}
  BY DEF Count
<1>4. QED
  BY <1>1, <1>2, <1>3

LEMMA LikeActions ==
  ASSUME PrepTypeOK, NEW a \in Attempts, Ranged(attempt[a]),
         \/ SavesPreparing(a) \/ Begins(a) \/ ResetsState(a) \/ PoolEnds(a) \/ SavesCount(a)
         \/ SavesRedditJson(a) \/ SavesTwitterCsv(a) \/ WritesConfig(a) \/ SavesReady(a)
         \/ SavesFailed(a) \/ FailsTask(a) \/ CompletesTask(a) \/ SavesFailedAgain(a)
  PROVE  Step1(a) /\ Ranged(attempt'[a])
<1>1. PICK t, u : t = attempt[a] /\ u = attempt'[a]
  OBVIOUS
<1>2. CASE CompletesTask(a) \/ SavesFailedAgain(a)
  <2>1. Step1(a) /\ u.pc = "ended"
    BY <1>1, <1>2, CompletesTaskDoes, SavesFailedAgainDoes DEF Does
  <2>2. Ranged(u)
    BY <2>1 DEF Ranged, Entitled, Unbatched
  <2>3. QED
    BY <1>1, <2>1, <2>2
<1>3. CASE \/ SavesPreparing(a) \/ Begins(a) \/ ResetsState(a) \/ PoolEnds(a) \/ SavesCount(a)
           \/ SavesRedditJson(a) \/ SavesTwitterCsv(a) \/ WritesConfig(a) \/ SavesReady(a)
           \/ SavesFailed(a) \/ FailsTask(a)
  <2>1. /\ Step1(a) /\ SameRest(a)
        /\ \/ Does(a, "asked", {"spawned", "ended"}) \/ Does(a, "spawned", {"reset"})
           \/ Does(a, "reset", {"read", "fail"}) \/ Does(a, "profiles", {"count"})
           \/ Does(a, "count", {"reddit", "fail"}) \/ Does(a, "reddit", {"twitter", "fail"})
           \/ Does(a, "twitter", {"time", "fail"}) \/ Does(a, "write", {"ready", "fail"})
           \/ Does(a, "ready", {"complete", "fail"}) \/ Does(a, "fail", {"taskfail"})
           \/ Does(a, "taskfail", {"again"})
    <3>1. CASE SavesPreparing(a) \/ Begins(a) \/ ResetsState(a)
      BY <3>1, SavesPreparingDoes, BeginsDoes, ResetsStateDoes DEF Does
    <3>2. CASE PoolEnds(a) \/ SavesCount(a)
      BY <3>2, PoolEndsDoes, SavesCountDoes DEF Does
    <3>3. CASE SavesRedditJson(a) \/ SavesTwitterCsv(a)
      BY <3>3, SavesProfilesDo DEF Does
    <3>4. CASE WritesConfig(a) \/ SavesReady(a)
      BY <3>4, WritesConfigDoes, SavesReadyDoes DEF Does
    <3>5. CASE SavesFailed(a) \/ FailsTask(a)
      BY <3>5, SavesFailedDoes, FailsTaskDoes DEF Does
    <3>6. QED
      BY <1>3, <3>1, <3>2, <3>3, <3>4, <3>5
  <2>2. /\ u.pc \in Entitled => t.pc \in Entitled
        /\ u.pc \in Unbatched => t.pc \in Unbatched
        /\ u.pc \notin {"events", "batch", "write"}
    BY <1>1, <2>1 DEF Does, Entitled, Unbatched
  <2>3. Like(u, t) /\ Ranged(t)
    BY <1>1, <2>1 DEF SameRest
  <2>4. Ranged(u)
    BY <2>2, <2>3, LikeRanged
  <2>5. QED
    BY <1>1, <2>1, <2>4
<1>4. QED
  BY <1>2, <1>3

LEMMA BuildActions ==
  ASSUME PrepTypeOK, NEW a \in Attempts, Ranged(attempt[a]),
         ReadsEntities(a) \/ GeneratesTime(a) \/ GeneratesEvents(a) \/ GeneratesBatch(a)
  PROVE  Step1(a) /\ Ranged(attempt'[a])
<1>1. PICK t, u : t = attempt[a] /\ u = attempt'[a]
  OBVIOUS
<1>2. Ranged(t)
  BY <1>1
<1>3. CASE ReadsEntities(a)
  <2>1. /\ Step1(a) /\ t.pc = "read" /\ u.pc \in {"profiles", "fail"}
        /\ u.batches = t.batches /\ u.agents = t.agents
        /\ u.pc = "profiles" => u.entities \in 1..MaxEntities
    BY <1>1, <1>3, ReadsEntitiesDoes DEF Does
  <2>2. Ranged(u)
    BY <1>2, <2>1 DEF Ranged, Entitled, Unbatched
  <2>3. QED
    BY <1>1, <2>1, <2>2
<1>4. CASE GeneratesTime(a)
  <2>1. t.pc = "time"
    BY <1>1, <1>4 DEF GeneratesTime
  <2>2. t.entities \in 1..MaxEntities /\ t.batches = 0 /\ t.agents = {}
    BY <1>2, <2>1 DEF Ranged, Entitled, Unbatched
  <2>3. /\ Step1(a) /\ u.pc \in {"events", "fail"} /\ u.entities = t.entities
        /\ u.batches = t.batches /\ u.agents = t.agents
        /\ u.pc = "events" => Usable(u.least, u.most, t.entities)
    BY <1>1, <1>4, <2>2, GeneratesTimeDoes DEF Does
  <2>4. Ranged(u)
    BY <2>2, <2>3 DEF Ranged, Entitled, Unbatched
  <2>5. QED
    BY <1>1, <2>3, <2>4
<1>5. CASE GeneratesEvents(a)
  <2>1. /\ Step1(a) /\ t.pc = "events" /\ u.pc = "batch" /\ u.entities = t.entities
        /\ u.batches = t.batches /\ u.agents = t.agents /\ u.least = t.least /\ u.most = t.most
    BY <1>1, <1>5, GeneratesEventsDoes DEF Does
  <2>2. /\ t.entities \in 1..MaxEntities /\ Usable(t.least, t.most, t.entities)
        /\ t.batches = 0 /\ t.agents = {}
    BY <1>2, <2>1 DEF Ranged, Entitled, Unbatched
  <2>3. Count(Smaller(0 * BatchSize, t.entities)) = {}
    BY <2>2, FirstBatch
  <2>4. u.agents = Count(Smaller(u.batches * BatchSize, u.entities))
    BY <2>1, <2>2, <2>3
  <2>5. Ranged(u)
    BY <2>1, <2>2, <2>4 DEF Ranged, Entitled, Unbatched
  <2>6. QED
    BY <1>1, <2>1, <2>5
<1>6. CASE GeneratesBatch(a)
  <2>1. t.pc = "batch"
    BY <1>1, <1>6 DEF GeneratesBatch
  <2>2. /\ t.entities \in 1..MaxEntities /\ Usable(t.least, t.most, t.entities)
        /\ t.agents = Count(Smaller(t.batches * BatchSize, t.entities))
    BY <1>2, <2>1 DEF Ranged, Entitled
  <2>3. PICK b, n : b = t.batches /\ n = t.entities
    OBVIOUS
  <2>4. /\ Step1(a) /\ u.pc \in {"batch", "write"} /\ u.entities = n
        /\ u.least = t.least /\ u.most = t.most
        /\ u.pc = "batch" => u.batches = b + 1 /\ u.agents = Count(Smaller((b + 1) * BatchSize, n))
        /\ u.pc = "write" => u.agents = Count(n)
    <3>1. b = attempt[a].batches /\ n = attempt[a].entities
          /\ attempt[a].agents = Count(Smaller(b * BatchSize, n))
      BY <1>1, <2>2, <2>3
    <3>2. /\ Does(a, "batch", {"batch", "write"}) /\ attempt'[a].entities = attempt[a].entities
          /\ attempt'[a].least = attempt[a].least /\ attempt'[a].most = attempt[a].most
          /\ attempt'[a].pc = "batch" =>
               attempt'[a].batches = b + 1 /\ attempt'[a].agents = Count(Smaller((b + 1) * BatchSize, n))
          /\ attempt'[a].pc = "write" => attempt'[a].agents = Count(n)
      BY <1>6, <3>1, GeneratesBatchDoes
    <3>3. QED
      BY <1>1, <2>3, <3>2 DEF Does
  <2>5. Usable(u.least, u.most, u.entities) /\ u.entities \in 1..MaxEntities
    BY <2>2, <2>3, <2>4
  <2>6. CASE u.pc = "batch"
    <3>1. u.agents = Count(Smaller(u.batches * BatchSize, u.entities))
      BY <2>4, <2>6
    <3>2. QED
      BY <1>1, <2>4, <2>5, <2>6, <3>1 DEF Ranged, Entitled, Unbatched
  <2>7. CASE u.pc = "write"
    BY <1>1, <2>4, <2>5, <2>7 DEF Ranged, Entitled, Unbatched
  <2>8. QED
    BY <2>4, <2>6, <2>7
<1>7. QED
  BY <1>3, <1>4, <1>5, <1>6

(* Only the writing of the configuration writes the configuration. *)
LEMMA ConfigStays ==
  ASSUME PrepTypeOK, NEW a \in Attempts, Ranged(attempt[a]), ConfigRanged(files.config), ThreadStep(a)
  PROVE  ConfigRanged(files'.config)
<1>1. CASE WritesConfig(a)
  <2>1. PICK t, c : t = attempt[a] /\ c = files'.config
    OBVIOUS
  <2>2. /\ t.pc = "write" /\ c.agents = t.agents /\ c.least = t.least /\ c.most = t.most
    BY <1>1, <2>1, WritesConfigDoes DEF Does
  <2>3. /\ t.agents = Count(t.entities) /\ t.entities \in 1..MaxEntities
        /\ Usable(t.least, t.most, t.entities)
    BY <2>1, <2>2 DEF Ranged, Entitled
  <2>4. ConfigRanged(c)
    BY <2>2, <2>3 DEF ConfigRanged
  <2>5. QED
    BY <2>1, <2>4
<1>2. CASE ~WritesConfig(a)
  <2>1. files'.config = files.config
    <3>1. CASE \E i \in Ids : CollectsProfile(a, i)
      BY <3>1, CollectsProfileDoes
    <3>2. CASE SavesRedditJson(a) \/ SavesTwitterCsv(a)
      BY <3>2, SavesProfilesDo
    <3>3. CASE ~\E i \in Ids : CollectsProfile(a, i)
      BY <1>2, <3>2, <3>3
      DEF ThreadStep, SavesPreparing, Begins, ResetsState, ReadsEntities, PoolEnds, SavesCount,
          GeneratesTime, GeneratesEvents, GeneratesBatch, Configures, SavesReady, CompletesTask,
          SavesFailed, FailsTask, SavesFailedAgain
    <3>4. QED
      BY <3>1, <3>3
  <2>2. QED
    BY <2>1
<1>3. QED
  BY <1>1, <1>2

LEMMA NextRanges ==
  ASSUME PrepTypeOK, RangeInv, [PrepNext]_prepVars
  PROVE  PrepTypeOK' /\ RangeInv'
<1>1. ASSUME NEW a \in Attempts, Step1(a), Ranged(attempt'[a]), ConfigRanged(files'.config)
      PROVE  PrepTypeOK' /\ RangeInv'
  BY <1>1 DEF RangeInv, Step1
<1>2. ASSUME attempt' = attempt, files'.config = files.config
      PROVE  RangeInv'
  BY <1>2 DEF RangeInv
<1>3. ASSUME NEW a \in Attempts, ThreadStep(a) PROVE PrepTypeOK' /\ RangeInv'
  <2>0. Ranged(attempt[a]) /\ ConfigRanged(files.config)
    BY DEF RangeInv
  <2>1. ConfigRanged(files'.config)
    BY <1>3, <2>0, ConfigStays
  <2>2. CASE \E i \in Ids : CollectsProfile(a, i)
    BY <1>2, <2>2, CollectsProfileDoes
  <2>3. CASE ~\E i \in Ids : CollectsProfile(a, i)
    BY <1>1, <1>3, <2>0, <2>1, <2>3, LikeActions, BuildActions DEF ThreadStep
  <2>4. QED
    BY <2>2, <2>3
<1>4. ASSUME NEW a \in Attempts, NEW force \in BOOLEAN, Request(a, force) PROVE PrepTypeOK' /\ RangeInv'
  <2>1. PICK u : u = attempt'[a]
    OBVIOUS
  <2>2. Step1(a) /\ u.pc = "asked" /\ u.batches = 0 /\ u.agents = {} /\ files' = files
    BY <1>4, <2>1, RequestDoes DEF Does, SameFiles
  <2>3. Ranged(u)
    BY <2>2 DEF Ranged, Entitled
  <2>4. QED
    BY <1>1, <2>1, <2>2, <2>3 DEF RangeInv
<1>5. CASE CheckReads \/ CheckWrites
  BY <1>2, <1>5, ChecksDo
<1>6. CASE \E i \in Ids : WorkerStep(i)
  BY <1>2, <1>6, WorkersDo
<1>7. CASE ServerRestarts
  <2>1. ASSUME NEW a \in Attempts PROVE Ranged(attempt'[a])
    <3>1. PICK u : u = attempt'[a]
      OBVIOUS
    <3>2. CASE u.pc = "dead"
      <4>1. Ranged(u)
        BY <3>2 DEF Ranged, Entitled, Unbatched
      <4>2. QED
        BY <3>1, <4>1
    <3>3. CASE attempt'[a] = attempt[a]
      BY <3>3 DEF RangeInv
    <3>4. QED
      BY <1>7, <3>1, <3>2, <3>3, RestartDoes
  <2>2. QED
    BY <1>7, <2>1, RestartDoes DEF RangeInv
<1>8. CASE UNCHANGED prepVars
  BY <1>2, <1>8 DEF prepVars, PrepTypeOK
<1>9. QED
  BY <1>3, <1>4, <1>5, <1>6, <1>7, <1>8 DEF PrepNext

LEMMA InitRanges == PrepInit => RangeInv
<1> SUFFICES ASSUME PrepInit PROVE RangeInv
  OBVIOUS
<1>1. Idle.pc = "idle" /\ NoConfig.is = "absent"
  BY DEF Idle, NoConfig
<1>2. Ranged(Idle) /\ ConfigRanged(NoConfig)
  BY <1>1 DEF Ranged, ConfigRanged, Entitled, Unbatched
<1>3. (\A a \in Attempts : attempt[a] = Idle) /\ files.config = NoConfig
  BY DEF PrepInit
<1>4. QED
  BY <1>2, <1>3 DEF RangeInv

LEMMA RangesMean == RangeInv => RangeIsUsable
<1> SUFFICES ASSUME RangeInv, files.config.is = "whole"
             PROVE  /\ 1 <= files.config.least /\ files.config.least <= files.config.most
                    /\ files.config.least <= Cardinality(files.config.agents)
                    /\ files.config.most <= Cardinality(files.config.agents) + 1
  BY DEF RangeIsUsable
<1>1. PICK c : c = files.config
  OBVIOUS
<1>2. PICK n \in 1..MaxEntities : c.agents = Count(n) /\ Usable(c.least, c.most, n)
  BY <1>1 DEF RangeInv, ConfigRanged
<1>3. Cardinality(Count(n)) = n
  BY CountIs
<1>4. QED
  BY <1>1, <1>2, <1>3 DEF Usable

(* What each variable may hold. *)
THEOREM PrepTypesHold == PrepSpec => []PrepTypeOK
<1>1. QED
  BY InitTypes, InitRanges, NextRanges, PTL DEF PrepSpec

(* Whatever positive numbers the LLM answers with, and however requests    *)
(* overlap, the range of agents per hour in a whole configuration can be   *)
(* drawn from (_parse_time_config).                                        *)
THEOREM RangeIsUsableHolds == PrepSpec => []RangeIsUsable
<1>1. QED
  BY InitTypes, InitRanges, NextRanges, RangesMean, PTL DEF PrepSpec

-----------------------------------------------------------------------------
(* What is called prepared is one whole environment *)

Building == {"read", "profiles", "count", "reddit", "twitter", "time", "events", "batch", "write"}
PastReddit == {"twitter", "time", "events", "batch", "write"}
PastTwitter == {"time", "events", "batch", "write"}

(* The files are one environment. *)
Good ==
  \E a \in Attempts, n \in 1..MaxEntities :
    /\ \A name \in {"reddit", "twitter", "config"} : Profiled(name, a, n)
    /\ files.config.strays = {}

OneAtATime == \A a, b \in Attempts : Working(a) /\ Working(b) => a = b

(* A thread that replaces the files has taken the flag out of state.json   *)
(* before, and has written what its place says.                            *)
Builds(a) ==
  /\ Working(a) /\ attempt[a].config = TRUE => Good
  /\ attempt[a].pc \in Building =>
       state.config = FALSE /\ flips = FALSE /\ attempt[a].config = FALSE
  /\ \A n \in 1..MaxEntities : attempt[a].entities = n =>
       /\ attempt[a].pc \in PastReddit => Profiled("reddit", a, n)
       /\ attempt[a].pc \in PastTwitter => Profiled("twitter", a, n)

(* Whoever may say "prepared" -- the flag in state.json, a check about to  *)
(* write it, a thread that remembers it -- has good files behind it.       *)
Flagged == state.config = TRUE \/ flips = TRUE => Good

WholeInv == OneAtATime /\ Flagged /\ \A a \in Attempts : Builds(a)

LEMMA FilesStay ==
  ASSUME files' = files
  PROVE  /\ Good <=> Good'
         /\ \A name, a, n : Profiled(name, a, n) <=> Profiled(name, a, n)'
  BY DEF Good, Profiled

LEMMA WorkingIs == \A a \in Attempts : attempt[a].pc \in Building => Working(a)
  BY DEF Working, Building

(* What a step of the only working thread has to show. *)
LEMMA AloneStep ==
  ASSUME NEW a \in Attempts, WholeInv, Working(a), Step1(a), Builds(a)', Flagged'
  PROVE  WholeInv'
<1>1. ASSUME NEW b \in Attempts, b # a PROVE ~Working(b)' /\ Builds(b)'
  <2>1. ~Working(b) /\ attempt'[b] = attempt[b]
    BY <1>1 DEF WholeInv, OneAtATime, Step1
  <2>2. ~Working(b)'
    BY <2>1 DEF Working
  <2>3. attempt'[b].pc \notin Building
    BY <2>2 DEF Working, Building
  <2>4. QED
    BY <2>2, <2>3 DEF Builds, PastReddit, PastTwitter, Building
<1>2. OneAtATime'
  BY <1>1 DEF OneAtATime
<1>3. QED
  BY <1>1, <1>2 DEF WholeInv

(* A step that leaves the files. *)
LEMMA QuietStep ==
  ASSUME NEW a \in Attempts, WholeInv, PrepTypeOK, Working(a), Step1(a), SameFiles,
         attempt'[a].config \in {attempt[a].config, FALSE} \/ ~Working(a)',
         state'.config \in {state.config, attempt[a].config},
         attempt'[a].pc \in Building =>
           attempt[a].pc \in Building /\ attempt'[a].config = attempt[a].config,
         attempt'[a].pc \in PastReddit =>
           /\ attempt[a].pc \in PastReddit /\ attempt'[a].entities = attempt[a].entities
           /\ attempt'[a].pc \in PastTwitter => attempt[a].pc \in PastTwitter
  PROVE  WholeInv'
<1>0. Builds(a) /\ Flagged
  BY DEF WholeInv
<1>1. Good <=> Good'
  BY FilesStay DEF SameFiles
<1>2. Flagged'
  BY <1>0, <1>1 DEF Flagged, Builds, SameFiles
<1>3. Working(a)' /\ attempt'[a].config = TRUE => Good'
  BY <1>0, <1>1 DEF Builds
<1>4. ASSUME attempt'[a].pc \in Building
      PROVE  state'.config = FALSE /\ flips' = FALSE /\ attempt'[a].config = FALSE
  BY <1>0, <1>4 DEF Builds, SameFiles
<1>5. ASSUME NEW n \in 1..MaxEntities, attempt'[a].entities = n
      PROVE  /\ attempt'[a].pc \in PastReddit => Profiled("reddit", a, n)'
             /\ attempt'[a].pc \in PastTwitter => Profiled("twitter", a, n)'
  <2>1. attempt'[a].pc \in PastTwitter => attempt'[a].pc \in PastReddit
    BY DEF PastTwitter, PastReddit
  <2>2. attempt'[a].pc \in PastReddit => Profiled("reddit", a, n)
    BY <1>0, <1>5 DEF Builds
  <2>3. attempt'[a].pc \in PastTwitter => Profiled("twitter", a, n)
    BY <1>0, <1>5, <2>1 DEF Builds
  <2>4. QED
    BY <2>2, <2>3, FilesStay DEF SameFiles
<1>6. Builds(a)'
  BY <1>3, <1>4, <1>5 DEF Builds
<1>7. QED
  BY <1>2, <1>6, AloneStep

LEMMA QuietActions ==
  ASSUME PrepTypeOK, RangeInv, WholeInv, NEW a \in Attempts,
         \/ SavesPreparing(a) \/ Begins(a) \/ ReadsEntities(a) \/ PoolEnds(a) \/ SavesCount(a)
         \/ GeneratesTime(a) \/ GeneratesEvents(a) \/ GeneratesBatch(a) \/ SavesReady(a)
         \/ CompletesTask(a) \/ SavesFailed(a) \/ FailsTask(a) \/ SavesFailedAgain(a)
  PROVE  WholeInv'
<1>0. Ranged(attempt[a])
  BY DEF RangeInv
<1>1. CASE SavesPreparing(a)
  BY <1>1, SavesPreparingDoes, QuietStep
  DEF Does, SameConfig, Working, Building, PastReddit
<1>2. CASE Begins(a)
  BY <1>2, BeginsDoes, QuietStep DEF Does, SameConfig, Working, Building, PastReddit
<1>3. CASE ReadsEntities(a)
  BY <1>3, ReadsEntitiesDoes, QuietStep DEF Does, SameConfig, Working, Building, PastReddit
<1>4. CASE PoolEnds(a)
  BY <1>4, PoolEndsDoes, QuietStep DEF Does, SameConfig, Working, Building, PastReddit
<1>5. CASE SavesCount(a)
  BY <1>5, SavesCountDoes, QuietStep DEF Does, SameConfig, Working, Building, PastReddit
<1>6. CASE GeneratesTime(a)
  <2>1. attempt[a].entities \in 1..MaxEntities
    BY <1>0, <1>6 DEF Ranged, Entitled, GeneratesTime
  <2>2. QED
    BY <1>6, <2>1, GeneratesTimeDoes, QuietStep
    DEF Does, SameConfig, Working, Building, PastReddit, PastTwitter
<1>7. CASE GeneratesEvents(a)
  BY <1>7, GeneratesEventsDoes, QuietStep
  DEF Does, SameConfig, Working, Building, PastReddit, PastTwitter
<1>8. CASE GeneratesBatch(a)
  <2>1. PICK b, n : b = attempt[a].batches /\ n = attempt[a].entities
    OBVIOUS
  <2>2. attempt[a].agents = Count(Smaller(b * BatchSize, n))
    BY <1>0, <1>8, <2>1 DEF Ranged, GeneratesBatch
  <2>3. /\ Does(a, "batch", {"batch", "write"}) /\ SameConfig(a) /\ SameFiles
        /\ state'.config = state.config /\ attempt'[a].entities = attempt[a].entities
    BY <1>8, <2>1, <2>2, GeneratesBatchDoes
  <2>4. QED
    BY <2>3, QuietStep DEF Does, SameConfig, Working, Building, PastReddit, PastTwitter
<1>9. CASE SavesReady(a)
  BY <1>9, SavesReadyDoes, QuietStep DEF Does, SameConfig, Working, Building, PastReddit
<1>10. CASE CompletesTask(a)
  BY <1>10, CompletesTaskDoes, QuietStep DEF Does, Working, Building, PastReddit
<1>11. CASE SavesFailed(a)
  BY <1>11, SavesFailedDoes, QuietStep DEF Does, SameConfig, Working, Building, PastReddit
<1>12. CASE FailsTask(a)
  BY <1>12, FailsTaskDoes, QuietStep DEF Does, SameConfig, Working, Building, PastReddit
<1>13. CASE SavesFailedAgain(a)
  BY <1>13, SavesFailedAgainDoes, QuietStep DEF Does, SameConfig, Working, Building, PastReddit
<1>14. QED
  BY <1>1, <1>2, <1>3, <1>4, <1>5, <1>6, <1>7, <1>8, <1>9, <1>10, <1>11, <1>12, <1>13

(* The flag is taken out of state.json, and no check is about to put it back. *)
LEMMA ResetStep ==
  ASSUME AtomicCheck = TRUE, PrepTypeOK, WholeInv, NEW a \in Attempts, ResetsState(a)
  PROVE  WholeInv'
<1>1. /\ Step1(a) /\ SameFiles /\ attempt[a].pc = "reset" /\ attempt'[a].pc \in {"read", "fail"}
      /\ attempt'[a].config = FALSE /\ flips = FALSE
      /\ attempt'[a].pc = "read" => state'.config = FALSE
      /\ attempt'[a].pc = "fail" => state'.config = state.config
  BY ResetsStateDoes DEF Does
<1>2. Flagged'
  BY <1>1, FilesStay DEF SameFiles, WholeInv, Flagged
<1>3. Builds(a)'
  BY <1>1 DEF Builds, SameFiles, Building, PastReddit, PastTwitter
<1>4. Working(a)
  BY <1>1 DEF Working
<1>5. QED
  BY <1>1, <1>2, <1>3, <1>4, AloneStep

(* Files are written only while nobody can call them prepared. *)
LEMMA WriteStep ==
  ASSUME PrepTypeOK, RangeInv, WholeInv, NEW a \in Attempts,
         SavesRedditJson(a) \/ SavesTwitterCsv(a) \/ WritesConfig(a)
  PROVE  WholeInv'
<1>0. Builds(a) /\ Ranged(attempt[a])
  BY DEF WholeInv, RangeInv
<1>1. PICK n : n = attempt[a].entities
  OBVIOUS
<1>2. CASE SavesRedditJson(a)
  <2>1. /\ Step1(a) /\ attempt[a].pc = "reddit" /\ attempt'[a].pc \in {"twitter", "fail"}
        /\ attempt'[a].config = attempt[a].config /\ attempt'[a].entities = n
        /\ state'.config = state.config /\ flips' = flips
        /\ attempt'[a].pc = "twitter" => Profiled("reddit", a, n)'
    BY <1>1, <1>2, SavesProfilesDo DEF Does, SameConfig, SameRest, Like
  <2>2. state.config = FALSE /\ flips = FALSE /\ attempt[a].config = FALSE
    BY <1>0, <2>1 DEF Builds, Building
  <2>3. Flagged'
    BY <2>1, <2>2 DEF Flagged
  <2>4. Builds(a)'
    BY <2>1, <2>2 DEF Builds, PastTwitter, PastReddit
  <2>5. QED
    BY <2>1, <2>3, <2>4, AloneStep DEF Working
<1>3. CASE SavesTwitterCsv(a)
  <2>1. /\ Step1(a) /\ attempt[a].pc = "twitter" /\ attempt'[a].pc \in {"time", "fail"}
        /\ attempt'[a].config = attempt[a].config /\ attempt'[a].entities = n
        /\ state'.config = state.config /\ flips' = flips /\ files'.reddit = files.reddit
        /\ attempt'[a].pc = "time" => Profiled("twitter", a, n)'
    BY <1>1, <1>3, SavesProfilesDo DEF Does, SameConfig, SameRest, Like
  <2>2. state.config = FALSE /\ flips = FALSE /\ attempt[a].config = FALSE
    BY <1>0, <2>1 DEF Builds, Building
  <2>3. Flagged'
    BY <2>1, <2>2 DEF Flagged
  <2>4. n \in 1..MaxEntities => Profiled("reddit", a, n)'
    <3>1. n \in 1..MaxEntities => Profiled("reddit", a, n)
      BY <1>0, <1>1, <2>1 DEF Builds, PastReddit
    <3>2. files'["reddit"] = files["reddit"]
      BY <2>1
    <3>3. QED
      BY <3>1, <3>2 DEF Profiled
  <2>5. Builds(a)'
    BY <2>1, <2>2, <2>4 DEF Builds, PastTwitter, PastReddit
  <2>6. QED
    BY <2>1, <2>3, <2>5, AloneStep DEF Working
<1>4. CASE WritesConfig(a)
  <2>1. /\ Step1(a) /\ attempt[a].pc = "write" /\ attempt'[a].pc \in {"ready", "fail"}
        /\ state'.config = state.config /\ flips' = flips
        /\ files'.reddit = files.reddit /\ files'.twitter = files.twitter
        /\ attempt'[a].pc = "fail" => attempt'[a].config = attempt[a].config
        /\ attempt'[a].pc = "ready" => files'.config.is = "whole"
        /\ files'.config.of = a /\ files'.config.agents = attempt[a].agents
        /\ files'.config.strays = {}
    BY <1>4, WritesConfigDoes DEF Does, SameConfig
  <2>2. state.config = FALSE /\ flips = FALSE /\ attempt[a].config = FALSE
    BY <1>0, <2>1 DEF Builds, Building
  <2>3. Flagged'
    BY <2>1, <2>2 DEF Flagged
  <2>4. n \in 1..MaxEntities /\ attempt[a].agents = Count(n)
    BY <1>0, <1>1, <2>1 DEF Ranged, Entitled
  <2>5. Profiled("reddit", a, n) /\ Profiled("twitter", a, n)
    BY <1>0, <1>1, <2>1, <2>4 DEF Builds, PastReddit, PastTwitter
  <2>6. Profiled("reddit", a, n)' /\ Profiled("twitter", a, n)'
    <3>1. files'["reddit"] = files["reddit"] /\ files'["twitter"] = files["twitter"]
      BY <2>1
    <3>2. QED
      BY <2>5, <3>1 DEF Profiled
  <2>7. attempt'[a].pc = "ready" => Profiled("config", a, n)'
    BY <2>1, <2>4 DEF Profiled
  <2>8. attempt'[a].pc = "ready" => Good'
    BY <2>1, <2>4, <2>6, <2>7 DEF Good
  <2>9. Builds(a)'
    BY <2>1, <2>2, <2>8 DEF Builds, Building, PastTwitter, PastReddit
  <2>10. QED
    BY <2>1, <2>3, <2>9, AloneStep DEF Working
<1>5. QED
  BY <1>2, <1>3, <1>4

LEMMA CollectStep ==
  ASSUME PrepTypeOK, WholeInv, NEW a \in Attempts, NEW i \in Ids, CollectsProfile(a, i)
  PROVE  WholeInv'
<1>1. /\ PrepTypeOK' /\ attempt' = attempt /\ attempt[a].pc = "profiles" /\ state' = state /\ flips' = flips
  BY CollectsProfileDoes
<1>2. state.config = FALSE /\ flips = FALSE /\ attempt[a].config = FALSE
  BY <1>1 DEF WholeInv, Builds, Building
<1>3. Flagged'
  BY <1>1, <1>2 DEF Flagged
<1>4. Builds(a)'
  BY <1>1, <1>2 DEF Builds, PastTwitter, PastReddit
<1>5. QED
  BY <1>1, <1>3, <1>4, AloneStep DEF Step1, Working

LEMMA NextWhole ==
  ASSUME Overlap = FALSE, AtomicCheck = TRUE,
         PrepTypeOK, RangeInv, WholeInv, [PrepNext]_prepVars
  PROVE  WholeInv'
<1>1. ASSUME NEW a \in Attempts, ThreadStep(a) PROVE WholeInv'
  BY <1>1, QuietActions, ResetStep, WriteStep, CollectStep DEF ThreadStep
<1>2. ASSUME NEW a \in Attempts, NEW force \in BOOLEAN, Request(a, force) PROVE WholeInv'
  <2>1. /\ Step1(a) /\ attempt'[a].pc = "asked" /\ SameFiles /\ state' = state
        /\ attempt'[a].config = state.config /\ \A b \in Attempts : ~Working(b)
    BY <1>2, RequestDoes DEF Does
  <2>2. Good <=> Good'
    BY <2>1, FilesStay DEF SameFiles
  <2>3. Flagged'
    BY <2>1, <2>2 DEF WholeInv, Flagged, SameFiles
  <2>4. ASSUME NEW b \in Attempts, b # a PROVE ~Working(b)'
    <3>1. attempt'[b] = attempt[b] /\ ~Working(b)
      BY <2>1, <2>4 DEF Step1
    <3>2. QED
      BY <3>1 DEF Working
  <2>5. OneAtATime'
    BY <2>4 DEF OneAtATime
  <2>6. ASSUME NEW b \in Attempts PROVE Builds(b)'
    <3>1. CASE b = a
      BY <2>1, <2>2, <3>1 DEF WholeInv, Flagged, Builds, Building, PastReddit, PastTwitter
    <3>2. CASE b # a
      <4>1. ~Working(b)'
        BY <2>4, <3>2
      <4>2. QED
        BY <4>1 DEF Builds, Working, Building, PastReddit, PastTwitter
    <3>3. QED
      BY <3>1, <3>2
  <2>7. QED
    BY <2>3, <2>5, <2>6 DEF WholeInv
<1>3. ASSUME attempt' = attempt, files' = files,
             Flagged', \A a \in Attempts : attempt[a].pc \in Building => state'.config = FALSE /\ flips' = FALSE
      PROVE  WholeInv'
  <2>1. OneAtATime'
    BY <1>3 DEF WholeInv, OneAtATime, Working
  <2>2. ASSUME NEW b \in Attempts PROVE Builds(b)'
    <3>1. Builds(b) /\ (Good <=> Good') /\ (Working(b) <=> Working(b)')
      BY <1>3, FilesStay DEF WholeInv, Working
    <3>2. QED
      BY <1>3, <3>1, FilesStay DEF Builds
  <2>3. QED
    BY <1>3, <2>1, <2>2 DEF WholeInv
<1>4. CASE CheckReads
  <2>1. attempt' = attempt /\ state' = state /\ files' = files /\ state.config = TRUE
    BY <1>4, ChecksDo
  <2>2. Good'
    BY <2>1, FilesStay DEF WholeInv, Flagged
  <2>3. \A a \in Attempts : attempt[a].pc \notin Building
    BY <2>1 DEF WholeInv, Builds
  <2>4. QED
    BY <1>3, <2>1, <2>2, <2>3 DEF Flagged
<1>5. CASE CheckWrites
  <2>1. attempt' = attempt /\ files' = files /\ flips = TRUE /\ flips' = FALSE
    BY <1>5, ChecksDo
  <2>2. Good'
    BY <2>1, FilesStay DEF WholeInv, Flagged
  <2>3. \A a \in Attempts : attempt[a].pc \notin Building
    BY <2>1 DEF WholeInv, Builds
  <2>4. QED
    BY <1>3, <2>1, <2>2, <2>3 DEF Flagged
<1>6. CASE (\E i \in Ids : WorkerStep(i)) \/ UNCHANGED prepVars
  <2>1. attempt' = attempt /\ files' = files /\ state' = state /\ flips' = flips
    BY <1>6, WorkersDo DEF prepVars
  <2>2. Flagged'
    BY <2>1, FilesStay DEF WholeInv, Flagged
  <2>3. QED
    BY <1>3, <2>1, <2>2 DEF WholeInv, Builds
<1>7. CASE ServerRestarts
  <2>1. /\ files' = files /\ flips' = FALSE /\ state'.config = state.config
        /\ \A a \in Attempts : \/ ~Working(a) /\ attempt'[a] = attempt[a]
                               \/ attempt'[a].pc = "dead"
    BY <1>7, RestartDoes
  <2>2. \A a \in Attempts : ~Working(a)'
    BY <2>1 DEF Working
  <2>3. Flagged'
    BY <2>1, FilesStay DEF WholeInv, Flagged
  <2>4. ASSUME NEW a \in Attempts PROVE Builds(a)'
    BY <2>2 DEF Builds, Working, Building, PastReddit, PastTwitter
  <2>5. QED
    BY <2>2, <2>3, <2>4 DEF WholeInv, OneAtATime
<1>8. QED
  BY <1>1, <1>2, <1>4, <1>5, <1>6, <1>7 DEF PrepNext

LEMMA InitWhole == PrepInit => WholeInv
<1> SUFFICES ASSUME PrepInit PROVE WholeInv
  OBVIOUS
<1>1. \A a \in Attempts : attempt[a] = Idle
  BY DEF PrepInit
<1>2. Idle.pc = "idle"
  BY DEF Idle
<1>3. state.config = FALSE /\ flips = FALSE
  BY DEF PrepInit
<1>4. Flagged
  BY <1>3 DEF Flagged
<1>5. \A a \in Attempts : ~Working(a)
  BY <1>1, <1>2 DEF Working
<1>6. ASSUME NEW a \in Attempts PROVE Builds(a)
  BY <1>5 DEF Builds, Working, Building, PastReddit, PastTwitter
<1>7. QED
  BY <1>4, <1>5, <1>6 DEF WholeInv, OneAtATime

LEMMA WholeMeans == PrepTypeOK /\ WholeInv => PreparedIsWhole
<1> SUFFICES ASSUME PrepTypeOK, WholeInv, Prepared
             PROVE  /\ \A name \in DOMAIN files : /\ files[name].is = "whole"
                                                  /\ files[name].of = files.config.of
                    /\ \E n \in 1..MaxEntities :
                         \A name \in DOMAIN files : files[name].agents = Count(n)
                    /\ files.config.strays = {}
  BY DEF PreparedIsWhole
<1>1. Good
  BY DEF Prepared, WholeInv, Flagged, PrepTypeOK, State
<1>2. DOMAIN files = {"reddit", "twitter", "config"}
  BY DEF PrepTypeOK
<1>3. PICK a \in Attempts, n \in 1..MaxEntities :
        /\ \A name \in {"reddit", "twitter", "config"} : Profiled(name, a, n)
        /\ files.config.strays = {}
  BY <1>1 DEF Good
<1>4. files.config.of = a
  BY <1>3 DEF Profiled
<1>5. QED
  BY <1>2, <1>3, <1>4 DEF Profiled

(* While one request is prepared at a time and a check corrects state.json *)
(* before a thread resets it, whoever may say that an environment is       *)
(* prepared has a whole one behind it.                                     *)
THEOREM WholeInvHolds ==
  ASSUME Overlap = FALSE, AtomicCheck = TRUE
  PROVE  PrepSpec => []WholeInv
<1>1. QED
  BY InitTypes, InitRanges, NextRanges, InitWhole, NextWhole, PTL DEF PrepSpec

(* What the check calls prepared is the profiles of both platforms and the *)
(* configuration of one attempt, for the same agents, whatever was         *)
(* prepared before, failed or was cut short (_check_simulation_prepared).  *)
THEOREM PreparedIsWholeHolds ==
  ASSUME Overlap = FALSE, AtomicCheck = TRUE
  PROVE  PrepSpec => []PreparedIsWhole
<1>1. QED
  BY WholeInvHolds, PrepTypesHold, WholeMeans, PTL
=============================================================================
