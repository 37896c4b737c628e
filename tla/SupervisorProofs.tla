-------------------------- MODULE SupervisorProofs --------------------------
(***************************************************************************)
(* Proofs about Supervisor.  An operation is the sequence of steps it has  *)
(* left (todo), so every invariant says what those steps still owe: which  *)
(* profiles they start and stop, that a start is followed by another       *)
(* reconciliation, and which part of a plan has been published so far.     *)
(***************************************************************************)
EXTENDS Supervisor, SequenceTheorems, TLAPS

------------------------------------------------------------------------------
(* The steps of an operation, one by one *)

\* Step i of t, and the five steps of a reconciliation after step n.
IsStep(t, i, d, S) == t[i] = [do |-> d, who |-> S]

IsReconcile(t, n) ==
    /\ IsStep(t, n + 1, "observe", {})
    /\ IsStep(t, n + 2, "mapper", {})
    /\ IsStep(t, n + 3, "host", {})
    /\ IsStep(t, n + 4, "dns", {})
    /\ IsStep(t, n + 5, "save", {})

\* A single step.
LEMMA OneStep ==
    ASSUME NEW d, NEW S, [do |-> d, who |-> S] \in Step
    PROVE  Do(d, S) \in Seq(Step) /\ Len(Do(d, S)) = 1 /\ IsStep(Do(d, S), 1, d, S)
  BY DEF Do, IsStep

\* A step after the steps of t.
LEMMA ThenStep ==
    ASSUME NEW t \in Seq(Step), NEW d, NEW S, [do |-> d, who |-> S] \in Step
    PROVE  /\ t \o Do(d, S) \in Seq(Step)
           /\ Len(t \o Do(d, S)) = Len(t) + 1
           /\ \A i \in 1..Len(t) : (t \o Do(d, S))[i] = t[i]
           /\ IsStep(t \o Do(d, S), Len(t) + 1, d, S)
  BY OneStep, ConcatProperties, LenProperties DEF IsStep

\* The steps of reconcileLocked.
LEMMA AReconcile ==
    /\ Reconcile \in Seq(Step)
    /\ Len(Reconcile) = 5
    /\ Reconcile[1] = [do |-> "observe", who |-> {}]
    /\ Reconcile[2] = [do |-> "mapper", who |-> {}]
    /\ Reconcile[3] = [do |-> "host", who |-> {}]
    /\ Reconcile[4] = [do |-> "dns", who |-> {}]
    /\ Reconcile[5] = [do |-> "save", who |-> {}]
<1> DEFINE steps == <<"observe", "mapper", "host", "dns", "save">>
<1>1. steps[1] = "observe" /\ steps[2] = "mapper" /\ steps[3] = "host" /\ steps[4] = "dns" /\ steps[5] = "save"
  OBVIOUS
<1>2. Reconcile = [i \in 1..5 |-> [do |-> steps[i], who |-> {}]]
  BY DEF Reconcile
<1>3. \A i \in 1..5 : steps[i] \in {"observe", "mapper", "host", "dns", "save"}
  BY <1>1
<1> HIDE DEF steps
<1>4. \A i \in 1..5 : [do |-> steps[i], who |-> {}] \in Step
  BY <1>3 DEF Step
<1>5. Reconcile \in [1..5 -> Step]
  BY <1>2, <1>4
<1>6. Reconcile \in Seq(Step)
  BY <1>5, SeqDef
<1>7. Len(Reconcile) = 5
  <2>1. Len(Reconcile) \in Nat /\ DOMAIN Reconcile = 1..Len(Reconcile)
    BY <1>6, LenProperties
  <2>2. DOMAIN Reconcile = 1..5
    BY <1>2
  <2>3. \A n \in Nat : 1..n = 1..5 => n = 5
    <3> SUFFICES ASSUME NEW n \in Nat, 1..n = 1..5 PROVE n = 5
      OBVIOUS
    <3>1. 5 \in 1..n /\ 6 \notin 1..n
      OBVIOUS
    <3> QED
      BY <3>1
  <2> QED
    BY <2>1, <2>2, <2>3, Zenon
<1> QED
  BY <1>1, <1>2, <1>6, <1>7

\* A reconciliation after the steps of t.
LEMMA ThenReconcile ==
    ASSUME NEW t \in Seq(Step)
    PROVE  /\ t \o Reconcile \in Seq(Step)
           /\ Len(t \o Reconcile) = Len(t) + 5
           /\ \A i \in 1..Len(t) : (t \o Reconcile)[i] = t[i]
           /\ IsReconcile(t \o Reconcile, Len(t))
<1>1. Len(t) \in Nat /\ Reconcile \in Seq(Step) /\ Len(Reconcile) = 5
  BY LenProperties, AReconcile
<1>2. /\ t \o Reconcile \in Seq(Step)
      /\ Len(t \o Reconcile) = Len(t) + Len(Reconcile)
      /\ \A i \in 1..(Len(t) + Len(Reconcile)) :
            (t \o Reconcile)[i] = IF i <= Len(t) THEN t[i] ELSE Reconcile[i - Len(t)]
  BY <1>1, ConcatProperties, Zenon
<1>3. \A i \in 1..5 : (t \o Reconcile)[Len(t) + i] = Reconcile[i]
  <2> TAKE i \in 1..5
  <2>1. Len(t) + i \in 1..(Len(t) + Len(Reconcile)) /\ ~(Len(t) + i <= Len(t)) /\ (Len(t) + i) - Len(t) = i
    BY <1>1
  <2> QED
    BY <1>2, <2>1
<1>4. IsReconcile(t \o Reconcile, Len(t))
  <2> DEFINE u(i) == (t \o Reconcile)[Len(t) + i]
  <2>1. \A i \in 1..5 : u(i) = Reconcile[i]
    BY <1>3
  <2> HIDE DEF u
  <2>2. u(1) = Reconcile[1] /\ u(2) = Reconcile[2] /\ u(3) = Reconcile[3] /\ u(4) = Reconcile[4] /\ u(5) = Reconcile[5]
    BY <2>1
  <2> QED
    BY <2>2, AReconcile, Zenon DEF IsReconcile, IsStep, u
<1> QED
  BY <1>1, <1>2, <1>4

\* The head of steps that are not done.
LEMMA HeadStep ==
    ASSUME NEW t \in Seq(Step), Len(t) # 0
    PROVE  t # <<>> /\ Head(t) = t[1]
  OBVIOUS

\* One step and a reconciliation.
LEMMA StepReconcile ==
    ASSUME NEW d, NEW S, [do |-> d, who |-> S] \in Step
    PROVE  /\ Do(d, S) \o Reconcile \in Seq(Step)
           /\ Len(Do(d, S) \o Reconcile) = 6
           /\ IsStep(Do(d, S) \o Reconcile, 1, d, S)
           /\ IsReconcile(Do(d, S) \o Reconcile, 1)
<1> DEFINE a == Do(d, S)
<1>1. a \in Seq(Step) /\ Len(a) = 1 /\ IsStep(a, 1, d, S)
  BY OneStep, Zenon
<1> HIDE DEF a
<1>2. /\ a \o Reconcile \in Seq(Step)
      /\ Len(a \o Reconcile) = Len(a) + 5
      /\ \A i \in 1..Len(a) : (a \o Reconcile)[i] = a[i]
      /\ IsReconcile(a \o Reconcile, Len(a))
  BY <1>1, ThenReconcile, Zenon
<1>3. /\ a \o Reconcile \in Seq(Step) /\ Len(a \o Reconcile) = 6
      /\ IsStep(a \o Reconcile, 1, d, S) /\ IsReconcile(a \o Reconcile, 1)
  BY <1>1, <1>2 DEF IsStep
<1> QED
  BY <1>3 DEF a

------------------------------------------------------------------------------
(* What the remaining steps owe *)

\* The profiles that the desired state wants to run.
WantedSet == {p \in Profiles : Wanted(p)}

\* The steps of a reconciliation that has begun, each followed by the next.
Publishing == {"mapper", "host", "dns", "save"}

Follows(d) ==
    CASE d = "observe" -> "mapper"
      [] d = "mapper" -> "host"
      [] d = "host" -> "dns"
      [] d = "dns" -> "save"

Before == {"observe", "mapper", "host", "dns"}

\* Steps t, with the profiles W wanted: no wanted profile is forgotten, one that is
\* stopped is started again, only wanted profiles are started, and after a start
\* the plan is built anew.
SoundAt(t, i, W) ==
    /\ t[i].do \in Before => i < Len(t) /\ t[i + 1].do = Follows(t[i].do)
    /\ t[i].do \in Publishing /\ i > 1 => t[i - 1].do \in Before
    /\ t[i].do = "start" =>
          t[i].who \subseteq W /\ \E j \in 1..Len(t) : j > i /\ t[j].do = "observe"
    /\ t[i].do = "stop" =>
          \A p \in t[i].who \cap W :
             \E j \in 1..Len(t) : j > i /\ t[j].do = "start" /\ p \in t[j].who
    /\ t[i].do = "forget" => t[i].who \cap W = {}

Sound(t, W) == \A i \in 1..Len(t) : SoundAt(t, i, W)

\* The tail of sound steps is sound.
LEMMA TailSound ==
    ASSUME NEW t \in Seq(Step), t # <<>>, NEW W, Sound(t, W)
    PROVE  Sound(Tail(t), W)
<1> DEFINE u == Tail(t)
<1>1. /\ Len(t) \in Nat /\ Len(u) \in Nat /\ Len(u) = Len(t) - 1
      /\ \A i \in 1..Len(u) : u[i] = t[i + 1] /\ i + 1 \in 1..Len(t)
  BY HeadTailProperties, LenProperties
<1> HIDE DEF u
<1> SUFFICES ASSUME NEW i \in 1..Len(u) PROVE SoundAt(u, i, W)
  BY DEF Sound, u
<1> DEFINE k == i + 1
<1>2. u[i] = t[k] /\ k \in 1..Len(t) /\ k > 1
  BY <1>1
<1>3. u[i].do \in Before => i < Len(u) /\ u[i + 1].do = Follows(u[i].do)
  BY <1>1, <1>2 DEF Sound, SoundAt
<1>4. u[i].do \in Publishing /\ i > 1 => u[i - 1].do \in Before
  <2> SUFFICES ASSUME u[i].do \in Publishing, i > 1 PROVE u[i - 1].do \in Before
    OBVIOUS
  <2>1. u[i - 1] = t[i] /\ k - 1 = i
    BY <1>1
  <2> QED
    BY <1>2, <2>1 DEF Sound, SoundAt
<1>5. \A j \in 1..Len(t) : j > k => j - 1 \in 1..Len(u) /\ j - 1 > i /\ u[j - 1] = t[j]
  <2> TAKE j \in 1..Len(t)
  <2> HAVE j > k
  <2>1. j - 1 \in 1..Len(u) /\ j - 1 > i /\ (j - 1) + 1 = j
    BY <1>1, <1>2
  <2> QED
    BY <1>1, <2>1
<1>6. u[i].do = "start" =>
         u[i].who \subseteq W /\ \E j \in 1..Len(u) : j > i /\ u[j].do = "observe"
  <2> SUFFICES ASSUME u[i].do = "start"
               PROVE  u[i].who \subseteq W /\ \E j \in 1..Len(u) : j > i /\ u[j].do = "observe"
    OBVIOUS
  <2>1. t[k].who \subseteq W /\ \E j \in 1..Len(t) : j > k /\ t[j].do = "observe"
    BY <1>2 DEF Sound, SoundAt
  <2> QED
    BY <1>2, <1>5, <2>1
<1>7. u[i].do = "stop" =>
         \A p \in u[i].who \cap W :
            \E j \in 1..Len(u) : j > i /\ u[j].do = "start" /\ p \in u[j].who
  <2> SUFFICES ASSUME u[i].do = "stop", NEW p \in u[i].who \cap W
               PROVE  \E j \in 1..Len(u) : j > i /\ u[j].do = "start" /\ p \in u[j].who
    OBVIOUS
  <2>1. \E j \in 1..Len(t) : j > k /\ t[j].do = "start" /\ p \in t[j].who
    BY <1>2 DEF Sound, SoundAt
  <2> QED
    BY <1>5, <2>1
<1>8. u[i].do = "forget" => u[i].who \cap W = {}
  BY <1>2 DEF Sound, SoundAt
<1> QED
  BY <1>3, <1>4, <1>6, <1>7, <1>8 DEF SoundAt

\* A reconciliation within t is sound by itself.
LEMMA ReconcileSound ==
    ASSUME NEW t \in Seq(Step), NEW W, NEW n \in Nat, IsReconcile(t, n),
           NEW first \in Nat, NEW last \in Nat, first = n + 1, last = n + 5, last <= Len(t)
    PROVE  \A i \in first..last : SoundAt(t, i, W)
<1>1. Len(t) \in Nat
  BY LenProperties
<1>2. /\ t[n + 1].do = "observe" /\ t[n + 1].who = {}
      /\ t[n + 2].do = "mapper" /\ t[n + 2].who = {}
      /\ t[n + 3].do = "host" /\ t[n + 3].who = {}
      /\ t[n + 4].do = "dns" /\ t[n + 4].who = {}
      /\ t[n + 5].do = "save" /\ t[n + 5].who = {}
  BY DEF IsReconcile, IsStep
<1> TAKE i \in first..last
<1>3. i = n + 1 \/ i = n + 2 \/ i = n + 3 \/ i = n + 4 \/ i = n + 5
  OBVIOUS
<1>4. CASE i = n + 1
  BY <1>1, <1>2, <1>4 DEF SoundAt, Before, Publishing, Follows
<1>5. CASE i = n + 2
  <2>1. i - 1 = n + 1 /\ i + 1 = n + 3 /\ i < Len(t)
    BY <1>1, <1>5
  <2> QED
    BY <1>2, <1>5, <2>1 DEF SoundAt, Before, Publishing, Follows
<1>6. CASE i = n + 3
  <2>1. i - 1 = n + 2 /\ i + 1 = n + 4 /\ i < Len(t)
    BY <1>1, <1>6
  <2> QED
    BY <1>2, <1>6, <2>1 DEF SoundAt, Before, Publishing, Follows
<1>7. CASE i = n + 4
  <2>1. i - 1 = n + 3 /\ i + 1 = n + 5 /\ i < Len(t)
    BY <1>1, <1>7
  <2> QED
    BY <1>2, <1>7, <2>1 DEF SoundAt, Before, Publishing, Follows
<1>8. CASE i = n + 5
  <2>1. i - 1 = n + 4
    BY <1>1, <1>8
  <2> QED
    BY <1>2, <1>8, <2>1 DEF SoundAt, Before, Publishing, Follows
<1> QED
  BY <1>3, <1>4, <1>5, <1>6, <1>7, <1>8

\* The steps of an operation that begins, with W wanted and the profiles S started
\* or stopped: they are sound and have a plan built.
Begins(t, W, S) ==
    /\ t \in Seq(Step)
    /\ t # <<>>
    /\ Head(t).do \notin Publishing
    /\ \E i \in 1..Len(t) : t[i].do = "observe"
    /\ Sound(t, W)
    /\ \A p \in S : \E i \in 1..Len(t) : t[i].do \in {"start", "stop"} /\ p \in t[i].who

\* What t stops is unwanted, and a reconciliation goes before it.
StopsLate(t, W) ==
    \A i \in 1..Len(t) :
       t[i].do = "stop" => t[i].who \cap W = {} /\ i > 1 /\ t[i - 1].do = "save"

\* A reconciliation alone.
LEMMA PlainSteps == ASSUME NEW W PROVE Begins(Reconcile, W, {})
<1> DEFINE t == Reconcile
<1>1. t \in Seq(Step) /\ Len(t) = 5 /\ IsReconcile(t, 0)
  <2>1. 0 + 1 = 1 /\ 0 + 2 = 2 /\ 0 + 3 = 3 /\ 0 + 4 = 4 /\ 0 + 5 = 5
    OBVIOUS
  <2> QED
    BY AReconcile, <2>1, Zenon DEF IsReconcile, IsStep
<1>2. t[1] = [do |-> "observe", who |-> {}]
  BY AReconcile
<1> HIDE DEF t
<1>3. Sound(t, W)
  <2>1. 0 \in Nat /\ 1 \in Nat /\ 5 \in Nat /\ 1 = 0 + 1 /\ 5 = 0 + 5 /\ 5 <= Len(t)
    BY <1>1
  <2>2. \A i \in 1..5 : SoundAt(t, i, W)
    BY <1>1, <2>1, ReconcileSound, Zenon
  <2> QED
    BY <1>1, <2>2 DEF Sound
<1>4. t # <<>> /\ Head(t) = t[1]
  <2>1. Len(t) # 0
    BY <1>1
  <2> QED
    BY <1>1, <2>1, HeadStep, Zenon
<1>5. Begins(t, W, {})
  BY <1>1, <1>2, <1>3, <1>4 DEF Begins, Publishing
<1> QED
  BY <1>5 DEF t

\* A start of wanted profiles, then a reconciliation.
LEMMA StartSteps ==
    ASSUME NEW W, NEW S \in SUBSET Profiles, S \subseteq W
    PROVE  Begins(Do("start", S) \o Reconcile, W, S)
<1> DEFINE t == Do("start", S) \o Reconcile
<1>1. [do |-> "start", who |-> S] \in Step
  BY DEF Step
<1>2. t \in Seq(Step) /\ Len(t) = 6 /\ IsStep(t, 1, "start", S) /\ IsReconcile(t, 1)
  BY <1>1, StepReconcile, Zenon
<1> HIDE DEF t
<1>3. t[1].do = "start" /\ t[1].who = S /\ t[2].do = "observe"
  BY <1>2 DEF IsReconcile, IsStep
<1>4. \A i \in 2..6 : SoundAt(t, i, W)
  <2>1. 1 \in Nat /\ 2 \in Nat /\ 6 \in Nat /\ 2 = 1 + 1 /\ 6 = 1 + 5 /\ 6 <= Len(t)
    BY <1>2
  <2> QED
    BY <1>2, <2>1, ReconcileSound, Zenon
<1>5. SoundAt(t, 1, W)
  BY <1>2, <1>3 DEF SoundAt, Before, Publishing
<1>6. Sound(t, W)
  BY <1>2, <1>4, <1>5 DEF Sound
<1>7. t # <<>> /\ Head(t) = t[1]
  <2>1. Len(t) # 0
    BY <1>2
  <2> QED
    BY <1>2, <2>1, HeadStep, Zenon
<1>8. Begins(t, W, S)
  BY <1>2, <1>3, <1>6, <1>7 DEF Begins, Publishing
<1> QED
  BY <1>8 DEF t

\* A stop of unwanted profiles, then a reconciliation.
LEMMA StopSteps ==
    ASSUME NEW W, NEW S \in SUBSET Profiles, S \cap W = {}
    PROVE  Begins(Do("stop", S) \o Reconcile, W, S)
<1> DEFINE t == Do("stop", S) \o Reconcile
<1>1. [do |-> "stop", who |-> S] \in Step
  BY DEF Step
<1>2. t \in Seq(Step) /\ Len(t) = 6 /\ IsStep(t, 1, "stop", S) /\ IsReconcile(t, 1)
  BY <1>1, StepReconcile, Zenon
<1> HIDE DEF t
<1>3. t[1].do = "stop" /\ t[1].who = S /\ t[2].do = "observe"
  BY <1>2 DEF IsReconcile, IsStep
<1>4. \A i \in 2..6 : SoundAt(t, i, W)
  <2>1. 1 \in Nat /\ 2 \in Nat /\ 6 \in Nat /\ 2 = 1 + 1 /\ 6 = 1 + 5 /\ 6 <= Len(t)
    BY <1>2
  <2> QED
    BY <1>2, <2>1, ReconcileSound, Zenon
<1>5. SoundAt(t, 1, W)
  BY <1>2, <1>3 DEF SoundAt, Before, Publishing
<1>6. Sound(t, W)
  BY <1>2, <1>4, <1>5 DEF Sound
<1>7. t # <<>> /\ Head(t) = t[1]
  <2>1. Len(t) # 0
    BY <1>2
  <2> QED
    BY <1>2, <2>1, HeadStep, Zenon
<1>8. Begins(t, W, S)
  BY <1>2, <1>3, <1>6, <1>7 DEF Begins, Publishing
<1> QED
  BY <1>8 DEF t

\* SetDaemonUp: unwanted profiles stop, wanted ones start, then a reconciliation.
LEMMA UpSteps ==
    ASSUME NEW W, NEW A \in SUBSET Profiles, A \cap W = {},
           NEW B \in SUBSET Profiles, B \subseteq W
    PROVE  Begins(Do("stop", A) \o Do("start", B) \o Reconcile, W, A \cup B)
<1> DEFINE u == Do("stop", A) \o Do("start", B)
           t == u \o Reconcile
<1>1. [do |-> "stop", who |-> A] \in Step /\ [do |-> "start", who |-> B] \in Step
  BY DEF Step
<1>2. u \in Seq(Step) /\ Len(u) = 2 /\ IsStep(u, 1, "stop", A) /\ IsStep(u, 2, "start", B)
  BY <1>1, OneStep, ThenStep DEF IsStep
<1> HIDE DEF u
<1>3. /\ t \in Seq(Step) /\ Len(t) = 7 /\ IsReconcile(t, 2)
      /\ IsStep(t, 1, "stop", A) /\ IsStep(t, 2, "start", B)
  <2>1. /\ t \in Seq(Step)
        /\ Len(t) = Len(u) + 5
        /\ \A i \in 1..Len(u) : t[i] = u[i]
        /\ IsReconcile(t, Len(u))
    BY <1>2, ThenReconcile, Zenon
  <2> HIDE DEF t
  <2> QED
    BY <1>2, <2>1 DEF IsStep
<1> HIDE DEF t
<1>4. /\ t[1].do = "stop" /\ t[1].who = A
      /\ t[2].do = "start" /\ t[2].who = B
      /\ t[3].do = "observe"
  BY <1>3 DEF IsReconcile, IsStep
<1>5. \A i \in 3..7 : SoundAt(t, i, W)
  <2>1. 2 \in Nat /\ 3 \in Nat /\ 7 \in Nat /\ 3 = 2 + 1 /\ 7 = 2 + 5 /\ 7 <= Len(t)
    BY <1>3
  <2> QED
    BY <1>3, <2>1, ReconcileSound, Zenon
<1>6. SoundAt(t, 1, W) /\ SoundAt(t, 2, W)
  BY <1>3, <1>4 DEF SoundAt, Before, Publishing
<1>7. Sound(t, W)
  BY <1>3, <1>5, <1>6 DEF Sound
<1>8. t # <<>> /\ Head(t) = t[1]
  <2>1. Len(t) # 0
    BY <1>3
  <2> QED
    BY <1>3, <2>1, HeadStep, Zenon
<1>9. \A p \in A \cup B : \E i \in 1..Len(t) : t[i].do \in {"start", "stop"} /\ p \in t[i].who
  BY <1>3, <1>4
<1>10. Begins(t, W, A \cup B)
  BY <1>3, <1>4, <1>7, <1>8, <1>9 DEF Begins, Publishing
<1> QED
  BY <1>10 DEF t, u

\* A restart: stop, reconcile, start, reconcile.
LEMMA RestartSteps ==
    ASSUME NEW W, NEW S \in SUBSET Profiles, S \subseteq W
    PROVE  Begins(Do("stop", S) \o Reconcile \o Do("start", S) \o Reconcile, W, S)
<1> DEFINE u == Do("stop", S) \o Reconcile
           v == u \o Do("start", S)
           t == v \o Reconcile
<1>1. [do |-> "stop", who |-> S] \in Step /\ [do |-> "start", who |-> S] \in Step
  BY DEF Step
<1>2. u \in Seq(Step) /\ Len(u) = 6 /\ IsStep(u, 1, "stop", S) /\ IsReconcile(u, 1)
  BY <1>1, StepReconcile, Zenon
<1> HIDE DEF u
<1>3. v \in Seq(Step) /\ Len(v) = 7 /\ (\A i \in 1..6 : v[i] = u[i]) /\ IsStep(v, 7, "start", S)
  <2>1. /\ v \in Seq(Step)
        /\ Len(v) = Len(u) + 1
        /\ \A i \in 1..Len(u) : v[i] = u[i]
        /\ IsStep(v, Len(u) + 1, "start", S)
    BY <1>1, <1>2, ThenStep, Zenon
  <2> HIDE DEF v
  <2> QED
    BY <1>2, <2>1
<1> HIDE DEF v
<1>4. t \in Seq(Step) /\ Len(t) = 12 /\ (\A i \in 1..7 : t[i] = v[i]) /\ IsReconcile(t, 7)
  <2>1. /\ t \in Seq(Step)
        /\ Len(t) = Len(v) + 5
        /\ \A i \in 1..Len(v) : t[i] = v[i]
        /\ IsReconcile(t, Len(v))
    BY <1>3, ThenReconcile, Zenon
  <2> HIDE DEF t
  <2> QED
    BY <1>3, <2>1
<1> HIDE DEF t
<1>5. /\ IsStep(t, 1, "stop", S) /\ IsStep(t, 7, "start", S)
      /\ IsReconcile(t, 1)
  BY <1>2, <1>3, <1>4 DEF IsStep, IsReconcile
<1>6. /\ t[1].do = "stop" /\ t[1].who = S
      /\ t[7].do = "start" /\ t[7].who = S
      /\ t[8].do = "observe"
  BY <1>4, <1>5 DEF IsReconcile, IsStep
<1>7. (\A i \in 2..6 : SoundAt(t, i, W)) /\ (\A i \in 8..12 : SoundAt(t, i, W))
  <2>1. /\ 1 \in Nat /\ 2 \in Nat /\ 6 \in Nat /\ 2 = 1 + 1 /\ 6 = 1 + 5 /\ 6 <= Len(t)
        /\ 7 \in Nat /\ 8 \in Nat /\ 12 \in Nat /\ 8 = 7 + 1 /\ 12 = 7 + 5 /\ 12 <= Len(t)
    BY <1>4
  <2> QED
    BY <1>4, <1>5, <2>1, ReconcileSound, Zenon
<1>8. SoundAt(t, 1, W) /\ SoundAt(t, 7, W)
  BY <1>4, <1>6 DEF SoundAt, Before, Publishing
<1>9. Sound(t, W)
  BY <1>4, <1>7, <1>8 DEF Sound
<1>10. t # <<>> /\ Head(t) = t[1]
  <2>1. Len(t) # 0
    BY <1>4
  <2> QED
    BY <1>4, <2>1, HeadStep, Zenon
<1>11. Begins(t, W, S)
  BY <1>4, <1>6, <1>9, <1>10 DEF Begins, Publishing
<1> QED
  BY <1>11 DEF t, u, v

\* A reconciliation and a stop of unwanted profiles: the common start of disabling
\* and of removing.
LEMMA ReconcileStop ==
    ASSUME NEW S \in SUBSET Profiles
    PROVE  /\ Reconcile \o Do("stop", S) \in Seq(Step)
           /\ Len(Reconcile \o Do("stop", S)) = 6
           /\ IsReconcile(Reconcile \o Do("stop", S), 0)
           /\ IsStep(Reconcile \o Do("stop", S), 6, "stop", S)
<1> DEFINE r == Reconcile
           u == r \o Do("stop", S)
<1>1. [do |-> "stop", who |-> S] \in Step
  BY DEF Step
<1>2. r \in Seq(Step) /\ Len(r) = 5 /\ IsReconcile(r, 0)
  <2>1. 0 + 1 = 1 /\ 0 + 2 = 2 /\ 0 + 3 = 3 /\ 0 + 4 = 4 /\ 0 + 5 = 5
    OBVIOUS
  <2> QED
    BY AReconcile, <2>1, Zenon DEF IsReconcile, IsStep
<1> HIDE DEF r
<1>3. /\ u \in Seq(Step)
      /\ Len(u) = Len(r) + 1
      /\ \A i \in 1..Len(r) : u[i] = r[i]
      /\ IsStep(u, Len(r) + 1, "stop", S)
  BY <1>1, <1>2, ThenStep, Zenon
<1> HIDE DEF u
<1>4. Len(u) = 6 /\ IsStep(u, 6, "stop", S) /\ IsReconcile(u, 0)
  BY <1>2, <1>3 DEF IsReconcile, IsStep
<1> QED
  BY <1>3, <1>4 DEF u, r

\* Disabling: reconcile, stop, reconcile.
LEMMA DisableSteps ==
    ASSUME NEW W, NEW S \in SUBSET Profiles, S \cap W = {}
    PROVE  /\ Begins(Reconcile \o Do("stop", S) \o Reconcile, W, S)
           /\ StopsLate(Reconcile \o Do("stop", S) \o Reconcile, W)
<1> DEFINE u == Reconcile \o Do("stop", S)
           t == u \o Reconcile
<1>1. u \in Seq(Step) /\ Len(u) = 6 /\ IsReconcile(u, 0) /\ IsStep(u, 6, "stop", S)
  BY ReconcileStop, Zenon
<1> HIDE DEF u
<1>2. t \in Seq(Step) /\ Len(t) = 11 /\ (\A i \in 1..6 : t[i] = u[i]) /\ IsReconcile(t, 6)
  <2>1. /\ t \in Seq(Step)
        /\ Len(t) = Len(u) + 5
        /\ \A i \in 1..Len(u) : t[i] = u[i]
        /\ IsReconcile(t, Len(u))
    BY <1>1, ThenReconcile, Zenon
  <2> HIDE DEF t
  <2> QED
    BY <1>1, <2>1
<1> HIDE DEF t
<1>3. IsReconcile(t, 0) /\ IsStep(t, 6, "stop", S)
  BY <1>1, <1>2 DEF IsStep, IsReconcile
<1>4. /\ t[1].do = "observe" /\ t[2].do = "mapper" /\ t[3].do = "host" /\ t[4].do = "dns"
      /\ t[5].do = "save" /\ t[6].do = "stop" /\ t[6].who = S
      /\ t[7].do = "observe" /\ t[8].do = "mapper" /\ t[9].do = "host" /\ t[10].do = "dns"
      /\ t[11].do = "save"
  BY <1>2, <1>3 DEF IsReconcile, IsStep
<1>5. (\A i \in 1..5 : SoundAt(t, i, W)) /\ (\A i \in 7..11 : SoundAt(t, i, W))
  <2>1. /\ 0 \in Nat /\ 1 \in Nat /\ 5 \in Nat /\ 1 = 0 + 1 /\ 5 = 0 + 5 /\ 5 <= Len(t)
        /\ 6 \in Nat /\ 7 \in Nat /\ 11 \in Nat /\ 7 = 6 + 1 /\ 11 = 6 + 5 /\ 11 <= Len(t)
    BY <1>2
  <2> QED
    BY <1>2, <1>3, <2>1, ReconcileSound, Zenon
<1>6. SoundAt(t, 6, W)
  BY <1>2, <1>4 DEF SoundAt, Before, Publishing
<1>7. Sound(t, W)
  BY <1>2, <1>5, <1>6 DEF Sound
<1>8. t # <<>> /\ Head(t) = t[1]
  <2>1. Len(t) # 0
    BY <1>2
  <2> QED
    BY <1>2, <2>1, HeadStep, Zenon
<1>9. Begins(t, W, S)
  BY <1>2, <1>4, <1>7, <1>8 DEF Begins, Publishing
<1>10. StopsLate(t, W)
  <2>1. \A i \in 1..11 : t[i].do = "stop" => i = 6
    BY <1>4
  <2> QED
    BY <1>2, <1>4, <2>1 DEF StopsLate
<1> QED
  BY <1>9, <1>10 DEF t, u

\* Removing: reconcile, stop, and with a purge forget.
LEMMA RemoveSteps ==
    ASSUME NEW W, NEW S \in SUBSET Profiles, S \cap W = {}, NEW purge \in BOOLEAN
    PROVE  LET t == Reconcile \o Do("stop", S) \o IF purge THEN Do("forget", S) ELSE <<>>
           IN Begins(t, W, S) /\ StopsLate(t, W)
<1> DEFINE u == Reconcile \o Do("stop", S)
           t == u \o IF purge THEN Do("forget", S) ELSE <<>>
<1>1. u \in Seq(Step) /\ Len(u) = 6 /\ IsReconcile(u, 0) /\ IsStep(u, 6, "stop", S)
  BY ReconcileStop, Zenon
<1>2. [do |-> "forget", who |-> S] \in Step
  BY DEF Step
<1> HIDE DEF u
<1>3. /\ t \in Seq(Step)
      /\ Len(t) = IF purge THEN 7 ELSE 6
      /\ \A i \in 1..6 : t[i] = u[i]
      /\ purge => IsStep(t, 7, "forget", S)
  <2>1. CASE purge
    <3> DEFINE v == u \o Do("forget", S)
    <3>1. /\ v \in Seq(Step)
          /\ Len(v) = Len(u) + 1
          /\ \A i \in 1..Len(u) : v[i] = u[i]
          /\ IsStep(v, Len(u) + 1, "forget", S)
      BY <1>1, <1>2, ThenStep, Zenon
    <3>2. t = v
      BY <2>1
    <3> HIDE DEF v, t
    <3> QED
      BY <1>1, <2>1, <3>1, <3>2
  <2>2. CASE ~purge
    <3>1. t = u
      BY <1>1, <2>2, ConcatEmptySeq
    <3> HIDE DEF t
    <3> QED
      BY <1>1, <2>2, <3>1
  <2> QED
    BY <2>1, <2>2
<1> HIDE DEF t
<1>4. IsReconcile(t, 0) /\ IsStep(t, 6, "stop", S)
  <2>1. t[1] = u[1] /\ t[2] = u[2] /\ t[3] = u[3] /\ t[4] = u[4] /\ t[5] = u[5] /\ t[6] = u[6]
    BY <1>3
  <2>2. 0 + 1 = 1 /\ 0 + 2 = 2 /\ 0 + 3 = 3 /\ 0 + 4 = 4 /\ 0 + 5 = 5
    OBVIOUS
  <2> QED
    BY <1>1, <2>1, <2>2, Zenon DEF IsStep, IsReconcile
<1>5. /\ t[1].do = "observe" /\ t[2].do = "mapper" /\ t[3].do = "host" /\ t[4].do = "dns"
      /\ t[5].do = "save" /\ t[6].do = "stop" /\ t[6].who = S
      /\ purge => t[7].do = "forget" /\ t[7].who = S
  BY <1>3, <1>4 DEF IsReconcile, IsStep
<1>6. \A i \in 1..5 : SoundAt(t, i, W)
  <2>1. 0 \in Nat /\ 1 \in Nat /\ 5 \in Nat /\ 1 = 0 + 1 /\ 5 = 0 + 5 /\ 5 <= Len(t)
    BY <1>3
  <2> QED
    BY <1>3, <1>4, <2>1, ReconcileSound, Zenon
<1>7. SoundAt(t, 6, W) /\ (purge => SoundAt(t, 7, W))
  BY <1>3, <1>5 DEF SoundAt, Before, Publishing
<1>8. Sound(t, W)
  BY <1>3, <1>6, <1>7 DEF Sound
<1>9. t # <<>> /\ Head(t) = t[1]
  <2>1. Len(t) # 0
    BY <1>3
  <2> QED
    BY <1>3, <2>1, HeadStep, Zenon
<1>10. Begins(t, W, S)
  <2>1. 1 \in 1..Len(t) /\ 6 \in 1..Len(t)
    BY <1>3
  <2> QED
    BY <1>3, <1>5, <1>8, <1>9, <2>1 DEF Begins, Publishing
<1>11. StopsLate(t, W)
  <2>1. \A i \in 1..Len(t) : t[i].do = "stop" => i = 6
    BY <1>3, <1>5
  <2> QED
    BY <1>5, <2>1 DEF StopsLate
<1> QED
  BY <1>10, <1>11 DEF t, u

------------------------------------------------------------------------------
(* Types *)

\* Status versions and the plans built from them.
LEMMA PlanType ==
    ASSUME NEW S \in SUBSET Profiles, ver \in [Profiles -> 0..MaxChanges]
    PROVE  [p \in S |-> ver[p]] \in Plan
<1>1. [p \in S |-> ver[p]] \in [S -> 0..MaxChanges]
  OBVIOUS
<1> QED
  BY <1>1 DEF Plan

LEMMA NoPlanType == NoPlan \in Plan
<1>1. NoPlan \in [{} -> 0..MaxChanges]
  BY DEF NoPlan
<1> QED
  BY <1>1 DEF Plan

\* The remaining steps after the one that is done.
LEMMA TailType == ASSUME NEW t \in Seq(Step), t # <<>> PROVE Tail(t) \in Seq(Step) /\ Head(t) \in Step
  BY HeadTailProperties

\* What SupTypeOK says of the operation that runs.
OpType == todo \in Seq(Step) /\ op \in Operation /\ reply \in [op : Operation, ok : BOOLEAN]

LEMMA NothingType == Nothing \in Operation /\ Nothing.name = "none"
  BY DEF Nothing, Operation

\* An operation begins.
LEMMA BeginType ==
    ASSUME NEW name \in AllRequests \cup {"boot", "update"}, NEW S \in SUBSET Profiles, NEW t \in Seq(Step),
           BeginOp(name, S, t), SupTypeOK
    PROVE  OpType' /\ op'.name = name /\ op' # Nothing /\ slipped' \subseteq Profiles
<1>1. op' \in Operation /\ op'.name = name
  BY DEF BeginOp, Operation
<1>2. op' # Nothing
  BY <1>1, NothingType DEF AllRequests
<1>3. reply' \in [op : Operation, ok : BOOLEAN]
  BY NothingType DEF BeginOp
<1> QED
  BY <1>1, <1>2, <1>3 DEF BeginOp, OpType, SupTypeOK

------------------------------------------------------------------------------
(* The inductive invariant *)

\* The profiles a plan is to route.
Routed == runtimes \cap WantedSet

\* Mapper, host and DNS have one plan, and it is the current one.
Published == mapper = host /\ host = dns /\ DOMAIN mapper = Routed

\* No part of a reconciliation is left.
Reconciled == \A i \in 1..Len(todo) : todo[i].do \notin {"observe"} \cup Publishing

At(D) == todo # <<>> /\ Head(todo).do \in D

\* What the reconciliation that is under way has published, and what the last one
\* has left.
PlanInv ==
    /\ At(Publishing) => DOMAIN obs = Routed
    /\ At({"host", "dns", "save"}) => mapper = obs
    /\ At({"dns", "save"}) => host = obs
    /\ At({"save"}) => dns = obs
    /\ Reconciled /\ ~err => Published

\* The operation has still to start or to stop p.
Owes(p) == \E i \in 1..Len(todo) : todo[i].do \in {"start", "stop"} /\ p \in todo[i].who

\* A profile that is owed nothing and has not slipped runs if and only if it is wanted.
RunInv == \A p \in Profiles : p \in slipped \/ Owes(p) \/ (p \in runtimes <=> p \in WantedSet)

\* Disabling and removing stop what the plan has left out.
StopInv ==
    op.name \in {"disable", "remove"} =>
       \A i \in 1..Len(todo) : todo[i].do = "stop" =>
          /\ todo[i].who \cap WantedSet = {}
          /\ IF i = 1 THEN Published ELSE todo[i - 1].do = "save"

SupInv ==
    /\ SupTypeOK
    /\ op = Nothing => todo = <<>>
    /\ proc = "off" => op = Nothing /\ runtimes = {}
    /\ Sound(todo, WantedSet)
    /\ PlanInv
    /\ StopInv
    /\ proc # "off" => RunInv

\* An operation begins that starts or stops the profiles S.
Begun(S) ==
    /\ OpType'
    /\ op' # Nothing
    /\ slipped' \subseteq Profiles
    /\ life' \in [Profiles -> {"absent", "enabled", "disabled", "removed"}]
    /\ down' \in BOOLEAN
    /\ UNCHANGED <<runtimes, ver, plans, err>>
    /\ Begins(todo', WantedSet', S)
    /\ op'.name \in {"disable", "remove"} => StopsLate(todo', WantedSet')
    /\ \A p \in Profiles \ S : p \in slipped' \/ (p \in runtimes <=> p \in WantedSet')

\* A request begins with the parts that Request shares.
LEMMA RequestBegun ==
    ASSUME SupInv, NEW name, NEW S \in SUBSET Profiles, NEW t, NEW T,
           Request(name, S, t),
           life' \in [Profiles -> {"absent", "enabled", "disabled", "removed"}], down' \in BOOLEAN,
           Begins(t, WantedSet', T),
           name \in {"disable", "remove"} => StopsLate(t, WantedSet'),
           \A p \in Profiles \ T : p \in slipped' \/ (p \in runtimes <=> p \in WantedSet')
    PROVE  Begun(T)
<1>1. name \in AllRequests /\ BeginOp(name, S, t)
  BY SupervisorAssumption DEF Request
<1>2. t \in Seq(Step)
  BY DEF Begins
<1>3. OpType' /\ op'.name = name /\ op' # Nothing /\ slipped' \subseteq Profiles
  BY <1>1, <1>2, BeginType DEF SupInv
<1>4. todo' = t /\ UNCHANGED <<runtimes, ver, plans, err>>
  BY <1>1 DEF BeginOp
<1> QED
  BY <1>3, <1>4 DEF Begun

\* Between operations every profile that has not slipped is as wanted.
LEMMA Quiet ==
    ASSUME SupInv, op = Nothing, proc # "off"
    PROVE  \A p \in Profiles : p \in slipped \/ (p \in runtimes <=> p \in WantedSet)
<1>1. todo = <<>>
  BY DEF SupInv
<1>2. \A p : ~Owes(p)
  BY <1>1 DEF Owes
<1> QED
  BY <1>2 DEF SupInv, RunInv

\* What a request finds.
LEMMA RequestFinds ==
    ASSUME SupInv, NEW name, NEW S, NEW t, Request(name, S, t)
    PROVE  /\ op = Nothing /\ proc = "up" /\ todo = <<>>
           /\ slipped' = IF name \in {"up", "down"} THEN {} ELSE slipped
           /\ UNCHANGED <<proc, runtimes, updates>>
           /\ \A p \in Profiles : p \in slipped \/ (p \in runtimes <=> p \in WantedSet)
<1>1. op = Nothing /\ proc = "up"
  BY DEF Request
<1> QED
  BY <1>1, Quiet DEF SupInv, Request, BeginOp

\* AddProfile
LEMMA AddBegun ==
    ASSUME SupInv, NEW p \in Profiles, NEW b \in BOOLEAN, AddProfile(p, b)
    PROVE  \E S \in SUBSET Profiles : Begun(S)
<1> DEFINE t == IF b THEN Reconcile ELSE Do("start", {p}) \o Reconcile
<1>1. Request("add", {p}, t)
  BY DEF AddProfile
<1> HIDE DEF t
<1>2. /\ slipped' = slipped
      /\ \A q \in Profiles : q \in slipped \/ (q \in runtimes <=> q \in WantedSet)
  BY <1>1, RequestFinds
<1>3. /\ life' \in [Profiles -> {"absent", "enabled", "disabled", "removed"}]
      /\ down' \in BOOLEAN
  BY DEF AddProfile, SupInv, SupTypeOK
<1>4. WantedSet' = IF b THEN WantedSet ELSE WantedSet \cup {p}
  BY DEF AddProfile, SupInv, SupTypeOK, WantedSet, Wanted
<1>5. Begins(t, WantedSet', IF b THEN {} ELSE {p})
  <2>1. CASE b
    BY <2>1, PlainSteps DEF t
  <2>2. CASE ~b
    <3>1. {p} \in SUBSET Profiles /\ {p} \subseteq WantedSet'
      BY <1>4, <2>2
    <3> QED
      BY <2>2, <3>1, StartSteps DEF t
  <2> QED
    BY <2>1, <2>2
<1> DEFINE T == IF b THEN {} ELSE {p}
<1>6. \A q \in Profiles \ T : q \in slipped' \/ (q \in runtimes <=> q \in WantedSet')
  BY <1>2, <1>4
<1>7. Begins(t, WantedSet', T) /\ {p} \in SUBSET Profiles /\ T \in SUBSET Profiles
  BY <1>5
<1> HIDE DEF T
<1>8. Begun(T)
  BY <1>1, <1>3, <1>6, <1>7, RequestBegun
<1> QED
  BY <1>7, <1>8

\* RestartProfile, and a patch that restarts.
LEMMA RestartBegun ==
    ASSUME SupInv, NEW p \in Profiles, NEW name \in {"restart", "patch"},
           ~down, life[p] = "enabled", UNCHANGED desired,
           Request(name, {p}, Do("stop", {p}) \o Reconcile \o Do("start", {p}) \o Reconcile)
    PROVE  Begun({p})
<1> DEFINE t == Do("stop", {p}) \o Reconcile \o Do("start", {p}) \o Reconcile
<1>1. Request(name, {p}, t)
  OBVIOUS
<1>2. {p} \in SUBSET Profiles /\ {p} \subseteq WantedSet'
  BY DEF desired, WantedSet, Wanted
<1>3. Begins(t, WantedSet', {p})
  BY <1>2, RestartSteps
<1> HIDE DEF t
<1>4. slipped' = slipped /\ \A q \in Profiles : q \in slipped \/ (q \in runtimes <=> q \in WantedSet)
  BY <1>1, RequestFinds
<1>5. WantedSet' = WantedSet
  BY DEF desired, WantedSet, Wanted
<1>6. \A q \in Profiles \ {p} : q \in slipped' \/ (q \in runtimes <=> q \in WantedSet')
  BY <1>4, <1>5
<1>7. /\ life' \in [Profiles -> {"absent", "enabled", "disabled", "removed"}]
      /\ down' \in BOOLEAN
  BY DEF desired, SupInv, SupTypeOK
<1> QED
  BY <1>1, <1>2, <1>3, <1>6, <1>7, RequestBegun

\* A request that only reconciles.
LEMMA PlainBegun ==
    ASSUME SupInv, NEW S \in SUBSET Profiles, NEW name \in {"patch", "policy"},
           UNCHANGED desired, Request(name, S, Reconcile)
    PROVE  Begun({})
<1>1. Begins(Reconcile, WantedSet', {})
  BY PlainSteps
<1>2. slipped' = slipped /\ \A q \in Profiles : q \in slipped \/ (q \in runtimes <=> q \in WantedSet)
  BY RequestFinds
<1>3. WantedSet' = WantedSet
  BY DEF desired, WantedSet, Wanted
<1>4. \A q \in Profiles \ {} : q \in slipped' \/ (q \in runtimes <=> q \in WantedSet')
  BY <1>2, <1>3
<1>5. /\ life' \in [Profiles -> {"absent", "enabled", "disabled", "removed"}]
      /\ down' \in BOOLEAN
  BY DEF desired, SupInv, SupTypeOK
<1> QED
  BY <1>1, <1>4, <1>5, RequestBegun

\* RemoveProfile
LEMMA RemoveBegun ==
    ASSUME SupInv, NEW p \in Profiles, NEW b \in BOOLEAN, RemoveProfile(p, b)
    PROVE  Begun({p})
<1> DEFINE t == Reconcile \o Do("stop", {p}) \o IF b THEN Do("forget", {p}) ELSE <<>>
<1>1. Request("remove", {p}, t)
  BY DEF RemoveProfile
<1>2. WantedSet' = WantedSet \ {p}
  BY DEF RemoveProfile, SupInv, SupTypeOK, WantedSet, Wanted
<1>3. {p} \in SUBSET Profiles /\ {p} \cap WantedSet' = {}
  BY <1>2
<1>4. Begins(t, WantedSet', {p}) /\ StopsLate(t, WantedSet')
  BY <1>3, RemoveSteps
<1> HIDE DEF t
<1>5. slipped' = slipped /\ \A q \in Profiles : q \in slipped \/ (q \in runtimes <=> q \in WantedSet)
  BY <1>1, RequestFinds
<1>6. \A q \in Profiles \ {p} : q \in slipped' \/ (q \in runtimes <=> q \in WantedSet')
  BY <1>2, <1>5
<1>7. /\ life' \in [Profiles -> {"absent", "enabled", "disabled", "removed"}]
      /\ down' \in BOOLEAN
  BY DEF RemoveProfile, SupInv, SupTypeOK
<1> QED
  BY <1>1, <1>3, <1>4, <1>6, <1>7, RequestBegun

\* SetProfileEnabled begins, or asks for what already is.
LEMMA EnableBegun ==
    ASSUME SupInv, NEW p \in Profiles, NEW b \in BOOLEAN, SetProfileEnabled(p, b)
    PROVE  \/ Begun({p})
           \/ /\ op = Nothing /\ todo' = <<>> /\ op' # Nothing /\ OpType'
              /\ UNCHANGED <<desired, runtimes, ver, plans, err, slipped>>
<1>0. /\ life' \in [Profiles -> {"absent", "enabled", "disabled", "removed"}]
      /\ down' \in BOOLEAN /\ {p} \in SUBSET Profiles
  BY DEF SetProfileEnabled, SupInv, SupTypeOK
<1>1. CASE life[p] = IF b THEN "enabled" ELSE "disabled"
  <2>1. Request(IF b THEN "enable" ELSE "disable", {p}, <<>>)
    BY <1>1 DEF SetProfileEnabled
  <2>2. life' = life /\ down' = down
    BY <1>1 DEF SetProfileEnabled, SupInv, SupTypeOK
  <2>3. <<>> \in Seq(Step)
    OBVIOUS
  <2> DEFINE nm == IF b THEN "enable" ELSE "disable"
  <2>4. nm \in AllRequests /\ nm \notin {"up", "down"} /\ BeginOp(nm, {p}, <<>>) /\ op = Nothing
    BY <2>1 DEF Request, AllRequests
  <2> HIDE DEF nm
  <2>5. OpType' /\ op' # Nothing
    BY <1>0, <2>3, <2>4, BeginType DEF SupInv
  <2> QED
    BY <2>2, <2>4, <2>5 DEF BeginOp, desired
<1>2. CASE b /\ life[p] # "enabled"
  <2> DEFINE t == Do("start", {p}) \o Reconcile
  <2>1. Request("enable", {p}, t)
    BY <1>2 DEF SetProfileEnabled
  <2>2. WantedSet' = WantedSet \cup {p}
    BY <1>2 DEF SetProfileEnabled, SupInv, SupTypeOK, WantedSet, Wanted
  <2>3. Begins(t, WantedSet', {p})
    BY <1>0, <2>2, StartSteps
  <2> HIDE DEF t
  <2>4. slipped' = slipped /\ \A q \in Profiles : q \in slipped \/ (q \in runtimes <=> q \in WantedSet)
    BY <2>1, RequestFinds
  <2>5. \A q \in Profiles \ {p} : q \in slipped' \/ (q \in runtimes <=> q \in WantedSet')
    BY <2>2, <2>4
  <2> QED
    BY <1>0, <2>1, <2>3, <2>5, RequestBegun
<1>3. CASE ~b /\ life[p] # "disabled"
  <2> DEFINE t == Reconcile \o Do("stop", {p}) \o Reconcile
  <2>1. Request("disable", {p}, t)
    BY <1>3 DEF SetProfileEnabled
  <2>2. WantedSet' = WantedSet \ {p}
    BY <1>3 DEF SetProfileEnabled, SupInv, SupTypeOK, WantedSet, Wanted
  <2>3. {p} \cap WantedSet' = {}
    BY <2>2
  <2>4. Begins(t, WantedSet', {p}) /\ StopsLate(t, WantedSet')
    BY <1>0, <2>3, DisableSteps
  <2> HIDE DEF t
  <2>5. slipped' = slipped /\ \A q \in Profiles : q \in slipped \/ (q \in runtimes <=> q \in WantedSet)
    BY <2>1, RequestFinds
  <2>6. \A q \in Profiles \ {p} : q \in slipped' \/ (q \in runtimes <=> q \in WantedSet')
    BY <2>2, <2>5
  <2> QED
    BY <1>0, <2>1, <2>4, <2>6, RequestBegun
<1> QED
  BY <1>1, <1>2, <1>3

\* SetDaemonUp
LEMMA DaemonBegun ==
    ASSUME SupInv, NEW b \in BOOLEAN, SetDaemonUp(b)
    PROVE  \E S \in SUBSET Profiles : Begun(S)
<1>0. /\ life' \in [Profiles -> {"absent", "enabled", "disabled", "removed"}]
      /\ down' \in BOOLEAN /\ {} \in SUBSET Profiles
      /\ runtimes \in SUBSET Profiles /\ Enabled \in SUBSET Profiles
  BY DEF SetDaemonUp, SupInv, SupTypeOK, Enabled
<1>1. CASE b
  <2> DEFINE A == runtimes \ Enabled
             t == Do("stop", A) \o Do("start", Enabled) \o Reconcile
  <2>1. Request("up", {}, t)
    BY <1>1 DEF SetDaemonUp
  <2>2. WantedSet' = Enabled
    BY <1>1 DEF SetDaemonUp, WantedSet, Wanted, Enabled
  <2>3. A \in SUBSET Profiles /\ A \cap WantedSet' = {} /\ Enabled \subseteq WantedSet'
    BY <1>0, <2>2
  <2>4. Begins(t, WantedSet', A \cup Enabled)
    BY <1>0, <2>3, UpSteps
  <2> DEFINE T == A \cup Enabled
  <2>5. T \in SUBSET Profiles /\ \A q \in Profiles \ T : q \in slipped' \/ (q \in runtimes <=> q \in WantedSet')
    BY <1>0, <2>2, <2>3
  <2>6. Begins(t, WantedSet', T)
    BY <2>4
  <2> HIDE DEF t, T
  <2>7. Begun(T)
    BY <1>0, <2>1, <2>5, <2>6, RequestBegun
  <2> QED
    BY <2>5, <2>7
<1>2. CASE ~b
  <2> DEFINE t == Do("stop", runtimes) \o Reconcile
  <2>1. Request("down", {}, t)
    BY <1>2 DEF SetDaemonUp
  <2>2. WantedSet' = {}
    BY <1>2 DEF SetDaemonUp, WantedSet, Wanted
  <2>3. Begins(t, WantedSet', runtimes)
    BY <1>0, <2>2, StopSteps
  <2> HIDE DEF t
  <2>4. \A q \in Profiles \ runtimes : q \in slipped' \/ (q \in runtimes <=> q \in WantedSet')
    BY <2>2
  <2>5. Begun(runtimes)
    BY <1>0, <2>1, <2>3, <2>4, RequestBegun
  <2> QED
    BY <1>0, <2>5
<1> QED
  BY <1>1, <1>2

\* Run starts what the saved state wants.
LEMMA RunBegun ==
    ASSUME SupInv, Run
    PROVE  \E S \in SUBSET Profiles : Begun(S)
<1> DEFINE S == IF down THEN {} ELSE Enabled
           t == Do("start", S) \o Reconcile
<1>1. BeginOp("boot", {}, t) /\ UNCHANGED desired /\ proc = "off"
  BY DEF Run
<1>2. WantedSet' = S
  BY <1>1 DEF desired, WantedSet, Wanted, Enabled
<1>3. S \in SUBSET Profiles /\ {} \in SUBSET Profiles
  BY DEF Enabled
<1> HIDE DEF S
<1>4. Begins(t, WantedSet', S)
  BY <1>2, <1>3, StartSteps
<1>5. t \in Seq(Step)
  BY <1>4 DEF Begins
<1> HIDE DEF t
<1>6. OpType' /\ op'.name = "boot" /\ op' # Nothing /\ slipped' \subseteq Profiles
  BY <1>1, <1>3, <1>5, BeginType DEF SupInv
<1>7. runtimes = {}
  BY <1>1 DEF SupInv
<1>8. todo' = t /\ UNCHANGED <<runtimes, ver, plans, err>>
  BY <1>1 DEF BeginOp
<1>9. /\ life' \in [Profiles -> {"absent", "enabled", "disabled", "removed"}]
      /\ down' \in BOOLEAN
  BY <1>1 DEF desired, SupInv, SupTypeOK
<1>10. Begun(S)
  BY <1>2, <1>4, <1>6, <1>7, <1>8, <1>9 DEF Begun
<1> QED
  BY <1>3, <1>10

\* An update of a profile that runs reconciles.
LEMMA UpdateBegun ==
    ASSUME SupInv, HandleUpdate, ~UNCHANGED op
    PROVE  Begun({})
<1>1. /\ BeginOp("update", {Head(queue).profile}, Reconcile) /\ UNCHANGED desired
      /\ proc = "up" /\ op = Nothing /\ queue # <<>>
  BY DEF HandleUpdate
<1>2. Head(queue).profile \in Profiles
  <2>1. queue \in Seq([profile : Profiles, err : BOOLEAN])
    BY DEF SupInv, SupTypeOK
  <2>2. Head(queue) \in [profile : Profiles, err : BOOLEAN]
    BY <1>1, <2>1, HeadTailProperties
  <2> QED
    BY <2>2
<1>3. Reconcile \in Seq(Step) /\ {Head(queue).profile} \in SUBSET Profiles
  BY <1>2, AReconcile
<1>4. OpType' /\ op'.name = "update" /\ op' # Nothing /\ slipped' \subseteq Profiles
  BY <1>1, <1>3, BeginType DEF SupInv
<1>5. todo' = Reconcile /\ UNCHANGED <<runtimes, ver, plans, err>> /\ slipped' = slipped
  BY <1>1 DEF BeginOp
<1>6. WantedSet' = WantedSet
  BY <1>1 DEF desired, WantedSet, Wanted
<1>7. \A q \in Profiles : q \in slipped \/ (q \in runtimes <=> q \in WantedSet)
  BY <1>1, Quiet
<1>8. /\ life' \in [Profiles -> {"absent", "enabled", "disabled", "removed"}]
      /\ down' \in BOOLEAN
  BY <1>1 DEF desired, SupInv, SupTypeOK
<1>9. Begins(Reconcile, WantedSet', {})
  BY PlainSteps
<1> QED
  BY <1>4, <1>5, <1>6, <1>7, <1>8, <1>9 DEF Begun

\* The invariant but for the types of what operations leave alone.
Core ==
    /\ op = Nothing => todo = <<>>
    /\ Sound(todo, WantedSet)
    /\ PlanInv
    /\ StopInv
    /\ RunInv

\* An operation that begins has everything still to do.
LEMMA BegunCore ==
    ASSUME SupInv, NEW S, Begun(S)
    PROVE  Core'
<1>1. /\ op' # Nothing
      /\ UNCHANGED <<runtimes, obs, mapper, host, dns, err>>
      /\ Begins(todo', WantedSet', S)
      /\ op'.name \in {"disable", "remove"} => StopsLate(todo', WantedSet')
      /\ \A p \in Profiles \ S : p \in slipped' \/ (p \in runtimes <=> p \in WantedSet')
  BY DEF Begun, plans
<1>2. Sound(todo, WantedSet)'
  BY <1>1 DEF Begins
<1>3. PlanInv'
  <2>1. \A D \in SUBSET Publishing : ~At(D)'
    BY <1>1 DEF Begins, At
  <2>2. ~Reconciled'
    BY <1>1 DEF Begins, Reconciled
  <2>3. {"host", "dns", "save"} \in SUBSET Publishing /\ {"dns", "save"} \in SUBSET Publishing
        /\ {"save"} \in SUBSET Publishing /\ Publishing \in SUBSET Publishing
    BY DEF Publishing
  <2> QED
    BY <2>1, <2>2, <2>3 DEF PlanInv
<1>4. StopInv'
  <2>1. CASE op'.name \in {"disable", "remove"}
    <3>1. \A i \in 1..Len(todo') :
            todo'[i].do = "stop" => todo'[i].who \cap WantedSet' = {} /\ i > 1 /\ todo'[i - 1].do = "save"
      BY <1>1, <2>1 DEF StopsLate
    <3> QED
      BY <3>1 DEF StopInv
  <2> QED
    BY <2>1 DEF StopInv
<1>5. RunInv'
  <2>1. \A p \in S : Owes(p)'
    BY <1>1 DEF Begins, Owes
  <2> QED
    BY <1>1, <2>1 DEF RunInv
<1> QED
  BY <1>1, <1>2, <1>3, <1>4, <1>5 DEF Core

\* The steps that are left once the first is done.
Shift ==
    /\ todo # <<>>
    /\ todo' = Tail(todo)
    /\ Head(todo) = todo[1] /\ Head(todo) \in Step
    /\ 1 \in 1..Len(todo)
    /\ \A i \in 1..Len(todo') : i \in Nat /\ i + 1 \in 1..Len(todo) /\ todo'[i] = todo[i + 1]
    /\ \A i \in 1..Len(todo) : i > 1 => i - 1 \in 1..Len(todo') /\ todo'[i - 1] = todo[i]
    /\ todo' # <<>> => Head(todo') = todo[2] /\ 2 \in 1..Len(todo)

LEMMA Shifts ==
    ASSUME todo \in Seq(Step), todo # <<>>, todo' = Tail(todo)
    PROVE  Shift
<1>1. /\ Head(todo) \in Step /\ todo' \in Seq(Step) /\ Len(todo') = Len(todo) - 1
      /\ \A i \in 1..Len(todo') : todo'[i] = todo[i + 1]
  BY HeadTailProperties
<1>2. Len(todo) \in Nat /\ Len(todo) # 0
  BY LenProperties
<1>3. Head(todo) = todo[1] /\ 1 \in 1..Len(todo)
  BY <1>2, HeadStep
<1>4. \A i \in 1..Len(todo') : i \in Nat /\ i + 1 \in 1..Len(todo) /\ todo'[i] = todo[i + 1]
  BY <1>1, <1>2
<1>5. \A i \in 1..Len(todo) : i > 1 => i - 1 \in 1..Len(todo') /\ todo'[i - 1] = todo[i]
  <2> TAKE i \in 1..Len(todo)
  <2> HAVE i > 1
  <2>1. i - 1 \in 1..Len(todo') /\ (i - 1) + 1 = i
    BY <1>1, <1>2
  <2> QED
    BY <1>4, <2>1
<1>6. todo' # <<>> => Head(todo') = todo[2] /\ 2 \in 1..Len(todo)
  <2> HAVE todo' # <<>>
  <2>1. Len(todo') # 0
    BY <1>1
  <2>2. Head(todo') = todo'[1] /\ 1 \in 1..Len(todo')
    BY <1>1, <1>2, <2>1, HeadStep
  <2>3. 1 + 1 = 2
    OBVIOUS
  <2> QED
    BY <1>4, <2>2, <2>3
<1> QED
  BY <1>1, <1>3, <1>4, <1>5, <1>6 DEF Shift

\* The parts of Core that do not depend on which step is done.
LEMMA ShiftCore ==
    ASSUME SupInv, Shift, WantedSet' = WantedSet, UNCHANGED op
    PROVE  /\ Sound(todo, WantedSet)'
           /\ op' = Nothing => todo' = <<>>
           /\ todo' # <<>> /\ Head(todo).do \in Before => Head(todo').do = Follows(Head(todo).do)
           /\ Head(todo).do \in Before => todo' # <<>>
           /\ Head(todo).do \notin Before => ~At(Publishing)'
           /\ Head(todo).do \notin {"observe"} \cup Publishing /\ Reconciled' => Reconciled
<1>1. WantedSet' = WantedSet
  OBVIOUS
<1>2. todo \in Seq(Step) /\ todo # <<>> /\ todo' = Tail(todo) /\ Sound(todo, WantedSet)
  BY DEF SupInv, SupTypeOK, Shift
<1>3. Sound(todo', WantedSet')
  BY <1>1, <1>2, TailSound
<1>4. op' # Nothing
  BY <1>2 DEF SupInv
<1>5. SoundAt(todo, 1, WantedSet)
  BY <1>2 DEF Shift, Sound
<1>6. Head(todo).do \in Before => 1 < Len(todo) /\ todo[2].do = Follows(Head(todo).do)
  <2>1. 1 + 1 = 2
    OBVIOUS
  <2> QED
    BY <1>5, <2>1 DEF SoundAt, Shift
<1>7. Head(todo).do \in Before => todo' # <<>>
  <2> SUFFICES ASSUME Head(todo).do \in Before PROVE todo' # <<>>
    OBVIOUS
  <2>1. Len(todo) \in Nat /\ 1 < Len(todo)
    BY <1>2, <1>6, LenProperties
  <2>2. 2 \in 1..Len(todo) /\ 2 > 1
    BY <2>1
  <2>3. 2 - 1 \in 1..Len(todo')
    BY <2>2 DEF Shift
  <2> QED
    BY <2>3
<1>8. Head(todo).do \notin Before => ~At(Publishing)'
  <2> SUFFICES ASSUME Head(todo).do \notin Before, todo' # <<>>, Head(todo').do \in Publishing PROVE FALSE
    BY DEF At
  <2>1. 2 \in 1..Len(todo) /\ todo[2].do \in Publishing
    BY DEF Shift
  <2>2. SoundAt(todo, 2, WantedSet)
    BY <1>2, <2>1 DEF Sound
  <2>3. todo[1].do \in Before
    BY <2>1, <2>2 DEF SoundAt
  <2> QED
    BY <2>3 DEF Shift
<1>9. Head(todo).do \notin {"observe"} \cup Publishing /\ Reconciled' => Reconciled
  <2> SUFFICES ASSUME Head(todo).do \notin {"observe"} \cup Publishing, Reconciled', NEW i \in 1..Len(todo)
               PROVE  todo[i].do \notin {"observe"} \cup Publishing
    BY DEF Reconciled
  <2>1. CASE i = 1
    BY <2>1 DEF Shift
  <2>2. CASE i > 1
    BY <2>2 DEF Shift, Reconciled
  <2>3. i = 1 \/ i > 1
    OBVIOUS
  <2> QED
    BY <2>1, <2>2, <2>3
<1> QED
  BY <1>3, <1>4, <1>6, <1>7, <1>8, <1>9 DEF Shift

\* While steps are left the process runs and every part of the invariant holds.
LEMMA Busy == ASSUME SupInv, todo # <<>> PROVE Core /\ op # Nothing /\ proc # "off"
  BY DEF SupInv, Core

\* A step that neither starts nor stops keeps RunInv.
LEMMA ShiftRun ==
    ASSUME RunInv, Shift, WantedSet' = WantedSet, UNCHANGED <<runtimes, slipped>>,
           Head(todo).do \notin {"start", "stop"}
    PROVE  RunInv'
<1> SUFFICES ASSUME NEW p \in Profiles, Owes(p) PROVE Owes(p)'
  BY DEF RunInv
<1> PICK i \in 1..Len(todo) : todo[i].do \in {"start", "stop"} /\ p \in todo[i].who
  BY DEF Owes
<1>1. i # 1
  BY DEF Shift
<1>2. i > 1
  BY <1>1
<1>3. i - 1 \in 1..Len(todo') /\ todo'[i - 1] = todo[i]
  BY <1>2 DEF Shift
<1> QED
  BY <1>3 DEF Owes

\* StopInv needs a published plan when a stop becomes the next step.
LEMMA ShiftStop ==
    ASSUME StopInv, Shift, WantedSet' = WantedSet, UNCHANGED op,
           Head(todo).do = "save" => Published'
    PROVE  StopInv'
<1> SUFFICES ASSUME op.name \in {"disable", "remove"}, NEW i \in 1..Len(todo'), todo'[i].do = "stop"
             PROVE  /\ todo'[i].who \cap WantedSet' = {}
                    /\ IF i = 1 THEN Published' ELSE todo'[i - 1].do = "save"
  BY DEF StopInv
<1> DEFINE j == i + 1
<1>1. j \in 1..Len(todo) /\ todo'[i] = todo[j] /\ j # 1 /\ j - 1 = i
  BY DEF Shift
<1>2. todo[j].who \cap WantedSet = {} /\ todo[i].do = "save"
  BY <1>1 DEF StopInv
<1>3. CASE i = 1
  BY <1>1, <1>2, <1>3 DEF Shift
<1>4. CASE i # 1
  <2>1. i - 1 \in 1..Len(todo') /\ (i - 1) + 1 = i
    <3>1. i > 1 /\ i \in 1..Len(todo)
      BY <1>1, <1>4
    <3> QED
      BY <3>1 DEF Shift
  <2>2. todo'[i - 1] = todo[i]
    BY <2>1 DEF Shift
  <2> QED
    BY <1>1, <1>2, <1>4, <2>2
<1> QED
  BY <1>3, <1>4

\* statusesLocked: the plan is of the profiles that run and are wanted.
LEMMA ObserveCore == ASSUME SupInv, Observe PROVE Core' /\ SupTypeOK'
<1>1. /\ todo # <<>> /\ Head(todo).do = "observe" /\ todo' = Tail(todo)
      /\ UNCHANGED <<desired, runtimes, mapper, host, dns, err, op, slipped>>
      /\ obs' = [p \in IF down THEN {} ELSE Enabled \cap runtimes |-> ver[p]]
  BY DEF Observe, Doing
<1>2. Shift
  BY <1>1, Shifts DEF SupInv, SupTypeOK
<1>3. WantedSet' = WantedSet
  BY <1>1 DEF desired, WantedSet, Wanted
<1>4. Core
  BY <1>1, Busy
<1>5. DOMAIN obs' = Routed'
  <2>1. DOMAIN obs' = IF down THEN {} ELSE Enabled \cap runtimes
    BY <1>1
  <2>2. Routed = IF down THEN {} ELSE Enabled \cap runtimes
    BY DEF Routed, WantedSet, Wanted, Enabled
  <2>3. Routed' = Routed
    BY <1>1, <1>3 DEF Routed
  <2> QED
    BY <2>1, <2>2, <2>3
<1>6. /\ Sound(todo, WantedSet)' /\ (op' = Nothing => todo' = <<>>)
      /\ todo' # <<>> /\ Head(todo').do = "mapper"
  BY <1>1, <1>2, <1>3, ShiftCore DEF Before, Follows
<1>7. ~Reconciled'
  <2>1. todo' \in Seq(Step)
    BY <1>1, TailType DEF SupInv, SupTypeOK
  <2>2. Len(todo') # 0 /\ Len(todo') \in Nat
    BY <1>6, <2>1, LenProperties
  <2>3. Head(todo') = todo'[1] /\ 1 \in 1..Len(todo')
    BY <2>1, <2>2, HeadStep
  <2> QED
    BY <1>6, <2>3 DEF Reconciled, Publishing
<1>8. PlanInv'
  BY <1>5, <1>6, <1>7 DEF PlanInv, At
<1>9. StopInv' /\ RunInv'
  BY <1>1, <1>2, <1>3, <1>4, ShiftStop, ShiftRun DEF Core
<1>10. SupTypeOK'
  <2>1. obs' \in Plan
    <3>1. (IF down THEN {} ELSE Enabled \cap runtimes) \in SUBSET Profiles
      BY DEF Enabled
    <3> QED
      BY <1>1, <3>1, PlanType DEF SupInv, SupTypeOK
  <2>2. todo' \in Seq(Step)
    BY <1>1, TailType DEF SupInv, SupTypeOK
  <2> QED
    BY <2>1, <2>2 DEF SupInv, SupTypeOK, Observe, desired, updates
<1> QED
  BY <1>6, <1>8, <1>9, <1>10 DEF Core

\* The steps that publish the plan, up to the one that each of them takes.
LEMMA PublishStep ==
    ASSUME SupInv, NEW d \in {"mapper", "host", "dns"}, Doing(d), todo' = Tail(todo),
           UNCHANGED <<desired, runtimes, obs, op, slipped>>
    PROVE  /\ Sound(todo, WantedSet)' /\ (op' = Nothing => todo' = <<>>)
           /\ todo' \in Seq(Step) /\ todo' # <<>> /\ Head(todo').do = Follows(d)
           /\ ~Reconciled'
           /\ DOMAIN obs' = Routed'
           /\ StopInv' /\ RunInv'
<1>1. todo # <<>> /\ Head(todo).do = d
  BY DEF Doing
<1>2. Shift
  BY <1>1, Shifts DEF SupInv, SupTypeOK
<1>3. WantedSet' = WantedSet
  BY DEF desired, WantedSet, Wanted
<1>4. Core
  BY <1>1, Busy
<1>5. DOMAIN obs' = Routed'
  <2>1. At(Publishing)
    BY <1>1 DEF At, Publishing
  <2> QED
    BY <1>3, <1>4, <2>1 DEF Core, PlanInv, Routed
<1>6. /\ Sound(todo, WantedSet)' /\ (op' = Nothing => todo' = <<>>)
      /\ todo' # <<>> /\ Head(todo').do = Follows(d)
  BY <1>1, <1>2, <1>3, ShiftCore DEF Before
<1>7. todo' \in Seq(Step)
  BY <1>1, TailType DEF SupInv, SupTypeOK
<1>8. ~Reconciled'
  <2>1. Len(todo') # 0 /\ Len(todo') \in Nat
    BY <1>6, <1>7, LenProperties
  <2>2. Head(todo') = todo'[1] /\ 1 \in 1..Len(todo')
    <3>1. \A n \in Nat : n # 0 => 1 \in 1..n
      OBVIOUS
    <3> QED
      BY <1>7, <2>1, <3>1, HeadStep, Zenon
  <2>3. Follows(d) \in Publishing
    <3>1. CASE d = "mapper"
      BY <3>1 DEF Follows, Publishing
    <3>2. CASE d = "host"
      BY <3>2 DEF Follows, Publishing
    <3>3. CASE d = "dns"
      BY <3>3 DEF Follows, Publishing
    <3> QED
      BY <3>1, <3>2, <3>3
  <2> QED
    BY <1>6, <2>2, <2>3 DEF Reconciled
<1>9. StopInv' /\ RunInv'
  BY <1>1, <1>2, <1>3, <1>4, ShiftStop, ShiftRun DEF Core
<1> QED
  BY <1>5, <1>6, <1>7, <1>8, <1>9

\* mux.SetMapper takes the plan.
LEMMA SetMapperCore == ASSUME SupInv, SetMapper PROVE Core' /\ SupTypeOK'
<1>1. /\ "mapper" \in {"mapper", "host", "dns"} /\ Doing("mapper") /\ todo' = Tail(todo)
      /\ UNCHANGED <<desired, runtimes, obs, op, slipped>>
      /\ mapper' = obs
  BY DEF SetMapper
<1>2. /\ Sound(todo, WantedSet)' /\ (op' = Nothing => todo' = <<>>)
      /\ todo' \in Seq(Step) /\ todo' # <<>> /\ Head(todo').do = Follows("mapper")
      /\ ~Reconciled' /\ DOMAIN obs' = Routed' /\ StopInv' /\ RunInv'
  BY <1>1, PublishStep
<1>3. obs' = obs
  BY <1>1
<1>4. PlanInv'
  BY <1>1, <1>2, <1>3 DEF PlanInv, At, Follows
<1>5. SupTypeOK'
  BY <1>1, <1>2 DEF SupInv, SupTypeOK, SetMapper, desired, updates
<1> QED
  BY <1>2, <1>4, <1>5 DEF Core

\* host.Configure takes the plan.
LEMMA ConfigureHostCore == ASSUME SupInv, ConfigureHost PROVE Core' /\ SupTypeOK'
<1>1. /\ "host" \in {"mapper", "host", "dns"} /\ Doing("host") /\ todo' = Tail(todo)
      /\ UNCHANGED <<desired, runtimes, obs, op, slipped>>
      /\ host' = obs
  BY DEF ConfigureHost
<1>2. /\ Sound(todo, WantedSet)' /\ (op' = Nothing => todo' = <<>>)
      /\ todo' \in Seq(Step) /\ todo' # <<>> /\ Head(todo').do = Follows("host")
      /\ ~Reconciled' /\ DOMAIN obs' = Routed' /\ StopInv' /\ RunInv'
  BY <1>1, PublishStep
<1>3. mapper' = obs'
  BY <1>1 DEF SupInv, PlanInv, At, Doing, ConfigureHost
<1>4. PlanInv'
  BY <1>1, <1>2, <1>3 DEF PlanInv, At, Follows
<1>5. SupTypeOK'
  BY <1>1, <1>2 DEF SupInv, SupTypeOK, ConfigureHost, desired, updates
<1> QED
  BY <1>2, <1>4, <1>5 DEF Core

\* configureDNSLocked takes the plan.
LEMMA ConfigureDNSCore == ASSUME SupInv, ConfigureDNS PROVE Core' /\ SupTypeOK'
<1>1. /\ "dns" \in {"mapper", "host", "dns"} /\ Doing("dns") /\ todo' = Tail(todo)
      /\ UNCHANGED <<desired, runtimes, obs, op, slipped>>
      /\ dns' = obs
  BY DEF ConfigureDNS
<1>2. /\ Sound(todo, WantedSet)' /\ (op' = Nothing => todo' = <<>>)
      /\ todo' \in Seq(Step) /\ todo' # <<>> /\ Head(todo').do = Follows("dns")
      /\ ~Reconciled' /\ DOMAIN obs' = Routed' /\ StopInv' /\ RunInv'
  BY <1>1, PublishStep
<1>3. mapper' = obs' /\ host' = obs'
  BY <1>1 DEF SupInv, PlanInv, At, Doing, ConfigureDNS
<1>4. PlanInv'
  BY <1>1, <1>2, <1>3 DEF PlanInv, At, Follows
<1>5. SupTypeOK'
  BY <1>1, <1>2 DEF SupInv, SupTypeOK, ConfigureDNS, desired, updates
<1> QED
  BY <1>2, <1>4, <1>5 DEF Core

\* store.Save ends the reconciliation: the plan is published.
LEMMA SaveCore == ASSUME SupInv, Save PROVE Core' /\ SupTypeOK'
<1>1. /\ todo # <<>> /\ Head(todo).do = "save" /\ todo' = Tail(todo) /\ obs' = NoPlan /\ err' = FALSE
      /\ UNCHANGED <<desired, runtimes, mapper, host, dns, op, slipped>>
  BY DEF Save, Doing
<1>2. Shift
  BY <1>1, Shifts DEF SupInv, SupTypeOK
<1>3. WantedSet' = WantedSet
  BY <1>1 DEF desired, WantedSet, Wanted
<1>4. Core
  BY <1>1, Busy
<1>5. Published'
  <2>1. DOMAIN obs = Routed /\ mapper = obs /\ host = obs /\ dns = obs
    BY <1>1, <1>4 DEF Core, PlanInv, At, Publishing
  <2> QED
    BY <1>1, <1>3, <2>1 DEF Published, Routed
<1>6. /\ Sound(todo, WantedSet)' /\ (op' = Nothing => todo' = <<>>)
      /\ ~At(Publishing)'
  BY <1>1, <1>2, <1>3, ShiftCore DEF Before
<1>7. PlanInv'
  BY <1>5, <1>6 DEF PlanInv, At, Publishing
<1>8. StopInv' /\ RunInv'
  BY <1>1, <1>2, <1>3, <1>4, <1>5, ShiftStop, ShiftRun DEF Core
<1>9. SupTypeOK'
  <2>1. todo' \in Seq(Step)
    BY <1>1, TailType DEF SupInv, SupTypeOK
  <2> QED
    BY <1>1, <2>1, NoPlanType DEF SupInv, SupTypeOK, Save, desired, updates
<1> QED
  BY <1>6, <1>7, <1>8, <1>9 DEF Core

\* startProfileLocked: what is started is wanted, and a reconciliation follows.
LEMMA StartCore == ASSUME SupInv, StartProfiles PROVE Core' /\ SupTypeOK'
<1> DEFINE who == Head(todo).who
<1>1. /\ todo # <<>> /\ Head(todo).do = "start" /\ todo' = Tail(todo)
      /\ UNCHANGED <<proc, desired, ver, plans, err, op, reply, queue, bus, failing>>
  BY DEF StartProfiles, Doing
<1>2. PICK S \in SUBSET (who \ runtimes) :
         /\ runtimes' = runtimes \cup S
         /\ watching' = watching \cup S
         /\ slipped' = (slipped \ who) \cup (who \ (runtimes \cup S))
  BY DEF StartProfiles
<1>3. Shift
  BY <1>1, Shifts DEF SupInv, SupTypeOK
<1>4. WantedSet' = WantedSet
  BY <1>1 DEF desired, WantedSet, Wanted
<1>5. Core
  BY <1>1, Busy
<1>6. who \subseteq WantedSet /\ (\E j \in 1..Len(todo) : j > 1 /\ todo[j].do = "observe") /\ who \subseteq Profiles
  <2>1. SoundAt(todo, 1, WantedSet)
    BY <1>3, <1>5 DEF Core, Sound, Shift
  <2> QED
    BY <1>1, <1>3, <2>1 DEF SoundAt, Shift, WantedSet
<1>7. /\ Sound(todo, WantedSet)' /\ (op' = Nothing => todo' = <<>>) /\ ~At(Publishing)'
  BY <1>1, <1>3, <1>4, ShiftCore DEF Before
<1>8. ~Reconciled'
  BY <1>3, <1>6 DEF Shift, Reconciled
<1>9. PlanInv'
  BY <1>7, <1>8 DEF PlanInv, At, Publishing
<1>10. StopInv'
  BY <1>1, <1>3, <1>4, <1>5, ShiftStop DEF Core
<1>11. RunInv'
  <2> SUFFICES ASSUME NEW p \in Profiles, p \notin slipped'
               PROVE  Owes(p)' \/ (p \in runtimes' <=> p \in WantedSet')
    BY DEF RunInv
  <2>1. CASE p \in who
    BY <1>2, <1>4, <1>6, <2>1
  <2>2. CASE p \notin who
    <3>1. p \notin slipped /\ (p \in runtimes' <=> p \in runtimes)
      BY <1>2, <2>2
    <3>2. CASE Owes(p)
      <4> PICK i \in 1..Len(todo) : todo[i].do \in {"start", "stop"} /\ p \in todo[i].who
        BY <3>2 DEF Owes
      <4>1. i # 1
        BY <1>3, <2>2 DEF Shift
      <4>2. i > 1
        BY <4>1
      <4>3. i - 1 \in 1..Len(todo') /\ todo'[i - 1] = todo[i]
        BY <1>3, <4>2 DEF Shift
      <4> QED
        BY <4>3 DEF Owes
    <3>3. CASE ~Owes(p)
      BY <1>4, <1>5, <3>1, <3>3 DEF Core, RunInv
    <3> QED
      BY <3>2, <3>3
  <2> QED
    BY <2>1, <2>2
<1>12. SupTypeOK'
  <2>1. todo' \in Seq(Step)
    BY <1>1, TailType DEF SupInv, SupTypeOK
  <2> QED
    BY <1>1, <1>2, <1>6, <2>1 DEF SupInv, SupTypeOK, desired, plans
<1> QED
  BY <1>7, <1>9, <1>10, <1>11, <1>12 DEF Core

\* stopProfileLocked: a wanted profile that is stopped has still to be started, so
\* without a reconciliation ahead the plan is about none of those that stop.
LEMMA StopCore == ASSUME SupInv, StopProfiles PROVE Core' /\ SupTypeOK'
<1> DEFINE who == Head(todo).who
<1>1. /\ todo # <<>> /\ Head(todo).do = "stop" /\ todo' = Tail(todo)
      /\ runtimes' = runtimes \ who /\ slipped' = slipped \ who
      /\ UNCHANGED <<proc, desired, ver, plans, err, op, reply, queue, failing>>
  BY DEF StopProfiles, Doing
<1>2. Shift
  BY <1>1, Shifts DEF SupInv, SupTypeOK
<1>3. WantedSet' = WantedSet
  BY <1>1 DEF desired, WantedSet, Wanted
<1>4. Core
  BY <1>1, Busy
<1>5. \A p \in who \cap WantedSet :
         \E j \in 1..Len(todo) : j > 1 /\ todo[j].do = "start" /\ p \in todo[j].who
  <2>1. SoundAt(todo, 1, WantedSet)
    BY <1>2, <1>4 DEF Core, Sound, Shift
  <2> QED
    BY <1>1, <1>2, <2>1 DEF SoundAt, Shift
<1>6. /\ Sound(todo, WantedSet)' /\ (op' = Nothing => todo' = <<>>) /\ ~At(Publishing)'
      /\ Reconciled' => Reconciled
  BY <1>1, <1>2, <1>3, ShiftCore DEF Before, Publishing
<1>7. PlanInv'
  <2>1. Reconciled' /\ ~err' => Published'
    <3> SUFFICES ASSUME Reconciled', ~err' PROVE Published'
      OBVIOUS
    <3>1. Reconciled /\ Published
      BY <1>1, <1>4, <1>6 DEF Core, PlanInv
    <3>2. who \cap WantedSet = {}
      <4> SUFFICES ASSUME NEW p \in who \cap WantedSet PROVE FALSE
        OBVIOUS
      <4> PICK j \in 1..Len(todo) : todo[j].do = "start"
        BY <1>5
      <4>1. SoundAt(todo, j, WantedSet)
        BY <1>4 DEF Core, Sound
      <4>2. \E n \in 1..Len(todo) : todo[n].do = "observe"
        BY <4>1 DEF SoundAt
      <4> QED
        BY <3>1, <4>2 DEF Reconciled
    <3>3. Routed' = Routed
      BY <1>1, <1>3, <3>2 DEF Routed
    <3> QED
      BY <1>1, <3>1, <3>3 DEF Published, plans
  <2> QED
    BY <1>6, <2>1 DEF PlanInv, At, Publishing
<1>8. StopInv'
  BY <1>1, <1>2, <1>3, <1>4, ShiftStop DEF Core
<1>9. RunInv'
  <2> SUFFICES ASSUME NEW p \in Profiles, p \notin slipped'
               PROVE  Owes(p)' \/ (p \in runtimes' <=> p \in WantedSet')
    BY DEF RunInv
  <2>0. \A i \in 1..Len(todo) : i > 1 /\ todo[i].do \in {"start", "stop"} /\ p \in todo[i].who => Owes(p)'
    <3> TAKE i \in 1..Len(todo)
    <3> HAVE i > 1 /\ todo[i].do \in {"start", "stop"} /\ p \in todo[i].who
    <3>1. i - 1 \in 1..Len(todo') /\ todo'[i - 1] = todo[i]
      BY <1>2 DEF Shift
    <3> QED
      BY <3>1 DEF Owes
  <2>1. CASE p \in who
    BY <1>1, <1>3, <1>5, <2>0, <2>1
  <2>2. CASE p \notin who
    <3>1. p \notin slipped /\ (p \in runtimes' <=> p \in runtimes)
      BY <1>1, <2>2
    <3>2. CASE Owes(p)
      <4> PICK i \in 1..Len(todo) : todo[i].do \in {"start", "stop"} /\ p \in todo[i].who
        BY <3>2 DEF Owes
      <4>1. i # 1
        BY <1>2, <2>2 DEF Shift
      <4>2. i > 1
        BY <4>1
      <4> QED
        BY <2>0, <4>2
    <3>3. CASE ~Owes(p)
      BY <1>3, <1>4, <3>1, <3>3 DEF Core, RunInv
    <3> QED
      BY <3>2, <3>3
  <2> QED
    BY <2>1, <2>2
<1>10. SupTypeOK'
  <2>1. todo' \in Seq(Step)
    BY <1>1, TailType DEF SupInv, SupTypeOK
  <2>2. watching' \subseteq Profiles /\ bus' \subseteq Profiles
    BY DEF StopProfiles, SupInv, SupTypeOK
  <2> QED
    BY <1>1, <2>1, <2>2 DEF SupInv, SupTypeOK, desired, plans
<1> QED
  BY <1>6, <1>7, <1>8, <1>9, <1>10 DEF Core

\* A purge forgets a profile that nobody wants.
LEMMA ForgetCore == ASSUME SupInv, ForgetProfile PROVE Core' /\ SupTypeOK'
<1> DEFINE who == Head(todo).who
<1>1. /\ todo # <<>> /\ Head(todo).do = "forget" /\ todo' = Tail(todo)
      /\ life' = [p \in Profiles |-> IF p \in who THEN "absent" ELSE life[p]]
      /\ UNCHANGED <<proc, down, runtimes, ver, plans, err, op, reply, updates, slipped>>
  BY DEF ForgetProfile, Doing
<1>2. Shift
  BY <1>1, Shifts DEF SupInv, SupTypeOK
<1>3. Core
  BY <1>1, Busy
<1>4. WantedSet' = WantedSet
  <2>1. SoundAt(todo, 1, WantedSet)
    BY <1>2, <1>3 DEF Core, Sound, Shift
  <2>2. who \cap WantedSet = {}
    BY <1>1, <1>2, <2>1 DEF SoundAt, Shift
  <2> QED
    BY <1>1, <2>2 DEF WantedSet, Wanted
<1>5. /\ Sound(todo, WantedSet)' /\ (op' = Nothing => todo' = <<>>) /\ ~At(Publishing)'
      /\ Reconciled' => Reconciled
  BY <1>1, <1>2, <1>4, ShiftCore DEF Before, Publishing
<1>6. PlanInv'
  <2>1. Reconciled' /\ ~err' => Published'
    BY <1>1, <1>3, <1>4, <1>5 DEF Core, PlanInv, Published, Routed, plans
  <2> QED
    BY <1>5, <2>1 DEF PlanInv, At, Publishing
<1>7. StopInv' /\ RunInv'
  BY <1>1, <1>2, <1>3, <1>4, ShiftStop, ShiftRun DEF Core
<1>8. SupTypeOK'
  <2>1. todo' \in Seq(Step)
    BY <1>1, TailType DEF SupInv, SupTypeOK
  <2>2. life' \in [Profiles -> {"absent", "enabled", "disabled", "removed"}]
    BY <1>1 DEF SupInv, SupTypeOK
  <2> QED
    BY <1>1, <2>1, <2>2 DEF SupInv, SupTypeOK, plans, updates
<1> QED
  BY <1>5, <1>6, <1>7, <1>8 DEF Core

\* The operation returns.
LEMMA FinishCore == ASSUME SupInv, Finish PROVE Core' /\ SupTypeOK'
<1>1. /\ todo = <<>> /\ todo' = todo /\ op # Nothing /\ op' = Nothing
      /\ UNCHANGED <<desired, runtimes, ver, plans, err, updates, slipped>>
  BY DEF Finish
<1>2. WantedSet' = WantedSet
  BY <1>1 DEF desired, WantedSet, Wanted
<1>3. proc # "off" /\ Core
  BY <1>1 DEF SupInv, Core
<1>4. Sound(todo, WantedSet)' /\ RunInv'
  BY <1>1, <1>2, <1>3 DEF Core, RunInv, Owes
<1>5. PlanInv'
  BY <1>1, <1>2, <1>3 DEF Core, PlanInv, At, Reconciled, Published, Routed, plans
<1>6. StopInv'
  BY <1>1, NothingType DEF StopInv
<1>7. SupTypeOK'
  BY <1>1, NothingType DEF Finish, SupInv, SupTypeOK, desired, plans, updates
<1> QED
  BY <1>1, <1>4, <1>5, <1>6, <1>7 DEF Core

\* The operation gives up: what it still owes has slipped.
LEMMA FailCore == ASSUME SupInv, ReconcileFails PROVE Core' /\ SupTypeOK'
<1>1. /\ todo # <<>> /\ todo' = <<>> /\ op' = Nothing /\ err' = TRUE /\ obs' = NoPlan
      /\ slipped' = slipped \cup Owed
      /\ UNCHANGED <<desired, runtimes, ver, mapper, host, dns, updates>>
  BY DEF ReconcileFails, Doing
<1>2. WantedSet' = WantedSet
  BY <1>1 DEF desired, WantedSet, Wanted
<1>3. Core
  BY <1>1, Busy
<1>4. todo \in Seq(Step) /\ DOMAIN todo = 1..Len(todo)
  BY LenProperties DEF SupInv, SupTypeOK
<1>5. \A p : Owes(p) => p \in Owed
  BY <1>4 DEF Owes, Owed
<1>6. RunInv'
  BY <1>1, <1>2, <1>3, <1>5 DEF Core, RunInv
<1>7. Sound(todo, WantedSet)'
  <2>1. Len(todo') = 0
    BY <1>1
  <2> QED
    BY <2>1 DEF Sound
<1>8. PlanInv' /\ StopInv'
  BY <1>1, NothingType DEF PlanInv, At, StopInv
<1>9. SupTypeOK'
  <2>1. Owed \subseteq Profiles
    <3>1. \A i \in 1..Len(todo) : todo[i].who \subseteq Profiles
      <4>1. \A i \in 1..Len(todo) : todo[i] \in Step
        BY <1>4, LenProperties
      <4> QED
        BY <4>1 DEF Step
    <3> QED
      BY <1>4, <3>1 DEF Owed
  <2>2. todo' \in Seq(Step)
    BY <1>1
  <2>3. reply' \in [op : Operation, ok : BOOLEAN] /\ proc' \in {"off", "boot", "up", "exit"}
    BY DEF ReconcileFails, SupInv, SupTypeOK
  <2> QED
    BY <1>1, <2>1, <2>2, <2>3, NothingType, NoPlanType DEF SupInv, SupTypeOK, desired, updates
<1> QED
  BY <1>1, <1>6, <1>7, <1>8, <1>9 DEF Core

\* Steps of engines and watchers leave the operation alone.
LEMMA AloneCore ==
    ASSUME SupInv, SupTypeOK', UNCHANGED <<proc, desired, runtimes, plans, err, todo, op, slipped>>
    PROVE  SupInv'
<1>1. WantedSet' = WantedSet
  BY DEF desired, WantedSet, Wanted
<1>2. /\ Routed' = Routed /\ Published' = Published /\ Reconciled' = Reconciled
      /\ \A D : At(D)' = At(D)
  BY <1>1 DEF Routed, Published, Reconciled, At, plans
<1>3. PlanInv'
  BY <1>2 DEF SupInv, PlanInv, plans
<1>4. StopInv'
  BY <1>1, <1>2 DEF SupInv, StopInv
<1>5. proc' # "off" => RunInv'
  BY <1>1 DEF SupInv, RunInv, Owes
<1>6. Sound(todo, WantedSet)'
  BY <1>1 DEF SupInv
<1> QED
  BY <1>3, <1>4, <1>5, <1>6 DEF SupInv

\* Every step keeps the invariant.
LEMMA NextInv == SupInv /\ [SupNext]_supVars => SupInv'
<1> SUFFICES ASSUME SupInv, [SupNext]_supVars PROVE SupInv'
  OBVIOUS
<1>0. ASSUME Core', SupTypeOK', proc' # "off" PROVE SupInv'
  BY <1>0 DEF SupInv, Core
<1>1. ASSUME NEW S, Begun(S), proc' \in {"boot", "up"},
             /\ queue' \in Seq([profile : Profiles, err : BOOLEAN]) /\ Len(queue') <= QueueCap
             /\ UNCHANGED <<watching, bus, failing>>
      PROVE  SupInv'
  <2>1. Core'
    BY <1>1, BegunCore
  <2>2. SupTypeOK'
    BY <1>1 DEF SupInv, SupTypeOK, Begun, OpType, plans
  <2> QED
    BY <1>0, <1>1, <2>1, <2>2
<1>2. ASSUME NEW S, Begun(S), proc = "up", UNCHANGED <<proc, updates>> PROVE SupInv'
  <2>1. queue' \in Seq([profile : Profiles, err : BOOLEAN]) /\ Len(queue') <= QueueCap
    BY <1>2 DEF SupInv, SupTypeOK, updates
  <2> QED
    BY <1>1, <1>2, <2>1 DEF updates
<1>3. CASE Advance
  <2>1. CASE Finish
    <3>1. proc' # "off"
      BY <2>1 DEF Finish, SupInv
    <3> QED
      BY <1>0, <2>1, <3>1, FinishCore
  <2>2. CASE ~Finish
    <3>1. /\ todo # <<>> /\ proc' = proc
          /\ \/ StartProfiles \/ StopProfiles \/ ForgetProfile \/ Observe \/ SetMapper
             \/ ConfigureHost \/ ConfigureDNS \/ Save
      BY <1>3, <2>2 DEF Advance, StartProfiles, StopProfiles, ForgetProfile, Observe, SetMapper,
                        ConfigureHost, ConfigureDNS, Save, Doing
    <3>2. proc' # "off"
      BY <3>1, Busy
    <3>3. Core' /\ SupTypeOK'
      BY <3>1, StartCore, StopCore, ForgetCore, ObserveCore, SetMapperCore, ConfigureHostCore,
         ConfigureDNSCore, SaveCore
    <3> QED
      BY <1>0, <3>2, <3>3
  <2> QED
    BY <2>1, <2>2
<1>4. CASE ReconcileFails
  <2>1. proc' # "off"
    <3>1. todo # <<>>
      BY <1>4 DEF ReconcileFails, Doing
    <3> QED
      BY <1>4, <3>1, Busy DEF ReconcileFails
  <2> QED
    BY <1>0, <1>4, <2>1, FailCore
<1>5. CASE \E p \in Profiles, b \in BOOLEAN : AddProfile(p, b)
  <2> PICK p \in Profiles, b \in BOOLEAN : AddProfile(p, b)
    BY <1>5
  <2>1. proc = "up" /\ UNCHANGED <<proc, updates>>
    BY DEF AddProfile, Request
  <2> QED
    BY <1>2, <2>1, AddBegun
<1>6. CASE \E p \in Profiles, b \in BOOLEAN : SetProfileEnabled(p, b)
  <2> PICK p \in Profiles, b \in BOOLEAN : SetProfileEnabled(p, b)
    BY <1>6
  <2>1. proc = "up" /\ UNCHANGED <<proc, updates>>
    BY DEF SetProfileEnabled, Request
  <2>2. CASE Begun({p})
    BY <1>2, <2>1, <2>2
  <2>3. CASE /\ op = Nothing /\ todo' = <<>> /\ op' # Nothing /\ OpType'
             /\ UNCHANGED <<desired, runtimes, ver, plans, err, slipped>>
    <3>1. todo = <<>> /\ RunInv /\ Sound(todo, WantedSet) /\ PlanInv
      BY <2>1, <2>3 DEF SupInv
    <3>2. WantedSet' = WantedSet /\ todo' = todo
      BY <2>3, <3>1 DEF desired, WantedSet, Wanted
    <3>3. Sound(todo, WantedSet)' /\ RunInv'
      BY <2>3, <3>1, <3>2 DEF RunInv, Owes
    <3>4. PlanInv'
      BY <2>3, <3>1, <3>2 DEF PlanInv, At, Reconciled, Published, Routed, plans
    <3>5. StopInv'
      <4>1. Len(todo') = 0
        BY <2>3
      <4> QED
        BY <4>1 DEF StopInv
    <3>6. SupTypeOK'
      BY <2>1, <2>3 DEF SupInv, SupTypeOK, OpType, desired, plans, updates
    <3> QED
      BY <1>0, <2>1, <2>3, <3>3, <3>4, <3>5, <3>6 DEF Core
  <2> QED
    BY <2>2, <2>3, EnableBegun
<1>7. CASE \E p \in Profiles : RestartProfile(p)
  <2> PICK p \in Profiles : RestartProfile(p)
    BY <1>7
  <2>1. proc = "up" /\ UNCHANGED <<proc, updates>>
    BY DEF RestartProfile, Request
  <2>2. Begun({p})
    BY RestartBegun DEF RestartProfile
  <2> QED
    BY <1>2, <2>1, <2>2
<1>8. CASE \E p \in Profiles, b \in BOOLEAN : PatchProfile(p, b)
  <2> PICK p \in Profiles, b \in BOOLEAN : PatchProfile(p, b)
    BY <1>8
  <2>1. proc = "up" /\ UNCHANGED <<proc, updates>>
    BY DEF PatchProfile, Request
  <2>2. CASE b /\ life[p] = "enabled"
    <3>1. Begun({p})
      BY <2>2, RestartBegun DEF PatchProfile
    <3> QED
      BY <1>2, <2>1, <3>1
  <2>3. CASE ~(b /\ life[p] = "enabled")
    <3>1. {p} \in SUBSET Profiles
      OBVIOUS
    <3>2. Begun({})
      BY <2>3, <3>1, PlainBegun DEF PatchProfile
    <3> QED
      BY <1>2, <2>1, <3>2
  <2> QED
    BY <2>2, <2>3
<1>9. CASE \E p \in Profiles, b \in BOOLEAN : RemoveProfile(p, b)
  <2> PICK p \in Profiles, b \in BOOLEAN : RemoveProfile(p, b)
    BY <1>9
  <2>1. proc = "up" /\ UNCHANGED <<proc, updates>>
    BY DEF RemoveProfile, Request
  <2> QED
    BY <1>2, <2>1, RemoveBegun
<1>10. CASE \E b \in BOOLEAN : SetDaemonUp(b)
  <2> PICK b \in BOOLEAN : SetDaemonUp(b)
    BY <1>10
  <2>1. proc = "up" /\ UNCHANGED <<proc, updates>>
    BY DEF SetDaemonUp, Request
  <2> QED
    BY <1>2, <2>1, DaemonBegun
<1>11. CASE CommitPolicy
  <2>1. proc = "up" /\ UNCHANGED <<proc, updates>>
    BY <1>11 DEF CommitPolicy, Request
  <2>2. Begun({})
    BY <1>11, PlainBegun DEF CommitPolicy
  <2> QED
    BY <1>2, <2>1, <2>2
<1>12. CASE Run
  <2>1. proc' = "boot" /\ UNCHANGED updates
    BY <1>12 DEF Run
  <2>2. queue' \in Seq([profile : Profiles, err : BOOLEAN]) /\ Len(queue') <= QueueCap
    BY <2>1 DEF SupInv, SupTypeOK, updates
  <2> QED
    BY <1>1, <1>12, <2>1, <2>2, RunBegun DEF updates
<1>13. CASE ProcessEnds
  <2>1. SupTypeOK'
    <3>1. queue' \in Seq([profile : Profiles, err : BOOLEAN]) /\ Len(queue') <= QueueCap
      <4>1. queue' = <<>> /\ QueueCap \in Nat
        BY <1>13, SupervisorAssumption DEF ProcessEnds
      <4> QED
        BY <4>1
    <3>2. reply' \in [op : Operation, ok : BOOLEAN] /\ op' \in Operation /\ todo' \in Seq(Step)
      BY <1>13, NothingType DEF ProcessEnds
    <3>3. obs' \in Plan /\ mapper' \in Plan /\ host' \in Plan /\ dns' \in Plan
      BY <1>13, NoPlanType DEF ProcessEnds
    <3> QED
      BY <1>13, <3>1, <3>2, <3>3 DEF ProcessEnds, SupInv, SupTypeOK, desired
  <2>2. /\ proc' = "off" /\ op' = Nothing /\ todo' = <<>> /\ runtimes' = {}
        /\ mapper' = NoPlan /\ host' = NoPlan /\ dns' = NoPlan
    BY <1>13 DEF ProcessEnds
  <2>3. Published' /\ \A D : ~At(D)'
    BY <2>2 DEF Published, Routed, NoPlan, At
  <2>4. PlanInv' /\ StopInv'
    BY <2>2, <2>3, NothingType DEF PlanInv, StopInv
  <2>5. Sound(todo, WantedSet)'
    <3>1. Len(todo') = 0
      BY <2>2
    <3> QED
      BY <3>1 DEF Sound
  <2> QED
    BY <2>1, <2>2, <2>4, <2>5 DEF SupInv
<1>14. CASE \E p \in Profiles : Change(p) \/ Notify(p) \/ WatchFails(p) \/ ReportError(p)
  <2> PICK p \in Profiles : Change(p) \/ Notify(p) \/ WatchFails(p) \/ ReportError(p)
    BY <1>14
  <2>1. UNCHANGED <<proc, desired, runtimes, plans, err, todo, op, reply, slipped>>
    BY DEF Change, Notify, WatchFails, ReportError
  <2>2. /\ queue' \in Seq([profile : Profiles, err : BOOLEAN]) /\ Len(queue') <= QueueCap
        /\ watching' \subseteq Profiles /\ bus' \subseteq Profiles /\ failing' \subseteq Profiles
        /\ ver' \in [Profiles -> 0..MaxChanges]
    <3> DEFINE Q == [profile : Profiles, err : BOOLEAN]
    <3>0. queue \in Seq(Q) /\ Len(queue) <= QueueCap /\ Len(queue) \in Nat /\ QueueCap \in Nat
      BY LenProperties, SupervisorAssumption DEF SupInv, SupTypeOK
    <3>1. CASE Change(p)
      BY <3>0, <3>1, SupervisorAssumption DEF Change, SupInv, SupTypeOK
    <3>2. CASE Notify(p) \/ ReportError(p)
      <4>1. \A e \in Q : Append(queue, e) \in Seq(Q) /\ Len(Append(queue, e)) = Len(queue) + 1
        BY <3>0
      <4>2. [profile |-> p, err |-> FALSE] \in Q /\ [profile |-> p, err |-> TRUE] \in Q
        OBVIOUS
      <4>3. queue' = queue \/ (Len(queue) < QueueCap /\ \E e \in Q : queue' = Append(queue, e))
        BY <3>2, <4>2 DEF Notify, ReportError
      <4>4. queue' \in Seq(Q) /\ Len(queue') <= QueueCap
        <5>1. CASE queue' = queue
          BY <3>0, <5>1
        <5>2. CASE Len(queue) < QueueCap /\ \E e \in Q : queue' = Append(queue, e)
          <6>1. queue' \in Seq(Q) /\ Len(queue') = Len(queue) + 1
            BY <4>1, <5>2, Zenon
          <6> QED
            BY <3>0, <5>2, <6>1
        <5> QED
          BY <4>3, <5>1, <5>2
      <4> QED
        BY <3>2, <4>4 DEF Notify, ReportError, SupInv, SupTypeOK
    <3>3. CASE WatchFails(p)
      BY <3>0, <3>3 DEF WatchFails, SupInv, SupTypeOK
    <3> QED
      BY <3>1, <3>2, <3>3
  <2>3. SupTypeOK'
    BY <2>1, <2>2 DEF SupInv, SupTypeOK, desired, plans
  <2> QED
    BY <2>1, <2>3, AloneCore
<1>15. CASE HandleUpdate
  <2> DEFINE Q == [profile : Profiles, err : BOOLEAN]
  <2>1. queue' \in Seq(Q) /\ Len(queue') <= QueueCap
    <3>1. queue \in Seq(Q) /\ queue # <<>> /\ queue' = Tail(queue) /\ Len(queue) <= QueueCap
      BY <1>15 DEF HandleUpdate, SupInv, SupTypeOK
    <3>2. queue' \in Seq(Q) /\ Len(queue') = Len(queue) - 1 /\ Len(queue) \in Nat
      BY <3>1, HeadTailProperties, LenProperties
    <3> QED
      BY <3>1, <3>2, SupervisorAssumption
  <2>2. proc = "up" /\ proc' = "up" /\ UNCHANGED <<desired, watching, bus, failing>>
    BY <1>15 DEF HandleUpdate
  <2>3. CASE ~UNCHANGED op
    BY <1>1, <1>15, <2>1, <2>2, <2>3, UpdateBegun
  <2>4. CASE UNCHANGED op
    <3>1. UNCHANGED <<runtimes, ver, plans, err, todo, op, reply, slipped>>
      <4>1. op = Nothing
        BY <1>15 DEF HandleUpdate
      <4>2. [name |-> "update", who |-> {Head(queue).profile}] # Nothing
        BY DEF Nothing
      <4> QED
        BY <1>15, <2>4, <4>1, <4>2 DEF HandleUpdate, BeginOp
    <3>2. SupTypeOK'
      BY <2>1, <2>2, <3>1 DEF SupInv, SupTypeOK, desired, plans
    <3> QED
      BY <2>2, <3>1, <3>2, AloneCore
  <2> QED
    BY <2>3, <2>4
<1>16. CASE UNCHANGED supVars
  <2>1. SupTypeOK'
    BY <1>16 DEF supVars, SupInv, SupTypeOK, desired, plans, updates
  <2> QED
    BY <1>16, <2>1, AloneCore DEF supVars
<1> QED
  BY <1>3, <1>4, <1>5, <1>6, <1>7, <1>8, <1>9, <1>10, <1>11, <1>12, <1>13, <1>14, <1>15, <1>16
     DEF SupNext

------------------------------------------------------------------------------
(* Theorems *)

\* Before Run nothing runs and nothing is published.
LEMMA InitInv == SupInit => SupInv
<1> SUFFICES ASSUME SupInit PROVE SupInv
  OBVIOUS
<1>1. /\ todo = <<>> /\ op = Nothing /\ runtimes = {} /\ proc = "off"
      /\ mapper = NoPlan /\ host = NoPlan /\ dns = NoPlan
  BY DEF SupInit
<1>2. SupTypeOK
  <2>1. queue \in Seq([profile : Profiles, err : BOOLEAN]) /\ Len(queue) <= QueueCap
    <3>1. queue = <<>> /\ QueueCap \in Nat
      BY SupervisorAssumption DEF SupInit
    <3> QED
      BY <3>1
  <2>2. reply \in [op : Operation, ok : BOOLEAN] /\ op \in Operation /\ todo \in Seq(Step)
    BY NothingType DEF SupInit
  <2>3. obs \in Plan /\ mapper \in Plan /\ host \in Plan /\ dns \in Plan
    BY NoPlanType DEF SupInit
  <2>4. ver \in [Profiles -> 0..MaxChanges]
    BY SupervisorAssumption DEF SupInit
  <2> QED
    BY <2>1, <2>2, <2>3, <2>4 DEF SupInit, SupTypeOK
<1>3. Published /\ \A D : ~At(D)
  BY <1>1 DEF Published, Routed, NoPlan, At
<1>4. PlanInv /\ StopInv
  BY <1>1, <1>3, NothingType DEF PlanInv, StopInv
<1>5. Sound(todo, WantedSet)
  <2>1. Len(todo) = 0
    BY <1>1
  <2> QED
    BY <2>1 DEF Sound
<1> QED
  BY <1>1, <1>2, <1>4, <1>5 DEF SupInv

\* The invariant holds of the supervisor, whatever fails and whenever it crashes.
THEOREM SupInvariance == SupSpec => []SupInv
  BY InitInv, NextInv, PTL DEF SupSpec

\* Type correctness of the supervisor's state (cmd/tailmixd/supervisor.go), with the
\* update queue within its capacity.
THEOREM TypeCorrect == SupSpec => []SupTypeOK
<1>1. SupInv => SupTypeOK
  BY DEF SupInv
<1> QED
  BY <1>1, SupInvariance, PTL

\* Whatever failed or crashed before, between operations and unless status reports a
\* reconciliation error, mapper, host and DNS have one plan, of the enabled profiles
\* that run (reconcileLocked as every operation calls it).
THEOREM PlansSettle == SupSpec => []SettledPlan
<1>1. SupInv => SettledPlan
  <2> SUFFICES ASSUME SupInv, BetweenOps, ~err
               PROVE  mapper = host /\ host = dns /\ DOMAIN mapper = IF down THEN {} ELSE Enabled \cap runtimes
    BY DEF SettledPlan
  <2>1. todo = <<>>
    BY DEF SupInv, BetweenOps
  <2>2. Reconciled
    BY <2>1 DEF Reconciled
  <2>3. Published
    BY <2>2 DEF SupInv, PlanInv
  <2>4. Routed = IF down THEN {} ELSE Enabled \cap runtimes
    BY DEF Routed, WantedSet, Wanted, Enabled
  <2> QED
    BY <2>3, <2>4 DEF Published
<1> QED
  BY <1>1, SupInvariance, PTL

\* Between operations a profile runs if and only if it is wanted, unless its own
\* start failed or its own operation failed before its start or stop
\* (startProfileLocked, stopProfileLocked and the operations that call them).
THEOREM RuntimesFollow == SupSpec => []RuntimesMatchDesired
<1>1. SupInv => RuntimesMatchDesired
  <2> SUFFICES ASSUME SupInv, BetweenOps, NEW p \in Profiles \ slipped
               PROVE  p \in runtimes <=> Wanted(p)
    BY DEF RuntimesMatchDesired
  <2>1. p \in runtimes <=> p \in WantedSet
    BY Quiet DEF BetweenOps
  <2> QED
    BY <2>1 DEF WantedSet
<1> QED
  BY <1>1, SupInvariance, PTL

\* Disabling or removing a profile stops its runtime only when neither the mapper nor
\* the host nor DNS has it in its plan (SetProfileEnabled, RemoveProfile).
THEOREM StopsAreWithdrawn == SupSpec => WithdrawnBeforeStop
<1> DEFINE A == op.name \in {"disable", "remove"} /\ ~ProcessEnds =>
                   (runtimes \ runtimes') \cap (DOMAIN mapper \cup DOMAIN host \cup DOMAIN dns) = {}
<1>1. SupInv /\ [SupNext]_supVars => [A]_supVars
  <2> SUFFICES ASSUME SupInv, [SupNext]_supVars, op.name \in {"disable", "remove"}, ~ProcessEnds
               PROVE  (runtimes \ runtimes') \cap (DOMAIN mapper \cup DOMAIN host \cup DOMAIN dns) = {}
    OBVIOUS
  <2>1. CASE StopProfiles
    <3>1. todo # <<>> /\ Head(todo).do = "stop" /\ runtimes' = runtimes \ Head(todo).who
          /\ todo' = Tail(todo)
      BY <2>1 DEF StopProfiles, Doing
    <3>2. Shift
      BY <3>1, Shifts DEF SupInv, SupTypeOK
    <3>3. Head(todo).who \cap WantedSet = {} /\ Published
      BY <3>1, <3>2 DEF SupInv, StopInv, Shift
    <3> QED
      BY <3>1, <3>3 DEF Published, Routed
  <2>2. CASE ~StopProfiles
    <3>1. op # Nothing
      BY NothingType
    <3>2. runtimes \subseteq runtimes'
      BY <2>2, <3>1 DEF SupNext, supVars, Advance, StartProfiles, ForgetProfile, Observe, SetMapper,
         ConfigureHost, ConfigureDNS, Save, Finish, ReconcileFails, AddProfile, SetProfileEnabled,
         RestartProfile, PatchProfile, RemoveProfile, SetDaemonUp, CommitPolicy, Request, Run, BeginOp,
         Change, Notify, WatchFails, ReportError, HandleUpdate
    <3> QED
      BY <3>2
  <2> QED
    BY <2>1, <2>2
<1>2. WithdrawnBeforeStop <=> [][A]_supVars
  BY DEF WithdrawnBeforeStop
<1> QED
  BY <1>1, <1>2, SupInvariance, PTL DEF SupSpec

=============================================================================
