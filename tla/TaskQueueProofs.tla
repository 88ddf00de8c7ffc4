--------------------------- MODULE TaskQueueProofs ---------------------------
(***************************************************************************)
(* What TaskQueue promises, for any set of functors: none runs twice, and  *)
(* none overtakes those that were queued before it.                        *)
(***************************************************************************)
EXTENDS TaskQueue, SequenceTheorems, TLAPS

\* No functor runs twice.
RunOnce ==
  \A i, j \in 1..Len(executed) : executed[i] = executed[j] => i = j

\* Of the functors in the queue only the oldest may run next, and none once the
\* loop has stopped.
OldestFirst ==
  [][\A j \in 1..Len(queue) :
        stopped \/ j > 1
          => \A k \in 1..Len(executed') : executed'[k] # queue[j]]_vars

-----------------------------------------------------------------------------

\* The functors of a sequence, and that each is there once.
Members(s) == {s[i] : i \in 1..Len(s)}

Distinct(s) == \A i, j \in 1..Len(s) : s[i] = s[j] => i = j

\* Each functor is in one place: not handed over yet, queued once, or run once.
IInv ==
  /\ fresh \subseteq Tasks
  /\ executed \in Seq(Tasks) /\ Distinct(executed)
  /\ queue \in Seq(Tasks) /\ Distinct(queue)
  /\ Members(executed) \cap fresh = {}
  /\ Members(queue) \cap fresh = {}
  /\ Members(executed) \cap Members(queue) = {}

\* Appending a new functor keeps those of a sequence different.
LEMMA AppendNew ==
  ASSUME NEW s \in Seq(Tasks), NEW f \in Tasks, Distinct(s), f \notin Members(s)
  PROVE  /\ Append(s, f) \in Seq(Tasks)
         /\ Distinct(Append(s, f))
         /\ Members(Append(s, f)) = Members(s) \cup {f}
<1>1. /\ Append(s, f) \in Seq(Tasks) /\ Len(s) \in Nat
      /\ Len(Append(s, f)) = Len(s) + 1 /\ Append(s, f)[Len(s) + 1] = f
      /\ \A i \in 1..Len(s) : Append(s, f)[i] = s[i]
  BY AppendProperties, LenProperties
<1>2. \A i \in 1..(Len(s) + 1) : i \in 1..Len(s) \/ i = Len(s) + 1
  BY <1>1
<1>3. Distinct(Append(s, f))
  BY <1>1, <1>2 DEF Distinct, Members
<1>4. Members(Append(s, f)) = Members(s) \cup {f}
  <2>1. ASSUME NEW g \in Members(s) \cup {f} PROVE g \in Members(Append(s, f))
    <3>1. CASE g = f
      BY <1>1, <3>1 DEF Members
    <3>2. ASSUME NEW i \in 1..Len(s), g = s[i] PROVE g \in Members(Append(s, f))
      BY <1>1, <3>2 DEF Members
    <3> QED BY <2>1, <3>1, <3>2 DEF Members
  <2>2. Members(Append(s, f)) \subseteq Members(s) \cup {f}
    BY <1>1, <1>2 DEF Members
  <2> QED BY <2>1, <2>2
<1> QED BY <1>1, <1>3, <1>4

\* The functor that is run leaves the queue, and no other.
LEMMA TailRest ==
  ASSUME NEW s \in Seq(Tasks), s # <<>>, Distinct(s)
  PROVE  /\ Head(s) \in Tasks /\ Tail(s) \in Seq(Tasks)
         /\ Distinct(Tail(s))
         /\ Head(s) \in Members(s) /\ Members(Tail(s)) = Members(s) \ {Head(s)}
<1>1. /\ Head(s) = s[1] /\ Head(s) \in Tasks
      /\ Len(s) \in Nat \ {0} /\ Len(Tail(s)) = Len(s) - 1
      /\ Tail(s) \in Seq(Tasks)
      /\ \A i \in 1..(Len(s) - 1) : Tail(s)[i] = s[i + 1]
  BY HeadTailProperties, EmptySeq
<1>2. Distinct(Tail(s))
  BY <1>1 DEF Distinct
<1>3. Head(s) \in Members(s)
  BY <1>1 DEF Members
<1>4. ASSUME NEW i \in 1..Len(s), s[i] # Head(s) PROVE s[i] \in Members(Tail(s))
  <2>1. i - 1 \in 1..(Len(s) - 1) /\ (i - 1) + 1 = i
    BY <1>1, <1>4
  <2>2. Tail(s)[i - 1] = s[i]
    BY <1>1, <2>1
  <2> QED BY <1>1, <2>1, <2>2 DEF Members
<1>5. ASSUME NEW i \in 1..(Len(s) - 1)
      PROVE  Tail(s)[i] \in Members(s) /\ Tail(s)[i] # Head(s)
  <2>1. i + 1 \in 1..Len(s) /\ 1 \in 1..Len(s) /\ i + 1 # 1
    BY <1>1
  <2>2. Tail(s)[i] = s[i + 1]
    BY <1>1
  <2> QED BY <1>1, <2>1, <2>2 DEF Members, Distinct
<1>6. Members(Tail(s)) = Members(s) \ {Head(s)}
  <2>1. Members(Tail(s)) \subseteq Members(s) \ {Head(s)}
    BY <1>1, <1>5 DEF Members
  <2>2. Members(s) \ {Head(s)} \subseteq Members(Tail(s))
    BY <1>4 DEF Members
  <2> QED BY <2>1, <2>2
<1> QED BY <1>1, <1>2, <1>3, <1>6

\* Each step leaves every functor in one place.
LEMMA Inductive == Spec => []IInv
<1>1. Init => IInv
  BY EmptySeq DEF Init, IInv, Distinct, Members
<1>2. ASSUME IInv, [Next]_vars PROVE IInv'
  <2>1. ASSUME NEW f \in Tasks, Submit(f) PROVE IInv'
    BY <1>2, <2>1, AppendNew DEF IInv, Submit
  <2>2. ASSUME NEW f \in Tasks, RunNow(f) PROVE IInv'
    BY <1>2, <2>2, AppendNew DEF IInv, RunNow
  <2>3. CASE Execute
    BY <1>2, <2>3, AppendNew, TailRest DEF IInv, Execute
  <2>4. CASE Stop \/ UNCHANGED vars
    BY <1>2, <2>4 DEF Stop, vars, IInv
  <2> QED BY <1>2, <2>1, <2>2, <2>3, <2>4 DEF Next
<1> QED BY <1>1, <1>2, PTL DEF Spec

\* A functor that is handed over once runs at most once (eventLoop.cc:188-208).
THEOREM AtMostOnce == Spec => []RunOnce
<1>1. IInv => RunOnce
  BY DEF IInv, Distinct, RunOnce
<1> QED BY <1>1, Inductive, PTL

\* The functors run in the order in which they were queued, up to the stop
\* (eventLoop.cc:143-208).
THEOREM InOrder == Spec => OldestFirst
<1>1. ASSUME IInv, [Next]_vars, NEW j \in 1..Len(queue), stopped \/ j > 1,
             NEW k \in 1..Len(executed'), executed'[k] = queue[j]
      PROVE  FALSE
  <2>1. /\ queue[j] \in Members(queue) /\ queue[j] \notin Members(executed)
        /\ queue[j] \notin fresh /\ executed \in Seq(Tasks)
    BY <1>1, LenProperties DEF IInv, Members
  <2>2. /\ Len(executed) \in Nat
        /\ \A f \in Tasks : /\ Len(Append(executed, f)) = Len(executed) + 1
                            /\ Append(executed, f)[Len(executed) + 1] = f
                            /\ \A i \in 1..Len(executed) :
                                  Append(executed, f)[i] = executed[i]
    BY <2>1, AppendProperties, LenProperties
  <2>3. executed' # executed
    BY <1>1, <2>1 DEF Members
  <2>4. ASSUME NEW f \in Tasks, executed' = Append(executed, f)
        PROVE  queue[j] = f
    <3>1. k \in 1..Len(executed) \/ k = Len(executed) + 1
      BY <1>1, <2>2, <2>4
    <3> QED BY <1>1, <2>1, <2>2, <2>4, <3>1 DEF Members
  <2>5. ASSUME NEW f \in Tasks, RunNow(f) PROVE FALSE
    BY <2>1, <2>4, <2>5 DEF RunNow
  <2>6. CASE Execute
    <3>1. ~stopped /\ queue # <<>> /\ executed' = Append(executed, Head(queue))
      BY <2>6 DEF Execute
    <3>2. /\ Head(queue) = queue[1] /\ Head(queue) \in Tasks
          /\ Len(queue) \in Nat /\ 1 \in 1..Len(queue) /\ j > 1
      BY <1>1, <3>1, HeadTailProperties, EmptySeq DEF IInv
    <3> QED BY <1>1, <2>4, <3>1, <3>2 DEF IInv, Distinct
  <2> QED BY <1>1, <2>3, <2>5, <2>6 DEF Next, Submit, Stop, vars
<1>2. IInv /\ [Next]_vars
        => [\A j \in 1..Len(queue) :
              stopped \/ j > 1
                => \A k \in 1..Len(executed') : executed'[k] # queue[j]]_vars
  BY <1>1
<1> QED BY <1>2, Inductive, PTL DEF Spec, OldestFirst
=============================================================================
