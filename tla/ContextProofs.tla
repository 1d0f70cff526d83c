--------------------------- MODULE ContextProofs ---------------------------
(***************************************************************************)
(* Proofs about module ContextBuilder: whatever is cut out of a list of      *)
(* messages, what the model gets has no result without its call, the         *)
(* question in it and bounded size; for any budgets, thresholds, sizes and   *)
(* numbers of calls.                                                       *)
(***************************************************************************)
EXTENDS ContextBuilder, FiniteSetTheorems, SequenceTheorems, WellFoundedInduction, TLAPS

-----------------------------------------------------------------------------
(* Messages, and lists of them.  Only the model asks for tools.              *)
Messages ==
  {m \in [role : {"system", "user", "assistant", "tool"},
          kind : {"prompt", "summary", "placeholder", "reminder", "input", "answer", "result", "compact"},
          size : Nat, of : Nat, calls : SUBSET Nat, answers : Nat] :
     /\ IsFiniteSet(m.calls) /\ Cardinality(m.calls) <= MaxCalls
     /\ m.role # "assistant" => m.calls = {}}

(* The system prompt is the first message and no other.                      *)
SystemFirst(list) ==
  Len(list) > 0 /\ \A i \in 1..Len(list) : list[i].role = "system" <=> i = 1

(* Each result has its call before it, with results only between.             *)
Paired(list) ==
  \A i \in ToolsIn(list) :
    \E j \in 1..i : Behind(list, i, j) /\ list[i].answers \in list[j].calls

(* The last message of a user is the question of the run, or one that came in    *)
(* its place.                                                              *)
Hears(m) == m.of = run \/ m.kind \in {"summary", "placeholder", "reminder"}
Heard(list) ==
  \E i \in UsersIn(list) : (\A k \in UsersIn(list) : k <= i) /\ Hears(list[i])

Proper(list) == list \in Seq(Messages) /\ SystemFirst(list) /\ Paired(list)

(* The run has a list of its own, in which the question is heard.             *)
Going == phase # "idle" => Proper(messages) /\ Heard(messages) /\ Heard(history)

(* Between the calls and their results both lists end with the calls.         *)
Asking ==
  phase = "tools" =>
    /\ history[Len(history)] = messages[Len(messages)]
    /\ messages[Len(messages)].role = "assistant"
    /\ \E before \in Nat, n \in 1..MaxCalls :
         messages[Len(messages)].calls = before + 1 .. before + n

(* The numbers of the calls so far have a greatest.                          *)
Issued ==
  \E before \in Nat : \A i \in 1..Len(history) : \A c \in history[i].calls : c <= before

Counts ==
  /\ phase \in {"idle", "ready", "asked", "tools"}
  /\ run \in Nat /\ retried \in BOOLEAN /\ reminders \in 0..2
  /\ phase = "idle" => messages = <<>>

BuilderInv == Counts /\ Proper(history) /\ Going /\ Asking /\ Issued /\ WithinBudget

-----------------------------------------------------------------------------
(* Numbers: a set of them has a least, and a bounded one a greatest.           *)
LEMMA LeastOf ==
  ASSUME NEW T \in SUBSET Nat, T # {}
  PROVE  \E x \in T : \A y \in T : x <= y
<1> DEFINE R == OpToRel(<, Nat)
<1>1. IsWellFoundedOn(R, Nat)
  BY NatLessThanWellFounded
<1>2. \A a, b \in Nat : a < b => <<a, b>> \in R
  BY DEF OpToRel
<1> HIDE DEF R
<1>3. PICK x \in T : \A y \in T : ~ (<<y, x>> \in R)
  BY <1>1, WFMin
<1>4. ASSUME NEW y \in T PROVE x <= y
  <2>1. x \in Nat /\ y \in Nat
    OBVIOUS
  <2>2. ~ (y < x)
    BY <1>2, <1>3, <2>1
  <2> QED
    BY <2>1, <2>2
<1> QED
  BY <1>3, <1>4

LEMMA GreatestOf ==
  ASSUME NEW T \in SUBSET Nat, T # {}, NEW b \in Nat, \A y \in T : y <= b
  PROVE  /\ Greatest(T) \in T
         /\ \A y \in T : y <= Greatest(T)
<1> DEFINE D == {n \in Nat : b - n \in T}
<1>1. PICK t \in T : TRUE
  OBVIOUS
<1>2. b - t \in Nat /\ b - (b - t) = t
  BY <1>1
<1>3. D \in SUBSET Nat /\ D # {}
  BY <1>1, <1>2
<1>4. PICK n \in D : \A d \in D : n <= d
  <2> HIDE DEF D
  <2> QED
    BY <1>3, LeastOf
<1>5. ASSUME NEW y \in T PROVE y <= b - n
  <2>1. b - y \in Nat /\ b - (b - y) = y
    OBVIOUS
  <2>2. n <= b - y
    BY <1>4, <2>1
  <2> QED
    BY <1>4, <2>2
<1>6. \E i \in T : \A j \in T : j <= i
  BY <1>4, <1>5
<1> QED
  BY <1>6 DEF Greatest

LEMMA LeastIs ==
  ASSUME NEW T \in SUBSET Nat, T # {}
  PROVE  /\ Least(T) \in T
         /\ \A y \in T : Least(T) <= y
  BY LeastOf DEF Least

(* A sum is defined up to every number, and its parts are numbers.            *)
LEMMA SumExists ==
  ASSUME NEW N \in Nat, NEW r
  PROVE  \E f : f = [n \in 0..N |-> IF n = 0 THEN 0 ELSE f[n - 1] + r[n]]
<1> DEFINE Sums(f, m) == f = [n \in 0..m |-> IF n = 0 THEN 0 ELSE f[n - 1] + r[n]]
           T == {m \in Nat : ~ \E f : Sums(f, m)}
<1>1. CASE T = {}
  BY <1>1
<1>2. CASE T # {}
  <2>1. PICK m \in T : \A y \in T : m <= y
    <3>1. T \in SUBSET Nat
      OBVIOUS
    <3> HIDE DEF T
    <3> QED
      BY <1>2, <3>1, LeastOf
  <2>2. m # 0
    <3>1. Sums([n \in 0..0 |-> 0], 0)
      OBVIOUS
    <3> QED
      BY <2>1, <3>1
  <2>3. PICK g : Sums(g, m - 1)
    <3>1. m - 1 \in Nat /\ ~ (m <= m - 1)
      BY <2>1, <2>2
    <3> QED
      BY <2>1, <3>1
  <2> DEFINE f == [n \in 0..m |-> IF n = m THEN g[m - 1] + r[m] ELSE g[n]]
  <2>4. ASSUME NEW n \in 0..m PROVE f[n] = IF n = 0 THEN 0 ELSE f[n - 1] + r[n]
    <3>1. m \in Nat /\ n \in Nat
      BY <2>1
    <3>2. CASE n = m
      BY <2>2, <3>1, <3>2
    <3>3. CASE n # m /\ n = 0
      BY <2>2, <2>3, <3>1, <3>3
    <3>4. CASE n # m /\ n # 0
      <4>1. n \in 0..m - 1 /\ n - 1 \in 0..m /\ n - 1 # m
        BY <3>1, <3>4
      <4>2. g[n] = g[n - 1] + r[n]
        BY <2>3, <3>4, <4>1
      <4> QED
        BY <3>4, <4>1, <4>2
    <3> QED
      BY <3>2, <3>3, <3>4
  <2>5. Sums(f, m)
    <3> HIDE DEF f
    <3>1. f = [n \in 0..m |-> f[n]]
      BY DEF f
    <3> QED
      BY <2>4, <3>1
  <2> QED
    BY <2>1, <2>5
<1> QED
  BY <1>1, <1>2

-----------------------------------------------------------------------------
(* The size of a list: what a message counts, and what lists count together.   *)
LEMMA MessageParts ==
  ASSUME NEW m \in Messages
  PROVE  /\ m.size \in Nat /\ m.of \in Nat /\ m.calls \in SUBSET Nat /\ m.answers \in Nat
         /\ m.role \in {"system", "user", "assistant", "tool"}
         /\ m.role # "assistant" => m.calls = {}
         /\ Cardinality(m.calls) \in Nat /\ Cardinality(m.calls) <= MaxCalls
         /\ DOMAIN m = {"role", "kind", "size", "of", "calls", "answers"}
         /\ Runes(m) \in Nat /\ Runes(m) = m.size + 1 + Cardinality(m.calls)
<1>1. Cardinality(m.calls) \in Nat
  BY FS_CardinalityType DEF Messages
<1> QED
  BY <1>1 DEF Messages, Runes

LEMMA Resized ==
  ASSUME NEW m \in Messages, NEW s \in Nat
  PROVE  /\ [m EXCEPT !.size = s] \in Messages
         /\ [m EXCEPT !.size = s].size = s /\ [m EXCEPT !.size = s].role = m.role
         /\ [m EXCEPT !.size = s].kind = m.kind /\ [m EXCEPT !.size = s].of = m.of
         /\ [m EXCEPT !.size = s].calls = m.calls /\ [m EXCEPT !.size = s].answers = m.answers
  BY DEF Messages

(* The sums of the first messages of a list, as the code adds them up.         *)
SumsOf(f, list) ==
  /\ f[0] = 0
  /\ \A n \in 1..Len(list) : f[n] = f[n - 1] + Runes(list[n])
  /\ \A n \in 0..Len(list) : f[n] \in Nat

LEMMA TotalSums ==
  ASSUME NEW list \in Seq(Messages)
  PROVE  \E f : SumsOf(f, list) /\ TotalRunes(list) = f[Len(list)]
<1> DEFINE r == [n \in 1..Len(list) |-> Runes(list[n])]
           Adds(f) == f = [n \in 0..Len(list) |-> IF n = 0 THEN 0 ELSE f[n - 1] + Runes(list[n])]
           f == CHOOSE f : Adds(f)
<1>1. Len(list) \in Nat
  OBVIOUS
<1>2. \E g : Adds(g)
  <2>1. PICK g : g = [n \in 0..Len(list) |-> IF n = 0 THEN 0 ELSE g[n - 1] + r[n]]
    <3> HIDE DEF r
    <3> QED
      BY <1>1, SumExists
  <2>2. \A n \in 0..Len(list) : n # 0 => r[n] = Runes(list[n])
    BY <1>1
  <2>3. [n \in 0..Len(list) |-> IF n = 0 THEN 0 ELSE g[n - 1] + r[n]]
          = [n \in 0..Len(list) |-> IF n = 0 THEN 0 ELSE g[n - 1] + Runes(list[n])]
    <3> HIDE DEF r
    <3> QED
      BY <2>2
  <2> QED
    BY <2>1, <2>3
<1>3. Adds(f)
  BY <1>2
<1>4. TotalRunes(list) = f[Len(list)]
  BY DEF TotalRunes
<1> HIDE DEF f
<1>5. f[0] = 0 /\ \A n \in 1..Len(list) : f[n] = f[n - 1] + Runes(list[n])
  BY <1>1, <1>3
<1>6. \A n \in 0..Len(list) : f[n] \in Nat
  <2> DEFINE T == {n \in Nat : n <= Len(list) /\ f[n] \notin Nat}
  <2>1. CASE T = {}
    BY <1>1, <2>1
  <2>2. CASE T # {}
    <3>1. PICK n \in T : \A y \in T : n <= y
      <4>1. T \in SUBSET Nat
        OBVIOUS
      <4> HIDE DEF T
      <4> QED
        BY <2>2, <4>1, LeastOf
    <3>2. n \in 1..Len(list)
      BY <1>1, <1>5, <3>1
    <3>3. f[n - 1] \in Nat
      BY <1>1, <3>1, <3>2
    <3>4. Runes(list[n]) \in Nat
      BY <3>2, MessageParts
    <3> QED
      BY <1>5, <3>1, <3>2, <3>3, <3>4
  <2> QED
    BY <2>1, <2>2
<1> QED
  BY <1>4, <1>5, <1>6 DEF SumsOf

(* Two lists one after the other count what both count.                       *)
LEMMA TotalOfBoth ==
  ASSUME NEW s \in Seq(Messages), NEW t \in Seq(Messages)
  PROVE  /\ TotalRunes(s) \in Nat
         /\ TotalRunes(s \o t) = TotalRunes(s) + TotalRunes(t)
<1>1. /\ Len(s) \in Nat /\ Len(t) \in Nat /\ s \o t \in Seq(Messages)
      /\ Len(s \o t) = Len(s) + Len(t)
  BY ConcatProperties
<1>2. PICK f : SumsOf(f, s) /\ TotalRunes(s) = f[Len(s)]
  BY TotalSums
<1>3. PICK g : SumsOf(g, t) /\ TotalRunes(t) = g[Len(t)]
  BY TotalSums
<1>4. PICK h : SumsOf(h, s \o t) /\ TotalRunes(s \o t) = h[Len(s \o t)]
  BY <1>1, TotalSums
<1>5. \A n \in 1..Len(s) : (s \o t)[n] = s[n]
  BY <1>1
<1>6. \A n \in 1..Len(t) : (s \o t)[Len(s) + n] = t[n]
  BY <1>1
<1> DEFINE sum(n) == IF n <= Len(s) THEN f[n] ELSE f[Len(s)] + g[n - Len(s)]
           T == {n \in Nat : n <= Len(s) + Len(t) /\ h[n] # sum(n)}
<1>7. T = {}
  <2> SUFFICES ASSUME T # {} PROVE FALSE
    OBVIOUS
  <2>1. PICK n \in T : \A y \in T : n <= y
    <3>1. T \in SUBSET Nat
      OBVIOUS
    <3> HIDE DEF T
    <3> QED
      BY <3>1, LeastOf
  <2>2. n \in 1..Len(s) + Len(t) /\ h[n] # sum(n)
    BY <1>1, <1>2, <1>4, <2>1 DEF SumsOf
  <2>3. n - 1 \in Nat /\ n - 1 <= Len(s) + Len(t) /\ ~ (n <= n - 1)
    BY <1>1, <2>2
  <2>4. h[n - 1] = sum(n - 1)
    BY <2>1, <2>3
  <2>5. h[n] = h[n - 1] + Runes((s \o t)[n])
    BY <1>1, <1>4, <2>2 DEF SumsOf
  <2>6. CASE n <= Len(s)
    <3>1. f[n] = f[n - 1] + Runes(s[n]) /\ (s \o t)[n] = s[n] /\ n - 1 <= Len(s)
      BY <1>1, <1>2, <1>5, <2>2, <2>6 DEF SumsOf
    <3> QED
      <4>1. sum(n) = f[n] /\ sum(n - 1) = f[n - 1]
        BY <2>6, <3>1
      <4> HIDE DEF sum
      <4> QED
        BY <2>2, <2>4, <2>5, <3>1, <4>1
  <2>7. CASE ~ (n <= Len(s))
    <3> DEFINE k == n - Len(s)
    <3>1. k \in 1..Len(t) /\ Len(s) + k = n /\ n - 1 - Len(s) = k - 1
      BY <1>1, <2>2, <2>7
    <3>2. g[k] = g[k - 1] + Runes(t[k]) /\ (s \o t)[n] = t[k]
      BY <1>3, <1>6, <3>1 DEF SumsOf
    <3>3. g[0] = 0 /\ f[Len(s)] \in Nat /\ g[k - 1] \in Nat /\ g[k] \in Nat
      BY <1>1, <1>2, <1>3, <3>1 DEF SumsOf
    <3>4. sum(n) = f[Len(s)] + g[k]
      BY <2>7
    <3>5. sum(n - 1) = f[Len(s)] + g[k - 1]
      <4>1. CASE k = 1
        BY <1>1, <2>2, <3>1, <3>3, <4>1
      <4>2. CASE k # 1
        <5>1. ~ (n - 1 <= Len(s))
          BY <1>1, <2>2, <2>7, <4>2
        <5> QED
          BY <3>1, <5>1
      <4> QED
        BY <4>1, <4>2
    <3> HIDE DEF k, sum
    <3>6. Runes(t[k]) \in Nat
      <4>1. t[k] \in Messages
        BY <3>1
      <4> QED
        BY <4>1, MessageParts
    <3> QED
      BY <2>2, <2>4, <2>5, <3>2, <3>3, <3>4, <3>5, <3>6
  <2> QED
    BY <2>6, <2>7
<1>8. h[Len(s) + Len(t)] = sum(Len(s) + Len(t))
  BY <1>1, <1>7
<1>9. sum(Len(s) + Len(t)) = f[Len(s)] + g[Len(t)]
  <2>1. f[Len(s)] \in Nat /\ g[0] = 0 /\ Len(s) + Len(t) - Len(s) = Len(t)
    BY <1>1, <1>2, <1>3 DEF SumsOf
  <2>2. CASE Len(t) = 0
    BY <1>1, <2>1, <2>2
  <2>3. CASE Len(t) # 0
    BY <1>1, <2>1, <2>3
  <2> QED
    BY <2>2, <2>3
<1>10. f[Len(s)] \in Nat
  BY <1>1, <1>2 DEF SumsOf
<1> QED
  BY <1>1, <1>2, <1>3, <1>4, <1>8, <1>9, <1>10

LEMMA TotalOfFew ==
  /\ TotalRunes(<<>>) = 0
  /\ \A m \in Messages : TotalRunes(<<m>>) = Runes(m)
<1>1. TotalRunes(<<>>) = 0
  <2>1. <<>> \in Seq(Messages) /\ Len(<<>>) = 0
    OBVIOUS
  <2>2. PICK f : SumsOf(f, <<>>) /\ TotalRunes(<<>>) = f[Len(<<>>)]
    BY <2>1, TotalSums
  <2> QED
    BY <2>1, <2>2 DEF SumsOf
<1>2. ASSUME NEW m \in Messages PROVE TotalRunes(<<m>>) = Runes(m)
  <2> DEFINE s == <<m>>
  <2>1. s \in Seq(Messages) /\ Len(s) = 1 /\ s[1] = m
    OBVIOUS
  <2> HIDE DEF s
  <2>2. PICK f : SumsOf(f, s) /\ TotalRunes(s) = f[Len(s)]
    BY <2>1, TotalSums
  <2>3. f[1] = f[0] + Runes(m) /\ f[0] = 0
    BY <2>1, <2>2 DEF SumsOf
  <2>4. Runes(m) \in Nat
    BY MessageParts
  <2> QED
    BY <2>1, <2>2, <2>3, <2>4 DEF s
<1> QED
  BY <1>1, <1>2

-----------------------------------------------------------------------------
(* Parts of a list.                                                        *)
LEMMA FromParts ==
  ASSUME NEW list \in Seq(Messages), NEW i \in 1..Len(list) + 1
  PROVE  /\ From(list, i) \in Seq(Messages)
         /\ Len(From(list, i)) = Len(list) - i + 1
         /\ \A k \in 1..Len(list) - i + 1 : From(list, i)[k] = list[i + k - 1]
<1>1. Len(list) \in Nat /\ i \in Nat
  OBVIOUS
<1>2. \A k \in i..Len(list) : list[k] \in Messages
  BY <1>1
<1>3. /\ SubSeq(list, i, Len(list)) \in Seq(Messages)
      /\ Len(SubSeq(list, i, Len(list))) = IF i <= Len(list) THEN Len(list) - i + 1 ELSE 0
      /\ \A k \in 1..Len(list) - i + 1 : SubSeq(list, i, Len(list))[k] = list[i + k - 1]
  BY <1>1, <1>2, SubSeqProperties
<1> QED
  BY <1>1, <1>3 DEF From

LEMMA FirstParts ==
  ASSUME NEW list \in Seq(Messages), NEW n \in 0..Len(list)
  PROVE  /\ SubSeq(list, 1, n) \in Seq(Messages)
         /\ Len(SubSeq(list, 1, n)) = n
         /\ \A k \in 1..n : SubSeq(list, 1, n)[k] = list[k]
<1>1. Len(list) \in Nat /\ n \in Nat
  OBVIOUS
<1>2. \A k \in 1..n : list[k] \in Messages
  BY <1>1
<1>3. /\ SubSeq(list, 1, n) \in Seq(Messages)
      /\ Len(SubSeq(list, 1, n)) = IF 1 <= n THEN n - 1 + 1 ELSE 0
      /\ \A k \in 1..n - 1 + 1 : SubSeq(list, 1, n)[k] = list[1 + k - 1]
  BY <1>1, <1>2, SubSeqProperties
<1> QED
  BY <1>1, <1>3

LEMMA TailIsFrom ==
  ASSUME NEW list \in Seq(Messages), list # <<>>
  PROVE  Tail(list) = From(list, 2)
  BY TailIsSubSeq DEF From

LEMMA JoinParts ==
  ASSUME NEW s \in Seq(Messages), NEW t \in Seq(Messages)
  PROVE  /\ s \o t \in Seq(Messages) /\ Len(s \o t) = Len(s) + Len(t)
         /\ \A k \in 1..Len(s) : (s \o t)[k] = s[k]
         /\ \A k \in 1..Len(t) : (s \o t)[Len(s) + k] = t[k]
         /\ \A k \in 1..Len(s \o t) : k \in 1..Len(s) \/ k - Len(s) \in 1..Len(t)
  BY ConcatProperties

LEMMA OneParts ==
  ASSUME NEW m \in Messages
  PROVE  <<m>> \in Seq(Messages) /\ Len(<<m>>) = 1 /\ <<m>>[1] = m
  OBVIOUS

LEMMA AddParts ==
  ASSUME NEW s \in Seq(Messages), NEW m \in Messages
  PROVE  /\ Append(s, m) \in Seq(Messages) /\ Len(Append(s, m)) = Len(s) + 1
         /\ Append(s, m)[Len(s) + 1] = m /\ \A k \in 1..Len(s) : Append(s, m)[k] = s[k]
         /\ Append(s, m) = s \o <<m>>
  OBVIOUS

-----------------------------------------------------------------------------
(* Results behind their calls.                                             *)

(* What two lists have in common that differ in sizes at most.                *)
SameButSizes(s, t) ==
  Len(s) = Len(t) /\ \A i \in 1..Len(s) :
    /\ s[i].role = t[i].role /\ s[i].kind = t[i].kind /\ s[i].of = t[i].of
    /\ s[i].calls = t[i].calls /\ s[i].answers = t[i].answers

LEMMA PairedBySame ==
  ASSUME NEW s \in Seq(Messages), NEW t \in Seq(Messages), SameButSizes(s, t), Paired(s)
  PROVE  Paired(t)
<1>1. Len(s) = Len(t) /\ Len(s) \in Nat
  BY DEF SameButSizes
<1>2. ToolsIn(t) = ToolsIn(s)
  BY <1>1 DEF SameButSizes, ToolsIn
<1>3. ASSUME NEW i \in ToolsIn(t)
      PROVE  \E j \in 1..i : Behind(t, i, j) /\ t[i].answers \in t[j].calls
  <2>1. PICK j \in 1..i : Behind(s, i, j) /\ s[i].answers \in s[j].calls
    BY <1>2, <1>3 DEF Paired
  <2>2. i \in 1..Len(s) /\ j \in 1..Len(s)
    BY <1>1, <1>3, <2>1 DEF ToolsIn
  <2> QED
    BY <1>1, <1>2, <2>1, <2>2 DEF Behind, HasToolUse, SameButSizes
<1> QED
  BY <1>3 DEF Paired

LEMMA PairedFirst ==
  ASSUME NEW list \in Seq(Messages), Paired(list), NEW n \in 0..Len(list)
  PROVE  Paired(SubSeq(list, 1, n))
<1> DEFINE s == SubSeq(list, 1, n)
<1>1. /\ s \in Seq(Messages) /\ Len(s) = n /\ n \in Nat /\ Len(list) \in Nat
      /\ \A k \in 1..n : s[k] = list[k]
  BY FirstParts
<1> HIDE DEF s
<1>2. ASSUME NEW i \in ToolsIn(s)
      PROVE  \E j \in 1..i : Behind(s, i, j) /\ s[i].answers \in s[j].calls
  <2>1. i \in 1..n /\ i \in ToolsIn(list)
    BY <1>1, <1>2 DEF ToolsIn
  <2>2. PICK j \in 1..i : Behind(list, i, j) /\ list[i].answers \in list[j].calls
    BY <2>1 DEF Paired
  <2>3. j \in 1..n
    BY <1>1, <2>1, <2>2
  <2>4. j + 1 .. i \subseteq ToolsIn(s)
    BY <1>1, <2>1, <2>2, <2>3 DEF Behind, ToolsIn
  <2> QED
    BY <1>1, <2>1, <2>2, <2>3, <2>4 DEF Behind, HasToolUse
<1> QED
  BY <1>2 DEF Paired, s

(* A tail stays paired unless it starts among the results of a call.           *)
LEMMA PairedFrom ==
  ASSUME NEW list \in Seq(Messages), Paired(list), NEW i \in 1..Len(list) + 1,
         i <= Len(list) => \A j \in 1..i - 1 : ~ Behind(list, i, j)
  PROVE  Paired(From(list, i))
<1> DEFINE s == From(list, i)
<1>1. /\ s \in Seq(Messages) /\ Len(s) = Len(list) - i + 1 /\ i \in Nat /\ Len(list) \in Nat
      /\ \A k \in 1..Len(list) - i + 1 : s[k] = list[i + k - 1]
  BY FromParts
<1> HIDE DEF s
<1>2. ASSUME NEW k \in ToolsIn(s)
      PROVE  \E j \in 1..k : Behind(s, k, j) /\ s[k].answers \in s[j].calls
  <2>1. k \in 1..Len(s) /\ i + k - 1 \in 1..Len(list)
    BY <1>1, <1>2 DEF ToolsIn
  <2>2. i + k - 1 \in ToolsIn(list) /\ s[k] = list[i + k - 1]
    BY <1>1, <1>2, <2>1 DEF ToolsIn
  <2>3. PICK j \in 1..i + k - 1 : /\ Behind(list, i + k - 1, j)
                                  /\ list[i + k - 1].answers \in list[j].calls
    BY <2>2 DEF Paired
  <2>4. j < i + k - 1 /\ HasToolUse(list[j]) /\ j + 1 .. i + k - 1 \subseteq ToolsIn(list)
    BY <2>3 DEF Behind
  <2>5. j >= i
    <3> SUFFICES ASSUME j < i PROVE FALSE
      BY <1>1, <2>1, <2>3
    <3>1. j \in 1..i - 1 /\ i <= Len(list) /\ j + 1 .. i \subseteq j + 1 .. i + k - 1
      BY <1>1, <2>1, <2>3
    <3>2. Behind(list, i, j)
      BY <2>4, <3>1 DEF Behind
    <3> QED
      BY <3>1, <3>2
  <2> DEFINE l == j - i + 1
  <2>6. l \in 1..k /\ l < k /\ l \in 1..Len(s) /\ i + l - 1 = j
    BY <1>1, <2>1, <2>3, <2>4, <2>5
  <2>7. s[l] = list[j]
    BY <1>1, <2>6
  <2> HIDE DEF l
  <2>8. l + 1 .. k \subseteq ToolsIn(s)
    <3> SUFFICES ASSUME NEW m \in l + 1 .. k PROVE m \in ToolsIn(s)
      OBVIOUS
    <3>1. m \in 1..Len(s) /\ i + m - 1 \in j + 1 .. i + k - 1
      BY <1>1, <2>1, <2>6
    <3>2. s[m] = list[i + m - 1] /\ i + m - 1 \in ToolsIn(list)
      BY <1>1, <2>4, <3>1
    <3> QED
      BY <3>1, <3>2 DEF ToolsIn
  <2>9. Behind(s, k, l) /\ s[k].answers \in s[l].calls
    BY <2>2, <2>3, <2>4, <2>6, <2>7, <2>8 DEF Behind
  <2> QED
    BY <2>6, <2>9
<1> QED
  BY <1>2 DEF Paired, s

LEMMA PairedJoined ==
  ASSUME NEW s \in Seq(Messages), NEW t \in Seq(Messages), Paired(s), Paired(t)
  PROVE  Paired(s \o t)
<1> DEFINE u == s \o t
<1>1. /\ u \in Seq(Messages) /\ Len(u) = Len(s) + Len(t) /\ Len(s) \in Nat /\ Len(t) \in Nat
      /\ \A k \in 1..Len(s) : u[k] = s[k]
      /\ \A k \in 1..Len(t) : u[Len(s) + k] = t[k]
  BY JoinParts
<1> HIDE DEF u
<1>2. ASSUME NEW i \in ToolsIn(u)
      PROVE  \E j \in 1..i : Behind(u, i, j) /\ u[i].answers \in u[j].calls
  <2>1. i \in 1..Len(u) /\ u[i].role = "tool"
    BY DEF ToolsIn
  <2>2. CASE i <= Len(s)
    <3>1. i \in ToolsIn(s) /\ u[i] = s[i]
      BY <1>1, <2>1, <2>2 DEF ToolsIn
    <3>2. PICK j \in 1..i : Behind(s, i, j) /\ s[i].answers \in s[j].calls
      BY <3>1 DEF Paired
    <3>3. u[j] = s[j]
      BY <1>1, <2>1, <2>2, <3>2
    <3>4. ASSUME NEW m \in j + 1 .. i PROVE m \in ToolsIn(u)
      <4>1. m \in 1..Len(s) /\ m \in 1..Len(u)
        BY <1>1, <2>1, <2>2, <3>2
      <4>2. s[m].role = "tool"
        BY <3>2 DEF Behind, ToolsIn
      <4> QED
        BY <1>1, <4>1, <4>2 DEF ToolsIn
    <3> QED
      BY <3>1, <3>2, <3>3, <3>4 DEF Behind
  <2>3. CASE i > Len(s)
    <3> DEFINE k == i - Len(s)
    <3>1. k \in 1..Len(t) /\ Len(s) + k = i
      BY <1>1, <2>1, <2>3
    <3>2. u[i] = t[k] /\ k \in ToolsIn(t)
      <4>1. u[Len(s) + k] = t[k]
        BY <1>1, <3>1
      <4> QED
        BY <2>1, <3>1, <4>1 DEF ToolsIn
    <3>3. PICK l \in 1..k : Behind(t, k, l) /\ t[k].answers \in t[l].calls
      BY <3>2 DEF Paired
    <3> DEFINE j == Len(s) + l
    <3>4. j \in 1..i /\ j < i /\ l \in 1..Len(t)
      BY <1>1, <3>1, <3>3 DEF Behind
    <3>5. u[j] = t[l]
      BY <1>1, <3>4
    <3>6. ASSUME NEW m \in j + 1 .. i PROVE m \in ToolsIn(u)
      <4>1. m - Len(s) \in l + 1 .. k /\ m - Len(s) \in 1..Len(t) /\ Len(s) + (m - Len(s)) = m
        BY <1>1, <3>1, <3>3
      <4>2. t[m - Len(s)].role = "tool"
        BY <3>3, <4>1 DEF Behind, ToolsIn
      <4>3. u[m] = t[m - Len(s)]
        BY <1>1, <4>1
      <4>4. m \in 1..Len(u)
        BY <1>1, <4>1
      <4> QED
        BY <4>2, <4>3, <4>4 DEF ToolsIn
    <3> HIDE DEF j, k
    <3>7. Behind(u, i, j) /\ u[i].answers \in u[j].calls
      BY <3>2, <3>3, <3>4, <3>5, <3>6 DEF Behind
    <3> QED
      BY <3>4, <3>7
  <2> QED
    BY <1>1, <2>1, <2>2, <2>3
<1> QED
  BY <1>2 DEF Paired, u

(* One message that is no result.                                           *)
LEMMA PairedOne ==
  ASSUME NEW m \in Messages, m.role # "tool"
  PROVE  Paired(<<m>>)
  BY OneParts DEF Paired, ToolsIn

(* Behind a message that asks for nothing a new tail may start, and at one that  *)
(* is no result.                                                           *)
LEMMA PairedTail ==
  ASSUME NEW list \in Seq(Messages), Paired(list), list # <<>>, list[1].role # "assistant"
  PROVE  /\ Tail(list) \in Seq(Messages) /\ Len(Tail(list)) = Len(list) - 1 /\ Paired(Tail(list))
         /\ \A k \in 1..Len(list) - 1 : Tail(list)[k] = list[k + 1]
<1>1. Len(list) \in Nat \ {0} /\ list[1] \in Messages
  OBVIOUS
<1>2. list[1].calls = {}
  BY <1>1, MessageParts
<1>3. \A j \in 1..2 - 1 : ~ Behind(list, 2, j)
  BY <1>2 DEF Behind, HasToolUse
<1>4. 2 \in 1..Len(list) + 1
  BY <1>1
<1>5. Paired(From(list, 2))
  BY <1>3, <1>4, PairedFrom
<1>6. /\ From(list, 2) \in Seq(Messages) /\ Len(From(list, 2)) = Len(list) - 2 + 1
      /\ \A k \in 1..Len(list) - 2 + 1 : From(list, 2)[k] = list[2 + k - 1]
  BY <1>4, FromParts
<1>7. ASSUME NEW k \in 1..Len(list) - 1 PROVE From(list, 2)[k] = list[k + 1]
  <2>1. k \in 1..Len(list) - 2 + 1 /\ 2 + k - 1 = k + 1
    BY <1>1
  <2> QED
    BY <1>6, <2>1
<1>8. Tail(list) = From(list, 2)
  BY TailIsFrom
<1>9. Len(From(list, 2)) = Len(list) - 1
  BY <1>1, <1>6
<1> QED
  BY <1>5, <1>6, <1>7, <1>8, <1>9, Zenon

-----------------------------------------------------------------------------
(* The system prompt and the question of the user.                           *)
NoSystem(list) == \A i \in 1..Len(list) : list[i].role # "system"

LEMMA SystemBefore ==
  ASSUME NEW s \in Seq(Messages), NEW t \in Seq(Messages), SystemFirst(s), NoSystem(t)
  PROVE  SystemFirst(s \o t)
<1>1. /\ Len(s \o t) = Len(s) + Len(t) /\ Len(s) \in Nat /\ Len(t) \in Nat
      /\ \A k \in 1..Len(s) : (s \o t)[k] = s[k]
      /\ \A k \in 1..Len(t) : (s \o t)[Len(s) + k] = t[k]
  BY JoinParts
<1>2. ASSUME NEW i \in 1..Len(s \o t) PROVE (s \o t)[i].role = "system" <=> i = 1
  <2>1. CASE i <= Len(s)
    BY <1>1, <2>1 DEF SystemFirst
  <2>2. CASE i > Len(s)
    <3>1. i - Len(s) \in 1..Len(t) /\ Len(s) + (i - Len(s)) = i /\ i # 1
      BY <1>1, <2>2 DEF SystemFirst
    <3>2. (s \o t)[i] = t[i - Len(s)]
      BY <1>1, <3>1
    <3> QED
      BY <3>1, <3>2 DEF NoSystem
  <2> QED
    BY <1>1, <2>1, <2>2
<1> QED
  BY <1>1, <1>2 DEF SystemFirst

LEMMA NoSystemJoined ==
  ASSUME NEW s \in Seq(Messages), NEW t \in Seq(Messages), NoSystem(s), NoSystem(t)
  PROVE  NoSystem(s \o t)
<1>1. /\ Len(s \o t) = Len(s) + Len(t) /\ Len(s) \in Nat /\ Len(t) \in Nat
      /\ \A k \in 1..Len(s) : (s \o t)[k] = s[k]
      /\ \A k \in 1..Len(t) : (s \o t)[Len(s) + k] = t[k]
      /\ \A k \in 1..Len(s \o t) : k \in 1..Len(s) \/ k - Len(s) \in 1..Len(t)
  BY JoinParts
<1>2. ASSUME NEW i \in 1..Len(s \o t) PROVE (s \o t)[i].role # "system"
  <2>1. CASE i \in 1..Len(s)
    BY <1>1, <2>1 DEF NoSystem
  <2>2. CASE i - Len(s) \in 1..Len(t)
    <3>1. Len(s) + (i - Len(s)) = i
      BY <1>1
    <3>2. (s \o t)[i] = t[i - Len(s)]
      BY <1>1, <2>2, <3>1
    <3> QED
      BY <2>2, <3>2 DEF NoSystem
  <2> QED
    BY <1>1, <2>1, <2>2
<1> QED
  BY <1>2 DEF NoSystem

LEMMA NoSystemFrom ==
  ASSUME NEW list \in Seq(Messages), NEW i \in 1..Len(list) + 1,
         (SystemFirst(list) /\ i > 1) \/ NoSystem(list)
  PROVE  NoSystem(From(list, i))
<1>1. /\ Len(From(list, i)) = Len(list) - i + 1 /\ Len(list) \in Nat /\ i \in Nat
      /\ \A k \in 1..Len(list) - i + 1 : From(list, i)[k] = list[i + k - 1]
  BY FromParts
<1>2. ASSUME NEW k \in 1..Len(From(list, i)) PROVE From(list, i)[k].role # "system"
  <2>1. i + k - 1 \in 1..Len(list) /\ (i > 1 => i + k - 1 # 1)
    BY <1>1
  <2>2. From(list, i)[k] = list[i + k - 1]
    BY <1>1
  <2> QED
    BY <2>1, <2>2 DEF SystemFirst, NoSystem
<1> QED
  BY <1>2 DEF NoSystem

(* What comes before the question does not matter, nor what comes behind it and  *)
(* is not of a user.                                                       *)
LEMMA HeardBehind ==
  ASSUME NEW s \in Seq(Messages), NEW t \in Seq(Messages), Heard(t)
  PROVE  Heard(s \o t)
<1> DEFINE u == s \o t
<1>1. /\ Len(u) = Len(s) + Len(t) /\ Len(s) \in Nat /\ Len(t) \in Nat
      /\ \A k \in 1..Len(t) : u[Len(s) + k] = t[k]
  BY JoinParts
<1> HIDE DEF u
<1>2. PICK i \in UsersIn(t) : (\A k \in UsersIn(t) : k <= i) /\ Hears(t[i])
  BY DEF Heard
<1>3. i \in 1..Len(t) /\ Len(s) + i \in UsersIn(u) /\ u[Len(s) + i] = t[i]
  BY <1>1, <1>2 DEF UsersIn
<1>4. ASSUME NEW k \in UsersIn(u) PROVE k <= Len(s) + i
  <2>1. CASE k <= Len(s)
    BY <1>1, <1>3, <2>1 DEF UsersIn
  <2>2. CASE k > Len(s)
    <3>1. k - Len(s) \in 1..Len(t) /\ Len(s) + (k - Len(s)) = k /\ u[k].role = "user"
      BY <1>1, <2>2 DEF UsersIn
    <3>2. u[k] = t[k - Len(s)]
      BY <1>1, <3>1
    <3>3. k - Len(s) \in UsersIn(t)
      BY <3>1, <3>2 DEF UsersIn
    <3> QED
      BY <1>1, <1>2, <1>3, <3>1, <3>3
  <2> QED
    BY <1>1, <2>1, <2>2 DEF UsersIn
<1> QED
  BY <1>2, <1>3, <1>4 DEF Heard, u

LEMMA HeardBefore ==
  ASSUME NEW s \in Seq(Messages), NEW t \in Seq(Messages), Heard(s), UsersIn(t) = {}
  PROVE  Heard(s \o t)
<1> DEFINE u == s \o t
<1>1. /\ Len(u) = Len(s) + Len(t) /\ Len(s) \in Nat /\ Len(t) \in Nat
      /\ \A k \in 1..Len(s) : u[k] = s[k]
      /\ \A k \in 1..Len(t) : u[Len(s) + k] = t[k]
  BY JoinParts
<1> HIDE DEF u
<1>2. PICK i \in UsersIn(s) : (\A k \in UsersIn(s) : k <= i) /\ Hears(s[i])
  BY DEF Heard
<1>3. i \in UsersIn(u) /\ u[i] = s[i]
  BY <1>1, <1>2 DEF UsersIn
<1>4. ASSUME NEW k \in UsersIn(u) PROVE k \in UsersIn(s)
  <2>1. CASE k <= Len(s)
    BY <1>1, <2>1 DEF UsersIn
  <2>2. CASE k > Len(s)
    <3>1. k - Len(s) \in 1..Len(t) /\ Len(s) + (k - Len(s)) = k /\ u[k].role = "user"
      BY <1>1, <2>2 DEF UsersIn
    <3>2. u[k] = t[k - Len(s)]
      BY <1>1, <3>1
    <3> QED
      BY <3>1, <3>2 DEF UsersIn
  <2> QED
    BY <1>1, <2>1, <2>2 DEF UsersIn
<1> QED
  BY <1>2, <1>3, <1>4 DEF Heard, u

LEMMA HeardFrom ==
  ASSUME NEW list \in Seq(Messages), Heard(list), NEW i \in 1..Len(list) + 1
  PROVE  Heard(From(list, i)) \/ UsersIn(From(list, i)) = {}
<1> DEFINE s == From(list, i)
<1>1. /\ Len(s) = Len(list) - i + 1 /\ Len(list) \in Nat /\ i \in Nat
      /\ \A k \in 1..Len(list) - i + 1 : s[k] = list[i + k - 1]
  BY FromParts
<1> HIDE DEF s
<1>2. PICK l \in UsersIn(list) : (\A k \in UsersIn(list) : k <= l) /\ Hears(list[l])
  BY DEF Heard
<1>3. ASSUME NEW k \in UsersIn(s)
      PROVE  i + k - 1 \in UsersIn(list) /\ i + k - 1 <= l
  <2>1. k \in 1..Len(s) /\ i + k - 1 \in 1..Len(list) /\ s[k] = list[i + k - 1]
    BY <1>1 DEF UsersIn
  <2>2. i + k - 1 \in UsersIn(list)
    BY <2>1 DEF UsersIn
  <2> QED
    BY <1>2, <2>2
<1>4. CASE l >= i
  <2> DEFINE k == l - i + 1
  <2>1. k \in 1..Len(s) /\ i + k - 1 = l
    BY <1>1, <1>2, <1>4 DEF UsersIn
  <2>2. s[k] = list[l]
    BY <1>1, <2>1
  <2>3. k \in UsersIn(s)
    BY <1>2, <2>1, <2>2 DEF UsersIn
  <2>4. ASSUME NEW m \in UsersIn(s) PROVE m <= k
    <3>1. i + m - 1 <= l /\ m \in Nat /\ l \in Nat
      BY <1>2, <1>3 DEF UsersIn
    <3> QED
      BY <1>1, <3>1
  <2> HIDE DEF k
  <2> QED
    BY <1>2, <2>2, <2>3, <2>4 DEF Heard, s
<1>5. CASE l < i
  <2>1. ASSUME NEW k \in UsersIn(s) PROVE FALSE
    <3>1. i + k - 1 <= l /\ k \in Nat /\ k >= 1 /\ l \in Nat
      BY <1>1, <1>2, <1>3 DEF UsersIn
    <3> QED
      BY <1>1, <1>5, <3>1
  <2> QED
    BY <2>1 DEF s
<1>6. l \in Nat
  BY <1>2 DEF UsersIn
<1> QED
  BY <1>1, <1>4, <1>5, <1>6

LEMMA HeardOne ==
  ASSUME NEW m \in Messages, m.role = "user", Hears(m)
  PROVE  Heard(<<m>>)
<1>1. 1 \in UsersIn(<<m>>) /\ <<m>>[1] = m /\ \A k \in UsersIn(<<m>>) : k <= 1
  BY OneParts DEF UsersIn
<1> QED
  BY <1>1 DEF Heard

(* A list whose sizes change stays what it is.                               *)
LEMMA Resizing ==
  ASSUME NEW list \in Seq(Messages), NEW t, t = [i \in 1..Len(list) |-> t[i]],
         \A i \in 1..Len(list) : t[i] = list[i] \/ \E s \in Nat : t[i] = [list[i] EXCEPT !.size = s]
  PROVE  t \in Seq(Messages) /\ SameButSizes(list, t)
<1>1. Len(list) \in Nat
  OBVIOUS
<1>2. ASSUME NEW i \in 1..Len(list)
      PROVE  /\ t[i] \in Messages /\ list[i].role = t[i].role /\ list[i].kind = t[i].kind
             /\ list[i].of = t[i].of /\ list[i].calls = t[i].calls /\ list[i].answers = t[i].answers
  <2>1. list[i] \in Messages
    OBVIOUS
  <2>2. CASE t[i] = list[i]
    BY <2>1, <2>2
  <2>3. ASSUME NEW s \in Nat, t[i] = [list[i] EXCEPT !.size = s]
        PROVE  /\ t[i] \in Messages /\ list[i].role = t[i].role /\ list[i].kind = t[i].kind
               /\ list[i].of = t[i].of /\ list[i].calls = t[i].calls /\ list[i].answers = t[i].answers
    <3> DEFINE m == [list[i] EXCEPT !.size = s]
    <3>1. /\ m \in Messages /\ m.role = list[i].role /\ m.kind = list[i].kind
          /\ m.of = list[i].of /\ m.calls = list[i].calls /\ m.answers = list[i].answers
      BY <2>1, Resized
    <3>2. t[i] = m
      BY <2>3
    <3> HIDE DEF m
    <3> QED
      BY <3>1, <3>2
  <2> QED
    BY <2>2, <2>3
<1>3. t \in [1..Len(list) -> Messages]
  BY <1>2
<1>4. t \in Seq(Messages) /\ Len(t) = Len(list)
  BY <1>1, <1>3
<1> QED
  BY <1>2, <1>4 DEF SameButSizes

LEMMA ProperBySame ==
  ASSUME NEW s, Proper(s), NEW t \in Seq(Messages), SameButSizes(s, t)
  PROVE  Proper(t) /\ (Heard(s) => Heard(t))
<1>1. s \in Seq(Messages) /\ Len(s) = Len(t) /\ Len(s) \in Nat
  BY DEF Proper, SameButSizes
<1>2. Paired(t)
  BY <1>1, PairedBySame DEF Proper
<1>3. SystemFirst(t)
  BY <1>1 DEF Proper, SystemFirst, SameButSizes
<1>4. UsersIn(t) = UsersIn(s)
  BY <1>1 DEF UsersIn, SameButSizes
<1>5. Heard(s) => Heard(t)
  BY <1>1, <1>4 DEF Heard, Hears, SameButSizes, UsersIn
<1> QED
  BY <1>2, <1>3, <1>5 DEF Proper

-----------------------------------------------------------------------------
(* BuildPreCompact: what it does to a list leaves a conversation.              *)
LEMMA ApplyKeeps ==
  ASSUME NEW list, Proper(list), NEW saved
  PROVE  LET t == ApplyToolResultBudget(list, saved)
         IN Proper(t) /\ (Heard(list) => Heard(t))
<1> DEFINE t == ApplyToolResultBudget(list, saved)
<1>1. list \in Seq(Messages)
  BY DEF Proper
<1>2. Preview + 1 \in Nat
  BY ContextAssumption DEF ContextAssumption
<1>3. /\ t = [i \in 1..Len(list) |-> t[i]]
      /\ \A i \in 1..Len(list) :
           \/ t[i] = list[i]
           \/ t[i] = [list[i] EXCEPT !.size = IF saved THEN Preview + 1 ELSE 1]
  BY DEF ApplyToolResultBudget
<1> HIDE DEF t
<1>4. t \in Seq(Messages) /\ SameButSizes(list, t)
  <2> DEFINE s == IF saved THEN Preview + 1 ELSE 1
  <2>1. s \in Nat
    BY <1>2
  <2> HIDE DEF s
  <2>2. \A i \in 1..Len(list) : t[i] = list[i] \/ t[i] = [list[i] EXCEPT !.size = s]
    BY <1>3 DEF s
  <2> QED
    BY <1>1, <1>3, <2>1, <2>2, Resizing
<1> QED
  BY <1>4, ProperBySame DEF t

LEMMA MicroKeeps ==
  ASSUME NEW list, Proper(list)
  PROVE  Proper(MicroCompact(list)) /\ (Heard(list) => Heard(MicroCompact(list)))
<1> DEFINE t == MicroCompact(list)
<1>1. list \in Seq(Messages)
  BY DEF Proper
<1>2. /\ t = [i \in 1..Len(list) |-> t[i]]
      /\ \A i \in 1..Len(list) : t[i] = list[i] \/ t[i] = [list[i] EXCEPT !.size = 1]
  BY DEF MicroCompact
<1> HIDE DEF t
<1>3. t \in Seq(Messages) /\ SameButSizes(list, t)
  BY <1>1, <1>2, Resizing
<1> QED
  BY <1>3, ProperBySame DEF t

(* A tail starts no later than was asked for, and never among the results of a    *)
(* call.                                                                   *)
LEMMA PairedStartParts ==
  ASSUME NEW list \in Seq(Messages), NEW start \in 1..Len(list) + 1
  PROVE  /\ PairedStart(list, start) \in 1..Len(list) + 1
         /\ PairedStart(list, start) <= start
         /\ PairedStart(list, start) <= Len(list) =>
              \A j \in 1..PairedStart(list, start) - 1 : ~ Behind(list, PairedStart(list, start), j)
<1> DEFINE callers == {j \in 1..Len(list) : start <= Len(list) /\ Behind(list, start, j)}
<1>1. Len(list) \in Nat /\ start \in Nat
  OBVIOUS
<1>2. CASE callers = {}
  <2>1. PairedStart(list, start) = start
    BY <1>2 DEF PairedStart
  <2>2. start <= Len(list) => \A j \in 1..start - 1 : ~ Behind(list, start, j)
    BY <1>1, <1>2
  <2> QED
    BY <1>1, <2>1, <2>2
<1>3. CASE callers # {}
  <2> DEFINE s == PairedStart(list, start)
  <2>1. s \in callers
    BY <1>3 DEF PairedStart
  <2>2. s \in 1..Len(list) /\ s < start /\ list[s] \in Messages /\ list[s].calls # {}
    BY <1>1, <2>1 DEF Behind, HasToolUse
  <2>3. list[s].role # "tool"
    BY <2>2, MessageParts
  <2> HIDE DEF s
  <2>4. ASSUME NEW j \in 1..s - 1, Behind(list, s, j) PROVE FALSE
    <3>1. s \in j + 1 .. s
      BY <1>1, <2>2
    <3> QED
      BY <2>3, <2>4, <3>1 DEF Behind, ToolsIn
  <2> QED
    BY <1>1, <2>2, <2>4 DEF s
<1> QED
  BY <1>2, <1>3

LEMMA Notes ==
  /\ {System, Summary, Placeholder, Reminder} \subseteq Messages
  /\ System.role = "system"
  /\ \A m \in {Summary, Placeholder, Reminder} : m.role = "user" /\ Hears(m)
<1>1. IsFiniteSet({}) /\ Cardinality({}) = 0
  BY FS_EmptySet
<1>2. MaxCalls \in Nat
  BY ContextAssumption DEF ContextAssumption
<1> QED
  BY <1>1, <1>2 DEF Messages, System, Summary, Placeholder, Reminder, Message, Hears

(* The note in the middle is heard when the question went with the middle.       *)
LEMMA SnipKeeps ==
  ASSUME NEW list, Proper(list)
  PROVE  Proper(Snip(list)) /\ (Heard(list) => Heard(Snip(list)))
<1> DEFINE tail == MaxConversation - SnipHead - 1
           Ends(e) == /\ e = SnipHead \/ Behind(list, e, SnipHead)
                      /\ e = Len(list) \/ ~ Behind(list, e + 1, SnipHead)
           headEnd == CHOOSE e \in SnipHead..Len(list) : Ends(e)
           start == PairedStart(list, Len(list) - tail + 1)
<1>1. list \in Seq(Messages) /\ Len(list) \in Nat /\ Paired(list) /\ SystemFirst(list)
  BY DEF Proper
<1>2. /\ SnipHead \in Nat \ {0} /\ tail \in Nat \ {0} /\ MaxConversation \in Nat
      /\ tail < MaxConversation /\ SnipHead < MaxConversation
  BY ContextAssumption DEF ContextAssumption
<1>3. CASE Len(list) <= MaxConversation \/ headEnd + 1 >= start
  BY <1>3 DEF Snip
<1>4. CASE ~ (Len(list) <= MaxConversation \/ headEnd + 1 >= start)
  <2>1. Snip(list) = SubSeq(list, 1, headEnd) \o <<Placeholder>> \o From(list, start)
    BY <1>4 DEF Snip
  <2>2. headEnd \in SnipHead..Len(list)
    <3> DEFINE T == {e \in SnipHead..Len(list) : e = SnipHead \/ Behind(list, e, SnipHead)}
    <3>1. SnipHead \in SnipHead..Len(list)
      BY <1>1, <1>2, <1>4
    <3>2. T \in SUBSET Nat /\ T # {} /\ \A e \in T : e <= Len(list)
      BY <1>1, <1>2, <3>1
    <3>3. Greatest(T) \in T /\ \A e \in T : e <= Greatest(T)
      <4> HIDE DEF T
      <4> QED
        BY <1>1, <3>2, GreatestOf
    <3>4. \E e \in SnipHead..Len(list) : Ends(e)
      <4> DEFINE e == Greatest(T)
      <4>1. /\ e \in SnipHead..Len(list) /\ (e = SnipHead \/ Behind(list, e, SnipHead))
            /\ e + 1 \notin T /\ e \in Nat
        <5> HIDE DEF e
        <5>1. e \in T /\ \A d \in T : d <= e
          BY <3>3 DEF e
        <5>2. e \in Nat /\ ~ (e + 1 <= e)
          BY <1>2, <5>1
        <5>3. e + 1 \notin T
          <6> HIDE DEF T
          <6> QED
            BY <5>1, <5>2
        <5> QED
          BY <5>1, <5>2, <5>3
      <4> HIDE DEF e
      <4>2. e = Len(list) \/ ~ Behind(list, e + 1, SnipHead)
        BY <1>1, <1>2, <4>1
      <4> QED
        BY <4>1, <4>2
    <3> HIDE DEF Ends
    <3> QED
      BY <3>4
  <2> HIDE DEF headEnd
  <2>3. Len(list) - tail + 1 \in 1..Len(list) + 1
    BY <1>1, <1>2, <1>4
  <2>4. /\ start \in 1..Len(list) + 1
        /\ start <= Len(list) => \A j \in 1..start - 1 : ~ Behind(list, start, j)
    <3> HIDE DEF tail
    <3> QED
      BY <1>1, <2>3, PairedStartParts
  <2> HIDE DEF start
  <2>5. start > 1 /\ headEnd \in 0..Len(list) /\ headEnd >= 1
    BY <1>1, <1>2, <1>4, <2>2, <2>4
  <2> DEFINE head == SubSeq(list, 1, headEnd)
             back == From(list, start)
             note == <<Placeholder>>
  <2>6. /\ head \in Seq(Messages) /\ Len(head) = headEnd /\ \A k \in 1..headEnd : head[k] = list[k]
        /\ Paired(head)
    BY <1>1, <2>5, FirstParts, PairedFirst
  <2>7. back \in Seq(Messages) /\ Paired(back) /\ NoSystem(back)
    BY <1>1, <2>4, <2>5, FromParts, PairedFrom, NoSystemFrom
  <2>8. Heard(list) => Heard(back) \/ UsersIn(back) = {}
    BY <1>1, <2>4, HeardFrom
  <2> HIDE DEF head, back
  <2>9. SystemFirst(head)
    BY <1>1, <2>5, <2>6 DEF SystemFirst
  <2>10. note \in Seq(Messages) /\ Paired(note) /\ NoSystem(note) /\ Heard(note)
    <3>1. Placeholder \in Messages /\ Placeholder.role = "user" /\ Hears(Placeholder)
      BY Notes
    <3> QED
      BY <3>1, OneParts, PairedOne, HeardOne DEF NoSystem
  <2> HIDE DEF note
  <2>11. /\ head \o note \in Seq(Messages) /\ Paired(head \o note) /\ SystemFirst(head \o note)
         /\ Heard(head \o note)
    BY <2>6, <2>9, <2>10, JoinParts, PairedJoined, SystemBefore, HeardBehind
  <2> DEFINE front == head \o note
  <2> HIDE DEF front
  <2>12. /\ front \o back \in Seq(Messages) /\ Paired(front \o back) /\ SystemFirst(front \o back)
         /\ Heard(list) => Heard(front \o back)
    BY <2>7, <2>8, <2>11, JoinParts, PairedJoined, SystemBefore, HeardBehind, HeardBefore DEF front
  <2> QED
    BY <2>1, <2>12 DEF Proper, front, head, back, note
<1> QED
  BY <1>3, <1>4

LEMMA PreCompactKeeps ==
  ASSUME NEW list, Proper(list), Heard(list), NEW saved
  PROVE  Proper(PreCompact(list, saved)) /\ Heard(PreCompact(list, saved))
<1>1. /\ Proper(ApplyToolResultBudget(list, saved))
      /\ Heard(ApplyToolResultBudget(list, saved))
  BY ApplyKeeps
<1>2. /\ Proper(Snip(ApplyToolResultBudget(list, saved)))
      /\ Heard(Snip(ApplyToolResultBudget(list, saved)))
  BY <1>1, SnipKeeps
<1> QED
  BY <1>2, MicroKeeps DEF PreCompact

-----------------------------------------------------------------------------
(* FinalizeBudget: what fits of the groups at the end.                        *)
RolesFrom(s, t) == \A i \in 1..Len(t) : \E k \in 1..Len(s) : t[i].role = s[k].role

LEMMA RolesKept ==
  ASSUME NEW s \in Seq(Messages), NEW t \in Seq(Messages), RolesFrom(s, t)
  PROVE  /\ NoSystem(s) => NoSystem(t)
         /\ UsersIn(s) = {} => UsersIn(t) = {}
  BY DEF RolesFrom, NoSystem, UsersIn

LEMMA RolesOfParts ==
  ASSUME NEW list \in Seq(Messages)
  PROVE  /\ \A i \in 1..Len(list) + 1 : RolesFrom(list, From(list, i))
         /\ \A n \in 0..Len(list) : RolesFrom(list, SubSeq(list, 1, n))
<1>1. Len(list) \in Nat
  OBVIOUS
<1>2. ASSUME NEW i \in 1..Len(list) + 1 PROVE RolesFrom(list, From(list, i))
  <2>1. /\ Len(From(list, i)) = Len(list) - i + 1
        /\ \A k \in 1..Len(list) - i + 1 : From(list, i)[k] = list[i + k - 1]
    BY FromParts
  <2>2. \A k \in 1..Len(list) - i + 1 : i + k - 1 \in 1..Len(list)
    BY <1>1
  <2> QED
    BY <2>1, <2>2 DEF RolesFrom
<1>3. ASSUME NEW n \in 0..Len(list) PROVE RolesFrom(list, SubSeq(list, 1, n))
  <2>1. Len(SubSeq(list, 1, n)) = n /\ \A k \in 1..n : SubSeq(list, 1, n)[k] = list[k]
    BY FirstParts
  <2>2. \A k \in 1..n : k \in 1..Len(list)
    BY <1>1
  <2> QED
    BY <2>1, <2>2 DEF RolesFrom
<1> QED
  BY <1>2, <1>3

LEMMA ShortenParts ==
  ASSUME NEW m \in Messages, NEW budget \in Nat
  PROVE  /\ Shorten(m, budget) \in Messages
         /\ Shorten(m, budget).size <= budget
         /\ Shorten(m, budget).role = m.role /\ Shorten(m, budget).kind = m.kind
         /\ Shorten(m, budget).of = m.of /\ Shorten(m, budget).calls = m.calls
         /\ Shorten(m, budget).answers = m.answers
         /\ Runes(Shorten(m, budget)) <= budget + 1 + Cardinality(m.calls)
<1> DEFINE s == IF m.size > budget THEN budget ELSE m.size
           short == [m EXCEPT !.size = s]
<1>1. s \in Nat /\ s <= budget
  BY MessageParts
<1>2. Shorten(m, budget) = short
  BY DEF Shorten
<1> HIDE DEF s
<1>3. /\ short \in Messages /\ short.size = s /\ short.role = m.role /\ short.kind = m.kind
      /\ short.of = m.of /\ short.calls = m.calls /\ short.answers = m.answers
  BY <1>1, Resized
<1> HIDE DEF short
<1>4. Runes(short) = s + 1 + Cardinality(m.calls) /\ Cardinality(m.calls) \in Nat
  BY <1>3, MessageParts
<1> QED
  BY <1>1, <1>2, <1>3, <1>4

(* A group that is cut keeps its calls before its results, and is too long by the  *)
(* part of one message that is no content.                                   *)
LEMMA TruncateParts ==
  ASSUME NEW group \in Seq(Messages), Paired(group), NEW budget \in Nat
  PROVE  LET t == TruncateGroup(group, budget)
         IN /\ t \in Seq(Messages) /\ Paired(t) /\ RolesFrom(group, t)
            /\ TotalRunes(t) <= budget + 1 + MaxCalls
<1> DEFINE first(n) == SubSeq(group, 1, n)
           Fits(n) == /\ TotalRunes(first(n)) <= budget
                      /\ n = Len(group) \/ TotalRunes(first(n + 1)) > budget
           fits == CHOOSE n \in 0..Len(group) : Fits(n)
           left == budget - TotalRunes(first(fits))
           t == TruncateGroup(group, budget)
<1>1. Len(group) \in Nat /\ MaxCalls \in Nat
  BY ContextAssumption DEF ContextAssumption
<1>2. \A n \in 0..Len(group) : first(n) \in Seq(Messages) /\ TotalRunes(first(n)) \in Nat
  BY FirstParts, TotalOfBoth
<1>3. t = IF fits = Len(group) \/ left = 0 THEN first(fits)
          ELSE Append(first(fits), Shorten(group[fits + 1], left))
  BY DEF TruncateGroup
<1>4. fits \in 0..Len(group) /\ Fits(fits)
  <2> DEFINE T == {n \in 0..Len(group) : TotalRunes(first(n)) <= budget}
  <2>1. TotalRunes(first(0)) = 0
    <3>1. first(0) = <<>>
      OBVIOUS
    <3> QED
      BY <3>1, TotalOfFew
  <2>2. T \in SUBSET Nat /\ T # {} /\ \A n \in T : n <= Len(group)
    <3> HIDE DEF first
    <3> QED
      BY <1>1, <2>1
  <2>3. Greatest(T) \in T /\ \A n \in T : n <= Greatest(T)
    <3> HIDE DEF T
    <3> QED
      BY <1>1, <2>2, GreatestOf
  <2>4. \E n \in 0..Len(group) : Fits(n)
    <3> DEFINE n == Greatest(T)
    <3> HIDE DEF n
    <3> HIDE DEF first
    <3>1. n \in T /\ \A k \in T : k <= n
      BY <2>3 DEF n
    <3>2. n \in Nat /\ ~ (n + 1 <= n)
      BY <3>1
    <3>3. n + 1 \notin T
      <4> HIDE DEF T
      <4> QED
        BY <3>1, <3>2
    <3>4. n = Len(group) \/ TotalRunes(first(n + 1)) > budget
      <4> SUFFICES ASSUME n # Len(group) PROVE TotalRunes(first(n + 1)) > budget
        OBVIOUS
      <4>1. n + 1 \in 0..Len(group)
        BY <1>1, <3>1
      <4>2. TotalRunes(first(n + 1)) \in Nat
        BY <1>2, <4>1
      <4> QED
        BY <3>3, <4>1, <4>2
    <3> QED
      BY <3>1, <3>4
  <2> HIDE DEF Fits
  <2> QED
    BY <2>4
<1> HIDE DEF fits, t
<1>5. /\ first(fits) \in Seq(Messages) /\ Paired(first(fits)) /\ RolesFrom(group, first(fits))
      /\ Len(first(fits)) = fits /\ \A k \in 1..fits : first(fits)[k] = group[k]
      /\ TotalRunes(first(fits)) \in Nat
  BY <1>2, <1>4, FirstParts, PairedFirst, RolesOfParts
<1>6. CASE fits = Len(group) \/ left = 0
  BY <1>1, <1>3, <1>4, <1>5, <1>6 DEF t
<1>7. CASE ~ (fits = Len(group) \/ left = 0)
  <2> DEFINE whole == first(fits + 1)
             last == Shorten(group[fits + 1], left)
  <2>1. fits + 1 \in 0..Len(group) /\ fits + 1 \in 1..Len(group) /\ fits \in Nat
    BY <1>1, <1>4, <1>7
  <2>2. left \in Nat
    BY <1>4, <1>5, <1>7
  <2>3. group[fits + 1] \in Messages
    BY <2>1
  <2>4. /\ whole \in Seq(Messages) /\ Paired(whole) /\ Len(whole) = fits + 1
        /\ \A k \in 1..fits + 1 : whole[k] = group[k]
        /\ RolesFrom(group, whole)
    BY <2>1, FirstParts, PairedFirst, RolesOfParts
  <2> DEFINE m == group[fits + 1]
             part == first(fits)
  <2>5. /\ last \in Messages
        /\ last.role = m.role /\ last.kind = m.kind /\ last.of = m.of /\ last.calls = m.calls
        /\ last.answers = m.answers
        /\ Runes(last) <= left + 1 + Cardinality(m.calls) /\ Runes(last) \in Nat
    <3> HIDE DEF left
    <3> QED
      BY <2>2, <2>3, ShortenParts, MessageParts
  <2>6. Cardinality(m.calls) \in Nat /\ Cardinality(m.calls) <= MaxCalls
    BY <2>3, MessageParts
  <2>7. t = Append(part, last)
    BY <1>3, <1>7
  <2>8. TotalRunes(part) + left = budget
    BY <1>5
  <2>9. whole[fits + 1] = m /\ \A k \in 1..fits : part[k] = whole[k]
    BY <1>5, <2>1, <2>4
  <2>10. part \in Seq(Messages) /\ Len(part) = fits /\ TotalRunes(part) \in Nat
    BY <1>5
  <2> HIDE DEF whole, last, m, part, left
  <2>11. /\ t \in Seq(Messages) /\ Len(t) = fits + 1 /\ t[fits + 1] = last
         /\ \A k \in 1..fits : t[k] = part[k]
         /\ t = part \o <<last>>
    BY <2>5, <2>7, <2>10, AddParts
  <2>12. SameButSizes(whole, t)
    <3>1. \A k \in 1..Len(whole) : k \in 1..fits \/ k = fits + 1
      BY <2>1, <2>4
    <3> QED
      BY <2>4, <2>5, <2>9, <2>11, <3>1 DEF SameButSizes
  <2>13. Paired(t)
    BY <2>4, <2>11, <2>12, PairedBySame
  <2>14. RolesFrom(group, t)
    <3>1. Len(t) = Len(whole) /\ \A k \in 1..Len(t) : t[k].role = whole[k].role
      BY <2>12 DEF SameButSizes
    <3> QED
      BY <2>4, <3>1 DEF RolesFrom
  <2>15. TotalRunes(t) = TotalRunes(part) + Runes(last)
    <3>1. <<last>> \in Seq(Messages) /\ TotalRunes(<<last>>) = Runes(last)
      BY <2>5, OneParts, TotalOfFew
    <3> QED
      BY <2>10, <2>11, <3>1, TotalOfBoth
  <2>16. TotalRunes(t) <= budget + 1 + MaxCalls
    BY <1>1, <2>2, <2>5, <2>6, <2>8, <2>10, <2>15
  <2> QED
    BY <2>11, <2>13, <2>14, <2>16 DEF t
<1> QED
  BY <1>6, <1>7

LEMMA KeepParts ==
  ASSUME NEW list \in Seq(Messages), Paired(list), NEW budget \in Int
  PROVE  LET t == KeepTailGroups(list, budget)
         IN /\ t \in Seq(Messages) /\ Paired(t) /\ RolesFrom(list, t)
            /\ budget <= 0 => t = <<>>
            /\ budget > 0 => TotalRunes(t) <= budget + 1 + MaxCalls
<1> DEFINE starts == {i \in 1..Len(list) : ~ \E j \in 1..i : Behind(list, i, j)}
           fitting == {i \in starts : TotalRunes(From(list, i)) <= budget}
           t == KeepTailGroups(list, budget)
<1>1. Len(list) \in Nat /\ MaxCalls \in Nat
  BY ContextAssumption DEF ContextAssumption
<1>2. CASE budget <= 0 \/ list = <<>>
  <2>1. t = <<>>
    BY <1>2 DEF KeepTailGroups
  <2>2. <<>> \in Seq(Messages) /\ Paired(<<>>) /\ RolesFrom(list, <<>>) /\ TotalRunes(<<>>) = 0
    BY TotalOfFew DEF Paired, RolesFrom, ToolsIn
  <2> HIDE DEF t
  <2> QED
    BY <1>1, <2>1, <2>2 DEF t
<1>3. ASSUME NEW i \in starts
      PROVE  /\ From(list, i) \in Seq(Messages) /\ Paired(From(list, i))
             /\ RolesFrom(list, From(list, i))
  <2>1. i \in 1..Len(list) + 1 /\ \A j \in 1..i - 1 : ~ Behind(list, i, j)
    BY <1>1
  <2> QED
    BY <2>1, FromParts, PairedFrom, RolesOfParts
<1>4. CASE budget > 0 /\ list # <<>> /\ fitting = {}
  <2>1. t = TruncateGroup(From(list, Greatest(starts)), budget)
    BY <1>4 DEF KeepTailGroups
  <2>2. Greatest(starts) \in starts
    <3>1. 1 \in starts
      BY <1>1, <1>4 DEF Behind
    <3>2. starts \in SUBSET Nat /\ \A i \in starts : i <= Len(list)
      BY <1>1
    <3> HIDE DEF starts
    <3> QED
      BY <1>1, <3>1, <3>2, GreatestOf
  <2> DEFINE group == From(list, Greatest(starts))
  <2>3. group \in Seq(Messages) /\ Paired(group) /\ RolesFrom(list, group)
    <3> HIDE DEF starts
    <3> QED
      BY <1>3, <2>2
  <2> HIDE DEF group
  <2>4. budget \in Nat
    BY <1>4
  <2> DEFINE u == TruncateGroup(group, budget)
  <2>5. /\ u \in Seq(Messages) /\ Paired(u) /\ RolesFrom(group, u)
        /\ TotalRunes(u) <= budget + 1 + MaxCalls
    BY <2>3, <2>4, TruncateParts
  <2>6. t = u
    BY <2>1 DEF group
  <2> HIDE DEF t, u
  <2>7. RolesFrom(list, t)
    BY <2>3, <2>5, <2>6 DEF RolesFrom
  <2> QED
    BY <1>4, <2>5, <2>6, <2>7 DEF t
<1>5. CASE budget > 0 /\ list # <<>> /\ fitting # {}
  <2>1. t = From(list, Least(fitting))
    BY <1>5 DEF KeepTailGroups
  <2>2. Least(fitting) \in fitting
    <3>1. fitting \in SUBSET Nat
      BY <1>1
    <3> HIDE DEF fitting
    <3> QED
      BY <1>5, <3>1, LeastIs
  <2>3. Least(fitting) \in starts /\ TotalRunes(From(list, Least(fitting))) <= budget
    BY <2>2
  <2>4. /\ From(list, Least(fitting)) \in Seq(Messages) /\ Paired(From(list, Least(fitting)))
        /\ RolesFrom(list, From(list, Least(fitting)))
    <3> HIDE DEF starts, fitting
    <3> QED
      BY <1>3, <2>3
  <2> HIDE DEF t, fitting, starts
  <2>5. TotalRunes(t) \in Nat
    BY <2>1, <2>4, TotalOfBoth
  <2> QED
    BY <1>1, <1>5, <2>1, <2>3, <2>4, <2>5 DEF t
<1> QED
  BY <1>2, <1>4, <1>5

(* The user's message, cut to the budget, and what fits of the rest.           *)
LEMMA RequiredParts ==
  ASSUME NEW required \in Seq(Messages), required # <<>>, Paired(required), NoSystem(required),
         required[1].role = "user", Hears(required[1]), UsersIn(Tail(required)) = {}
  PROVE  LET t == CompactRequired(required)
         IN /\ t \in Seq(Messages) /\ Paired(t) /\ NoSystem(t) /\ Heard(t)
            /\ TotalRunes(t) <= ConversationBudget + 1 + MaxCalls
<1> DEFINE question == Shorten(required[1], ConversationBudget)
           rest == Tail(required)
           left == ConversationBudget - Runes(question)
           kept == KeepTailGroups(rest, left)
<1>1. /\ ConversationBudget \in Nat /\ MaxCalls \in Nat /\ MaxCalls >= 1
      /\ required[1] \in Messages /\ Len(required) \in Nat \ {0}
  BY ContextAssumption DEF ContextAssumption
<1>2. CompactRequired(required) = <<question>> \o kept
  BY DEF CompactRequired
<1>3. /\ question \in Messages /\ question.role = "user" /\ Hears(question)
      /\ Runes(question) \in Nat /\ Runes(question) <= ConversationBudget + 1
  <2>1. required[1].calls = {} /\ Cardinality({}) = 0
    BY <1>1, MessageParts, FS_EmptySet
  <2>2. /\ question \in Messages /\ question.role = "user" /\ question.of = required[1].of
        /\ question.kind = required[1].kind
        /\ Runes(question) <= ConversationBudget + 1 + 0
    BY <1>1, <2>1, ShortenParts
  <2> HIDE DEF question
  <2>3. Runes(question) \in Nat
    BY <2>2, MessageParts
  <2>4. Hears(question)
    BY <2>2 DEF Hears
  <2> QED
    BY <1>1, <2>2, <2>3, <2>4
<1> HIDE DEF question
<1>4. /\ rest \in Seq(Messages) /\ Paired(rest) /\ UsersIn(rest) = {} /\ NoSystem(rest)
  <2>1. /\ Tail(required) \in Seq(Messages) /\ Len(Tail(required)) = Len(required) - 1
        /\ Paired(Tail(required))
        /\ \A k \in 1..Len(required) - 1 : Tail(required)[k] = required[k + 1]
    BY PairedTail
  <2>2. \A k \in 1..Len(required) - 1 : k + 1 \in 1..Len(required)
    BY <1>1
  <2>3. NoSystem(rest)
    BY <2>1, <2>2 DEF NoSystem
  <2> QED
    BY <2>1, <2>3
<1> HIDE DEF rest
<1>5. left \in Int /\ Runes(question) + left = ConversationBudget
  BY <1>1, <1>3
<1> HIDE DEF left
<1>6. /\ kept \in Seq(Messages) /\ Paired(kept) /\ RolesFrom(rest, kept)
      /\ left <= 0 => kept = <<>>
      /\ left > 0 => TotalRunes(kept) <= left + 1 + MaxCalls
  BY <1>4, <1>5, KeepParts
<1> HIDE DEF kept
<1>7. NoSystem(kept) /\ UsersIn(kept) = {}
  BY <1>4, <1>6, RolesKept
<1> DEFINE one == <<question>>
<1>8. /\ one \in Seq(Messages) /\ Paired(one) /\ NoSystem(one) /\ Heard(one)
      /\ TotalRunes(one) = Runes(question)
  BY <1>3, OneParts, PairedOne, HeardOne, TotalOfFew DEF NoSystem
<1> HIDE DEF one
<1>9. /\ one \o kept \in Seq(Messages) /\ Paired(one \o kept) /\ NoSystem(one \o kept)
      /\ Heard(one \o kept) /\ TotalRunes(kept) \in Nat
      /\ TotalRunes(one \o kept) = Runes(question) + TotalRunes(kept)
  BY <1>6, <1>7, <1>8, JoinParts, PairedJoined, NoSystemJoined, HeardBefore, TotalOfBoth
<1>10. TotalRunes(one \o kept) <= ConversationBudget + 1 + MaxCalls
  <2>1. CASE left <= 0
    <3>1. TotalRunes(kept) = 0
      BY <1>6, <2>1, TotalOfFew
    <3> QED
      BY <1>1, <1>3, <1>9, <3>1
  <2>2. CASE left > 0
    BY <1>1, <1>3, <1>5, <1>6, <1>9, <2>2
  <2> QED
    BY <1>5, <2>1, <2>2
<1> QED
  BY <1>2, <1>9, <1>10 DEF one

(* What is kept of a list fits, and the question is in it.                    *)
Fits(list) ==
  \/ TotalRunes(list) <= MaxInput
  \/ TotalRunes(Tail(list)) <= ConversationBudget + 1 + MaxCalls

LEMMA SystemPart ==
  ASSUME NEW list, Proper(list)
  PROVE  /\ list \in Seq(Messages) /\ list # <<>> /\ Len(list) \in Nat \ {0}
         /\ Tail(list) \in Seq(Messages) /\ Len(Tail(list)) = Len(list) - 1
         /\ Paired(Tail(list)) /\ NoSystem(Tail(list))
         /\ \A k \in 1..Len(list) - 1 : Tail(list)[k] = list[k + 1]
         /\ <<list[1]>> \in Seq(Messages) /\ Paired(<<list[1]>>) /\ SystemFirst(<<list[1]>>)
         /\ list[1] \in Messages /\ list[1].role = "system"
         /\ Heard(list) => Heard(Tail(list))
<1>1. list \in Seq(Messages) /\ list # <<>> /\ Paired(list) /\ Len(list) \in Nat \ {0}
  BY DEF Proper, SystemFirst
<1>2. list[1] \in Messages /\ list[1].role = "system"
  BY <1>1 DEF Proper, SystemFirst
<1>3. /\ Tail(list) \in Seq(Messages) /\ Len(Tail(list)) = Len(list) - 1 /\ Paired(Tail(list))
      /\ \A k \in 1..Len(list) - 1 : Tail(list)[k] = list[k + 1]
  BY <1>1, <1>2, PairedTail
<1>4. NoSystem(Tail(list))
  <2>1. \A k \in 1..Len(list) - 1 : k + 1 \in 1..Len(list) /\ k + 1 # 1
    BY <1>1
  <2> QED
    BY <1>3, <2>1 DEF Proper, SystemFirst, NoSystem
<1>5. <<list[1]>> \in Seq(Messages) /\ Paired(<<list[1]>>) /\ SystemFirst(<<list[1]>>)
  BY <1>2, OneParts, PairedOne DEF SystemFirst
<1>6. ASSUME Heard(list) PROVE Heard(Tail(list))
  <2>1. PICK l \in UsersIn(list) : (\A k \in UsersIn(list) : k <= l) /\ Hears(list[l])
    BY <1>6 DEF Heard
  <2>2. l \in 1..Len(list) /\ list[l].role = "user" /\ l # 1
    BY <1>2, <2>1 DEF UsersIn
  <2> DEFINE k == l - 1
             s == Tail(list)
  <2>3. k \in 1..Len(list) - 1 /\ k + 1 = l
    BY <1>1, <2>2
  <2>4. s[k] = list[l] /\ k \in UsersIn(s)
    BY <1>3, <2>2, <2>3 DEF UsersIn
  <2>5. ASSUME NEW m \in UsersIn(s) PROVE m <= k
    <3>1. m \in 1..Len(list) - 1 /\ s[m].role = "user"
      BY <1>3 DEF UsersIn
    <3>2. m + 1 \in 1..Len(list) /\ list[m + 1].role = "user"
      BY <1>1, <1>3, <3>1
    <3>3. m + 1 <= l
      BY <2>1, <3>2 DEF UsersIn
    <3> QED
      BY <2>2, <3>1, <3>3
  <2> HIDE DEF k, s
  <2> QED
    BY <2>1, <2>4, <2>5 DEF Heard, s
<1> QED
  BY <1>1, <1>2, <1>3, <1>4, <1>5, <1>6, Zenon

LEMMA PruneKeeps ==
  ASSUME NEW list, Proper(list), Heard(list)
  PROVE  Proper(Prune(list)) /\ Heard(Prune(list)) /\ Fits(Prune(list))
<1> DEFINE rest == Tail(list)
           users == UsersIn(rest)
           last == Greatest(users)
           required == From(rest, last)
           before == SubSeq(rest, 1, last - 1)
           kept == IF users = {} THEN KeepTailGroups(rest, ConversationBudget)
                   ELSE IF TotalRunes(required) > ConversationBudget
                   THEN CompactRequired(required)
                   ELSE KeepTailGroups(before, ConversationBudget - TotalRunes(required)) \o required
<1>1. ConversationBudget \in Nat /\ MaxCalls \in Nat /\ MaxInput \in Nat
  BY ContextAssumption DEF ContextAssumption
<1>2. /\ rest \in Seq(Messages) /\ Len(rest) \in Nat /\ Paired(rest) /\ NoSystem(rest) /\ Heard(rest)
      /\ <<list[1]>> \in Seq(Messages) /\ Paired(<<list[1]>>) /\ SystemFirst(<<list[1]>>)
      /\ list \in Seq(Messages)
  BY SystemPart
<1>3. Prune(list) = IF TotalRunes(list) <= MaxInput \/ TotalRunes(rest) <= ConversationBudget
                    THEN list ELSE <<list[1]>> \o kept
  BY DEF Prune
<1>4. TotalRunes(list) \in Nat /\ TotalRunes(rest) \in Nat
  BY <1>2, TotalOfBoth
<1>5. CASE TotalRunes(list) <= MaxInput \/ TotalRunes(rest) <= ConversationBudget
  <2>1. Prune(list) = list
    BY <1>3, <1>5
  <2>2. Fits(list)
    BY <1>1, <1>4, <1>5 DEF Fits
  <2> QED
    BY <2>1, <2>2
<1>6. CASE ~ (TotalRunes(list) <= MaxInput \/ TotalRunes(rest) <= ConversationBudget)
  <2>1. Prune(list) = <<list[1]>> \o kept
    BY <1>3, <1>6
  <2> HIDE DEF rest
  <2>2. /\ last \in UsersIn(rest) /\ \A k \in UsersIn(rest) : k <= last
        /\ Hears(rest[last])
    <3>1. PICK l \in UsersIn(rest) : (\A k \in UsersIn(rest) : k <= l) /\ Hears(rest[l])
      BY <1>2 DEF Heard
    <3>2. /\ users \in SUBSET Nat /\ users # {} /\ \A k \in users : k <= Len(rest)
          /\ l \in Nat
      BY <1>2, <3>1 DEF UsersIn
    <3>3. last \in users /\ \A k \in users : k <= last
      <4> HIDE DEF users
      <4> QED
        BY <1>2, <3>2, GreatestOf
    <3> HIDE DEF last
    <3>4. last = l
      <4>1. last <= l /\ l <= last /\ last \in Nat
        BY <3>1, <3>2, <3>3
      <4> QED
        BY <3>2, <4>1
    <3> QED
      BY <3>1, <3>4
  <2>3. users # {}
    BY <2>2
  <2> HIDE DEF last
  <2>4. last \in 1..Len(rest) /\ rest[last].role = "user" /\ last \in Nat
    BY <1>2, <2>2 DEF UsersIn
  <2>5. /\ required \in Seq(Messages) /\ required # <<>> /\ Len(required) = Len(rest) - last + 1
        /\ required[1] = rest[last] /\ NoSystem(required)
        /\ \A k \in 1..Len(rest) - last + 1 : required[k] = rest[last + k - 1]
    <3>1. last \in 1..Len(rest) + 1
      BY <1>2, <2>4
    <3>2. /\ required \in Seq(Messages) /\ Len(required) = Len(rest) - last + 1
          /\ \A k \in 1..Len(rest) - last + 1 : required[k] = rest[last + k - 1]
      BY <1>2, <3>1, FromParts
    <3>3. 1 \in 1..Len(rest) - last + 1 /\ last + 1 - 1 = last
      BY <1>2, <2>4
    <3>4. NoSystem(required)
      BY <1>2, <3>1, NoSystemFrom
    <3> HIDE DEF required
    <3>5. required[1] = rest[last]
      BY <3>2, <3>3
    <3>6. required # <<>>
      BY <3>2, <3>3
    <3> QED
      BY <3>2, <3>4, <3>5, <3>6
  <2>6. Paired(required)
    <3>1. ASSUME NEW j \in 1..last - 1, Behind(rest, last, j) PROVE FALSE
      <4>1. last \in j + 1 .. last
        BY <2>4
      <4> QED
        BY <2>4, <3>1, <4>1 DEF Behind, ToolsIn
    <3>2. last \in 1..Len(rest) + 1
      BY <1>2, <2>4
    <3> QED
      BY <1>2, <3>1, <3>2, PairedFrom
  <2> HIDE DEF required
  <2>7. /\ kept \in Seq(Messages) /\ Paired(kept) /\ NoSystem(kept) /\ Heard(kept)
        /\ TotalRunes(kept) <= ConversationBudget + 1 + MaxCalls
    <3>1. CASE TotalRunes(required) > ConversationBudget
      <4>1. kept = CompactRequired(required)
        BY <2>3, <3>1
      <4>2. UsersIn(Tail(required)) = {}
        <5>1. /\ Len(Tail(required)) = Len(required) - 1
              /\ \A k \in 1..Len(required) - 1 : Tail(required)[k] = required[k + 1]
          <6>1. required[1].role # "assistant"
            BY <2>4, <2>5
          <6> QED
            BY <2>5, <2>6, <6>1, PairedTail
        <5>2. ASSUME NEW k \in UsersIn(Tail(required)) PROVE FALSE
          <6>1. k \in 1..Len(required) - 1 /\ required[k + 1].role = "user"
            BY <5>1 DEF UsersIn
          <6>2. k + 1 \in 1..Len(rest) - last + 1 /\ last + (k + 1) - 1 = last + k
            BY <1>2, <2>4, <2>5, <6>1
          <6>3. required[k + 1] = rest[last + k]
            BY <2>5, <6>2
          <6>4. last + k \in 1..Len(rest)
            BY <1>2, <2>4, <6>1, <6>2
          <6>5. last + k <= last
            BY <2>2, <6>1, <6>3, <6>4 DEF UsersIn
          <6> QED
            BY <2>4, <6>1, <6>5
        <5> QED
          BY <5>2
      <4>3. Hears(required[1]) /\ required[1].role = "user"
        BY <2>2, <2>4, <2>5
      <4> HIDE DEF kept
      <4> QED
        BY <2>5, <2>6, <4>1, <4>2, <4>3, RequiredParts
    <3>2. CASE ~ (TotalRunes(required) > ConversationBudget)
      <4> DEFINE left == ConversationBudget - TotalRunes(required)
                 older == KeepTailGroups(before, left)
      <4>1. kept = older \o required
        BY <2>3, <3>2
      <4>2. TotalRunes(required) \in Nat
        BY <2>5, TotalOfBoth
      <4>3. left \in Nat /\ left + TotalRunes(required) = ConversationBudget
        BY <1>1, <3>2, <4>2
      <4> HIDE DEF left
      <4>4. before \in Seq(Messages) /\ Paired(before) /\ NoSystem(before)
        <5>1. last - 1 \in 0..Len(rest)
          BY <1>2, <2>4
        <5>2. before \in Seq(Messages) /\ Paired(before) /\ RolesFrom(rest, before)
          BY <1>2, <5>1, FirstParts, PairedFirst, RolesOfParts
        <5> HIDE DEF before
        <5> QED
          BY <1>2, <5>2, RolesKept
      <4> HIDE DEF before
      <4>5. /\ older \in Seq(Messages) /\ Paired(older) /\ RolesFrom(before, older)
            /\ left <= 0 => older = <<>>
            /\ left > 0 => TotalRunes(older) <= left + 1 + MaxCalls
        <5>1. left \in Int
          BY <4>3
        <5> QED
          BY <4>4, <5>1, KeepParts
      <4> HIDE DEF older
      <4>6. NoSystem(older) /\ TotalRunes(older) \in Nat
        BY <4>4, <4>5, RolesKept, TotalOfBoth
      <4>7. TotalRunes(older) <= left + 1 + MaxCalls
        <5>1. CASE left <= 0
          BY <1>1, <4>3, <4>5, <5>1, TotalOfFew
        <5>2. CASE left > 0
          BY <4>5, <5>2
        <5> QED
          BY <4>3, <5>1, <5>2
      <4>8. Heard(required)
        <5>1. last \in 1..Len(rest) + 1
          BY <1>2, <2>4
        <5>2. Heard(required) \/ UsersIn(required) = {}
          BY <1>2, <5>1, HeardFrom DEF required
        <5>3. 1 \in UsersIn(required)
          <6>1. Len(required) \in Nat \ {0}
            BY <1>2, <2>4, <2>5
          <6> QED
            BY <2>4, <2>5, <6>1 DEF UsersIn
        <5> QED
          BY <5>2, <5>3
      <4>9. /\ older \o required \in Seq(Messages) /\ Paired(older \o required)
            /\ NoSystem(older \o required) /\ Heard(older \o required)
            /\ TotalRunes(older \o required) = TotalRunes(older) + TotalRunes(required)
        BY <2>5, <2>6, <4>5, <4>6, <4>8, JoinParts, PairedJoined, NoSystemJoined, HeardBehind,
           TotalOfBoth
      <4> HIDE DEF kept
      <4> QED
        BY <1>1, <4>1, <4>2, <4>3, <4>6, <4>7, <4>9
    <3> QED
      BY <3>1, <3>2
  <2> HIDE DEF kept
  <2> DEFINE first == <<list[1]>>
  <2>8. /\ first \in Seq(Messages) /\ Paired(first) /\ SystemFirst(first) /\ Len(first) = 1
    BY <1>2
  <2> HIDE DEF first
  <2>9. /\ first \o kept \in Seq(Messages) /\ Paired(first \o kept) /\ SystemFirst(first \o kept)
        /\ Heard(first \o kept)
    BY <2>7, <2>8, JoinParts, PairedJoined, SystemBefore, HeardBehind
  <2>10. Tail(first \o kept) = kept
    BY <2>7 DEF first
  <2> QED
    BY <2>1, <2>7, <2>9, <2>10 DEF Proper, Fits, first
<1> QED
  BY <1>5, <1>6

-----------------------------------------------------------------------------
(* Summaries: the summary is heard in place of the question.                  *)
LEMMA TwoParts ==
  ASSUME NEW a \in Messages, NEW b \in Messages
  PROVE  <<a>> \o <<b>> = <<a, b>>
<1> DEFINE u == <<a>>
           v == <<b>>
           w == <<a, b>>
<1>1. /\ u \in Seq(Messages) /\ Len(u) = 1 /\ u[1] = a
      /\ v \in Seq(Messages) /\ Len(v) = 1 /\ v[1] = b
      /\ w \in Seq(Messages) /\ Len(w) = 2 /\ w[1] = a /\ w[2] = b
  OBVIOUS
<1> HIDE DEF u, v, w
<1>2. /\ u \o v \in Seq(Messages) /\ Len(u \o v) = 1 + 1
      /\ \A k \in 1..1 : (u \o v)[k] = u[k]
      /\ \A k \in 1..1 : (u \o v)[1 + k] = v[k]
  BY <1>1, JoinParts
<1>3. (u \o v)[1] = a /\ (u \o v)[2] = b
  BY <1>1, <1>2
<1>4. \A k \in 1..2 : k = 1 \/ k = 2
  OBVIOUS
<1>5. u \o v = w
  BY <1>1, <1>2, <1>3, <1>4, SeqEqual
<1> QED
  BY <1>5 DEF u, v, w

LEMMA SummaryParts ==
  ASSUME NEW list, Proper(list)
  PROVE  Proper(<<list[1], Summary>>) /\ Heard(<<list[1], Summary>>)
<1> DEFINE first == <<list[1]>>
           note == <<Summary>>
<1>1. first \in Seq(Messages) /\ Paired(first) /\ SystemFirst(first)
  BY SystemPart
<1>2. note \in Seq(Messages) /\ Paired(note) /\ NoSystem(note) /\ Heard(note)
  <2>1. Summary \in Messages /\ Summary.role = "user" /\ Hears(Summary)
    BY Notes
  <2> QED
    BY <2>1, OneParts, PairedOne, HeardOne DEF NoSystem
<1>3. first \o note = <<list[1], Summary>>
  BY SystemPart, Notes, TwoParts
<1> HIDE DEF first, note
<1>4. /\ first \o note \in Seq(Messages) /\ Paired(first \o note) /\ SystemFirst(first \o note)
      /\ Heard(first \o note)
  BY <1>1, <1>2, JoinParts, PairedJoined, SystemBefore, HeardBehind
<1> QED
  BY <1>3, <1>4 DEF Proper

LEMMA CompactHistoryKeeps ==
  ASSUME NEW list, Proper(list), Heard(list), NEW t \in CompactHistory(list)
  PROVE  Proper(t) /\ Heard(t)
<1>1. t = list \/ t = <<list[1], Summary>>
  BY DEF CompactHistory
<1> QED
  BY <1>1, SummaryParts

LEMMA ReactiveCompactKeeps ==
  ASSUME NEW list, Proper(list), Heard(list), NEW t \in ReactiveCompact(list)
  PROVE  /\ Proper(t) /\ Heard(t)
         /\ \A i \in 1..Len(t) : \E k \in 1..Len(list) : t[i].calls \subseteq list[k].calls
<1> DEFINE rest == Tail(list)
           first == Len(rest) - ReactiveTail + 1
           asked == IF first < 1 THEN 1 ELSE first
           start == PairedStart(rest, asked)
           front == <<list[1], Summary>>
           back == From(rest, start)
<1>1. /\ rest \in Seq(Messages) /\ Len(rest) \in Nat /\ Paired(rest) /\ NoSystem(rest)
      /\ Heard(rest) /\ Len(rest) = Len(list) - 1 /\ Len(list) \in Nat \ {0}
      /\ \A k \in 1..Len(list) - 1 : rest[k] = list[k + 1]
  <2>1. /\ rest \in Seq(Messages) /\ Len(rest) = Len(list) - 1 /\ Paired(rest) /\ NoSystem(rest)
        /\ Heard(rest) /\ Len(list) \in Nat \ {0}
        /\ \A k \in 1..Len(list) - 1 : rest[k] = list[k + 1]
    BY SystemPart
  <2> HIDE DEF rest
  <2> QED
    BY <2>1
<1>2. t = list \/ t = front \o back
  BY DEF ReactiveCompact
<1> HIDE DEF rest
<1>3. asked \in 1..Len(rest) + 1
  <2>1. ReactiveTail \in Nat
    BY ContextAssumption
  <2>2. Len(rest) \in Nat
    BY <1>1
  <2> DEFINE n == Len(rest)
  <2> HIDE DEF n
  <2>3. n \in Nat /\ asked = (IF n - ReactiveTail + 1 < 1 THEN 1 ELSE n - ReactiveTail + 1)
    BY <2>2 DEF n
  <2> HIDE DEF asked
  <2>4. asked \in 1..n + 1
    BY <2>1, <2>3
  <2> QED
    BY <2>4 DEF n
<1> HIDE DEF asked
<1>4. /\ start \in 1..Len(rest) + 1
      /\ start <= Len(rest) => \A j \in 1..start - 1 : ~ Behind(rest, start, j)
  BY <1>1, <1>3, PairedStartParts
<1> HIDE DEF start
<1>5. /\ back \in Seq(Messages) /\ Paired(back) /\ NoSystem(back)
      /\ Heard(back) \/ UsersIn(back) = {}
      /\ Len(back) = Len(rest) - start + 1
      /\ \A k \in 1..Len(rest) - start + 1 : back[k] = rest[start + k - 1]
  BY <1>1, <1>4, FromParts, PairedFrom, NoSystemFrom, HeardFrom
<1> HIDE DEF back
<1>6. /\ front \in Seq(Messages) /\ Paired(front) /\ SystemFirst(front) /\ Heard(front)
  BY SummaryParts DEF Proper
<1>7. Len(front) = 2 /\ front[1] = list[1] /\ front[2].calls = {}
  BY DEF Summary, Message
<1> HIDE DEF front
<1>8. /\ front \o back \in Seq(Messages) /\ Paired(front \o back) /\ SystemFirst(front \o back)
      /\ Heard(front \o back)
  BY <1>5, <1>6, JoinParts, PairedJoined, SystemBefore, HeardBehind, HeardBefore
<1>9. Proper(t) /\ Heard(t)
  BY <1>2, <1>8 DEF Proper
<1>10. ASSUME NEW i \in 1..Len(t)
       PROVE  \E k \in 1..Len(list) : t[i].calls \subseteq list[k].calls
  <2>1. CASE t = list
    BY <2>1
  <2>2. CASE t = front \o back
    <3>1. /\ i \in 1..2 \/ i - 2 \in 1..Len(back)
          /\ \A k \in 1..2 : t[k] = front[k]
          /\ \A k \in 1..Len(back) : t[2 + k] = back[k]
      <4> DEFINE u == front \o back
      <4>1. /\ Len(u) = Len(front) + Len(back)
            /\ \A k \in 1..Len(front) : u[k] = front[k]
            /\ \A k \in 1..Len(back) : u[Len(front) + k] = back[k]
            /\ \A k \in 1..Len(u) : k \in 1..Len(front) \/ k - Len(front) \in 1..Len(back)
        BY <1>5, <1>6, JoinParts
      <4>2. t = u
        BY <2>2
      <4> HIDE DEF u
      <4> QED
        BY <1>7, <4>1, <4>2
    <3>2. CASE i \in 1..2
      <4>1. i = 1 \/ i = 2
        BY <3>2
      <4>2. t[1] = list[1] /\ t[2].calls = {} /\ 1 \in 1..Len(list)
        BY <1>1, <1>7, <3>1
      <4> QED
        BY <4>1, <4>2
    <3>3. CASE i - 2 \in 1..Len(back)
      <4> DEFINE k == i - 2
      <4>1. 2 + k = i /\ k \in 1..Len(rest) - start + 1 /\ k \in 1..Len(back)
        BY <1>5, <3>3
      <4>2. start + k - 1 \in 1..Len(list) - 1 /\ start + k \in 1..Len(list)
            /\ start + k - 1 + 1 = start + k
        BY <1>1, <1>4, <4>1
      <4>3. t[i] = back[k]
        BY <3>1, <4>1
      <4>4. back[k] = rest[start + k - 1]
        BY <1>5, <4>1
      <4>5. rest[start + k - 1] = list[start + k]
        BY <1>1, <4>2
      <4> QED
        BY <4>2, <4>3, <4>4, <4>5
    <3> QED
      BY <3>1, <3>2, <3>3
  <2> QED
    BY <1>2, <2>1, <2>2
<1> QED
  BY <1>9, <1>10

-----------------------------------------------------------------------------
(* What comes to a list: a message that is no result, or results of the calls it *)
(* ends with.                                                              *)
LEMMA AddKeeps ==
  ASSUME NEW list, Proper(list), NEW t \in Seq(Messages), Paired(t), NoSystem(t)
  PROVE  /\ Proper(list \o t)
         /\ Heard(t) => Heard(list \o t)
         /\ Heard(list) /\ UsersIn(t) = {} => Heard(list \o t)
<1>1. list \in Seq(Messages) /\ Paired(list) /\ SystemFirst(list)
  BY DEF Proper
<1>2. Proper(list \o t)
  BY <1>1, JoinParts, PairedJoined, SystemBefore DEF Proper
<1> QED
  BY <1>1, <1>2, HeardBehind, HeardBefore

LEMMA AddOneKeeps ==
  ASSUME NEW list, Proper(list), NEW m \in Messages, m.role \notin {"tool", "system"}
  PROVE  /\ Proper(Append(list, m)) /\ Append(list, m) \in Seq(Messages)
         /\ Len(Append(list, m)) = Len(list) + 1 /\ Len(list) \in Nat
         /\ Append(list, m)[Len(list) + 1] = m
         /\ \A k \in 1..Len(list) : Append(list, m)[k] = list[k]
         /\ Heard(list) /\ m.role # "user" => Heard(Append(list, m))
<1> DEFINE t == <<m>>
<1>1. /\ t \in Seq(Messages) /\ Paired(t) /\ NoSystem(t)
      /\ m.role # "user" => UsersIn(t) = {}
  BY OneParts, PairedOne DEF NoSystem, UsersIn
<1>2. list \in Seq(Messages)
  BY DEF Proper
<1> DEFINE u == Append(list, m)
<1>3. /\ u = list \o t /\ Len(list) \in Nat
      /\ u \in Seq(Messages) /\ Len(u) = Len(list) + 1 /\ u[Len(list) + 1] = m
      /\ \A k \in 1..Len(list) : u[k] = list[k]
  BY <1>2, AddParts
<1> HIDE DEF t, u
<1>4. Proper(u) /\ (Heard(list) /\ m.role # "user" => Heard(u))
  BY <1>1, <1>3, AddKeeps
<1> QED
  BY <1>3, <1>4 DEF u

LEMMA ResultsKeep ==
  ASSUME NEW list, Proper(list), list[Len(list)].calls # {}, NEW t \in Seq(Messages),
         \A k \in 1..Len(t) : t[k].role = "tool" /\ t[k].answers \in list[Len(list)].calls
  PROVE  /\ Proper(list \o t)
         /\ Heard(list) => Heard(list \o t)
<1> DEFINE u == list \o t
           n == Len(list)
<1>1. list \in Seq(Messages) /\ Paired(list) /\ SystemFirst(list) /\ n \in Nat \ {0}
  BY DEF Proper, SystemFirst
<1>2. /\ u \in Seq(Messages) /\ Len(u) = n + Len(t) /\ Len(t) \in Nat
      /\ \A k \in 1..n : u[k] = list[k]
      /\ \A k \in 1..Len(t) : u[n + k] = t[k]
      /\ \A k \in 1..Len(u) : k \in 1..n \/ k - n \in 1..Len(t)
  BY <1>1, JoinParts
<1> HIDE DEF u, n
<1>3. \A k \in n + 1 .. Len(u) : k \in ToolsIn(u) /\ u[k].answers \in u[n].calls
  <2> SUFFICES ASSUME NEW k \in n + 1 .. Len(u)
               PROVE  k \in ToolsIn(u) /\ u[k].answers \in u[n].calls
    OBVIOUS
  <2>1. k - n \in 1..Len(t) /\ n + (k - n) = k /\ k \in 1..Len(u) /\ n \in 1..n
    BY <1>1, <1>2
  <2>2. u[k] = t[k - n] /\ u[n] = list[n]
    BY <1>2, <2>1
  <2> QED
    BY <2>1, <2>2 DEF ToolsIn, n
<1>4. ASSUME NEW i \in ToolsIn(u)
      PROVE  \E j \in 1..i : Behind(u, i, j) /\ u[i].answers \in u[j].calls
  <2>1. i \in 1..Len(u) /\ u[i].role = "tool"
    BY DEF ToolsIn
  <2>2. CASE i \in 1..n
    <3>1. i \in ToolsIn(list) /\ u[i] = list[i]
      BY <1>2, <2>1, <2>2 DEF ToolsIn, n
    <3>2. PICK j \in 1..i : Behind(list, i, j) /\ list[i].answers \in list[j].calls
      BY <1>1, <3>1 DEF Paired
    <3>3. j \in 1..n /\ u[j] = list[j]
      BY <1>1, <1>2, <2>2, <3>2
    <3>4. ASSUME NEW m \in j + 1 .. i PROVE m \in ToolsIn(u)
      <4>1. m \in 1..n /\ m \in 1..Len(u)
        BY <1>1, <1>2, <2>1, <2>2, <3>2
      <4>2. list[m].role = "tool"
        BY <3>2 DEF Behind, ToolsIn
      <4> QED
        BY <1>2, <4>1, <4>2 DEF ToolsIn
    <3> QED
      BY <3>1, <3>2, <3>3, <3>4 DEF Behind
  <2>3. CASE i \notin 1..n
    <3>1. i \in n + 1 .. Len(u) /\ n \in 1..i /\ n < i
      BY <1>1, <2>1, <2>3
    <3>2. n + 1 .. i \subseteq ToolsIn(u)
      BY <1>1, <1>3, <2>1, <3>1
    <3>3. u[n] = list[n] /\ list[n].calls # {}
      BY <1>1, <1>2 DEF n
    <3>4. Behind(u, i, n)
      BY <3>1, <3>2, <3>3 DEF Behind, HasToolUse
    <3> QED
      BY <1>3, <3>1, <3>4
  <2> QED
    BY <2>2, <2>3
<1>5. Paired(u)
  BY <1>4 DEF Paired
<1>6. NoSystem(t) /\ UsersIn(t) = {}
  BY DEF NoSystem, UsersIn
<1> QED
  BY <1>1, <1>2, <1>5, <1>6, SystemBefore, HeardBefore DEF u, Proper

LEMMA AnswerIsMessage ==
  ASSUME NEW c \in Nat, NEW size \in Nat, NEW kind \in {"result", "compact"}
  PROVE  /\ Results(c, size, kind) \in Messages /\ Results(c, size, kind).role = "tool"
         /\ Results(c, size, kind).answers = c /\ Results(c, size, kind).calls = {}
<1>1. IsFiniteSet({}) /\ Cardinality({}) = 0 /\ MaxCalls \in Nat
  BY FS_EmptySet, ContextAssumption DEF ContextAssumption
<1> QED
  BY <1>1 DEF Results, Message, Messages

LEMMA OtherMessages ==
  /\ Message("assistant", "answer", 1) \in Messages
  /\ Message("assistant", "answer", 1).role = "assistant"
  /\ Message("assistant", "answer", 1).calls = {}
  /\ \A size \in Nat, n \in Nat :
       LET m == [Message("user", "input", size) EXCEPT !.of = n]
       IN m \in Messages /\ m.role = "user" /\ m.of = n /\ m.calls = {}
<1>1. IsFiniteSet({}) /\ Cardinality({}) = 0 /\ MaxCalls \in Nat
  BY FS_EmptySet, ContextAssumption DEF ContextAssumption
<1> QED
  BY <1>1 DEF Message, Messages

(* The numbers of calls have a greatest as long as none but the next are new.    *)
LEMMA IssuedKept ==
  ASSUME NEW before \in Nat, \A i \in 1..Len(history) : \A c \in history[i].calls : c <= before,
         NEW list, \A i \in 1..Len(list) :
           list[i].calls = {} \/ \E k \in 1..Len(history) : list[i].calls \subseteq history[k].calls
  PROVE  \A i \in 1..Len(list) : \A c \in list[i].calls : c <= before
  OBVIOUS

LEMMA IssuedJoined ==
  ASSUME Issued, Proper(history), NEW t \in Seq(Messages), \A k \in 1..Len(t) : t[k].calls = {},
         history' = history \o t
  PROVE  Issued'
<1>1. PICK before \in Nat : \A i \in 1..Len(history) : \A c \in history[i].calls : c <= before
  BY DEF Issued
<1> DEFINE u == history \o t
<1>2. history \in Seq(Messages)
  BY DEF Proper
<1>3. /\ \A k \in 1..Len(history) : u[k] = history[k]
      /\ \A k \in 1..Len(t) : u[Len(history) + k] = t[k]
      /\ \A k \in 1..Len(u) : k \in 1..Len(history) \/ k - Len(history) \in 1..Len(t)
      /\ Len(history) \in Nat
  BY <1>2, JoinParts
<1> HIDE DEF u
<1>4. ASSUME NEW i \in 1..Len(u)
      PROVE  u[i].calls = {} \/ \E k \in 1..Len(history) : u[i].calls \subseteq history[k].calls
  <2>1. CASE i \in 1..Len(history)
    BY <1>3, <2>1
  <2>2. CASE i - Len(history) \in 1..Len(t)
    <3>1. Len(history) + (i - Len(history)) = i
      BY <1>3
    <3>2. u[i] = t[i - Len(history)]
      BY <1>3, <2>2, <3>1
    <3> QED
      BY <2>2, <3>2
  <2> QED
    BY <1>3, <2>1, <2>2
<1>5. \A i \in 1..Len(u) : \A c \in u[i].calls : c <= before
  BY <1>1, <1>4, IssuedKept
<1> QED
  BY <1>5 DEF Issued, u

LEMMA IssuedWithOne ==
  ASSUME Issued, Proper(history), NEW m \in Messages, m.calls = {}, history' = Append(history, m)
  PROVE  Issued'
<1> DEFINE t == <<m>>
<1>1. t \in Seq(Messages) /\ \A k \in 1..Len(t) : t[k].calls = {}
  BY OneParts
<1>2. history' = history \o t
  <2>1. history \in Seq(Messages)
    BY DEF Proper
  <2> QED
    BY <2>1, AddParts
<1> HIDE DEF t
<1> QED
  BY <1>1, <1>2, IssuedJoined

LEMMA EndKeeps ==
  ASSUME Counts, EndRun, Proper(history'), Issued'
  PROVE  BuilderInv'
<1>1. phase' = "idle"
  BY DEF EndRun
<1>2. Counts'
  <2>1. retried' \in BOOLEAN
    BY DEF EndRun
  <2> QED
    BY <2>1 DEF Counts, EndRun
<1>3. Going' /\ Asking' /\ WithinBudget'
  BY <1>1 DEF Going, Asking, WithinBudget
<1>4. Proper(history)'
  BY DEF Proper, SystemFirst, Paired
<1> QED
  BY <1>2, <1>3, <1>4 DEF BuilderInv

-----------------------------------------------------------------------------
(* The steps.                                                              *)
LEMMA StartRunKeeps ==
  ASSUME BuilderInv, NEW size \in UserSizes, StartRun(size)
  PROVE  BuilderInv'
<1> DEFINE m == [Message("user", "input", size) EXCEPT !.of = run + 1]
<1>1. /\ Proper(history) /\ run \in Nat /\ run' = run + 1 /\ phase' = "ready"
      /\ history' = Append(history, m) /\ messages' = history'
      /\ UNCHANGED <<retried, reminders>> /\ retried \in BOOLEAN /\ reminders \in 0..2
  BY DEF BuilderInv, Counts, StartRun
<1>2. m \in Messages /\ m.role = "user" /\ m.of = run + 1 /\ m.calls = {}
  <2>1. size \in Nat /\ run + 1 \in Nat
    BY <1>1, ContextAssumption DEF ContextAssumption
  <2> QED
    BY <2>1, OtherMessages
<1> HIDE DEF m
<1>3. /\ Proper(history') /\ history' \in Seq(Messages) /\ Len(history) \in Nat
      /\ Len(history') = Len(history) + 1 /\ history'[Len(history) + 1] = m
      /\ \A k \in 1..Len(history) : history'[k] = history[k]
  BY <1>1, <1>2, AddOneKeeps
<1>4. Heard(history)' /\ Heard(messages)'
  <2>1. Len(history) + 1 \in UsersIn(history')
    BY <1>2, <1>3 DEF UsersIn
  <2>2. \A k \in UsersIn(history') : k <= Len(history) + 1
    BY <1>3 DEF UsersIn
  <2> QED
    BY <1>1, <1>2, <1>3, <2>1, <2>2 DEF Heard, Hears
<1>5. Issued'
  BY <1>1, <1>2, IssuedWithOne DEF BuilderInv
<1>6. Proper(history)' /\ Proper(messages)'
  BY <1>1, <1>3 DEF Proper, SystemFirst, Paired
<1> QED
  BY <1>1, <1>4, <1>5, <1>6 DEF BuilderInv, Counts, Going, Asking, WithinBudget

LEMMA BuildKeeps ==
  ASSUME BuilderInv, BuildModelMessages
  PROVE  BuilderInv'
<1>1. /\ phase = "ready" /\ phase' = "asked" /\ UNCHANGED <<history, run, retried, reminders>>
      /\ Proper(history) /\ Proper(messages) /\ Heard(messages) /\ Heard(history) /\ Counts /\ Issued
  BY DEF BuilderInv, BuildModelMessages, Going
<1>2. PICK saved \in BOOLEAN : \E list \in CompactHistory(PreCompact(messages, saved)) :
        messages' = Prune(list)
  BY DEF BuildModelMessages
<1> PICK list \in CompactHistory(PreCompact(messages, saved)) : messages' = Prune(list)
  BY <1>2
<1>3. Proper(list) /\ Heard(list)
  BY <1>1, PreCompactKeeps, CompactHistoryKeeps
<1>4. Proper(messages') /\ Heard(messages') /\ Fits(messages')
  BY <1>3, PruneKeeps
<1>5. Going'
  BY <1>1, <1>4 DEF Going, Proper, SystemFirst, Paired, Heard, Hears
<1>6. WithinBudget'
  BY <1>4 DEF WithinBudget, Fits
<1> QED
  BY <1>1, <1>5, <1>6 DEF BuilderInv, Counts, Asking, Issued, Proper, SystemFirst, Paired

LEMMA PromptTooLongKeeps ==
  ASSUME BuilderInv, PromptTooLong
  PROVE  BuilderInv'
<1>1. /\ phase = "asked" /\ phase' = "ready" /\ retried' = TRUE /\ UNCHANGED <<run, reminders>>
      /\ Proper(history) /\ Heard(history) /\ Counts
  BY DEF BuilderInv, PromptTooLong, Going
<1>2. PICK list \in ReactiveCompact(history) : history' = list /\ messages' = list
  BY DEF PromptTooLong
<1>3. /\ Proper(list) /\ Heard(list)
      /\ \A i \in 1..Len(list) : \E k \in 1..Len(history) : list[i].calls \subseteq history[k].calls
  BY <1>1, ReactiveCompactKeeps
<1>4. Issued'
  <2>1. PICK before \in Nat : \A i \in 1..Len(history) : \A c \in history[i].calls : c <= before
    BY DEF BuilderInv, Issued
  <2>2. \A i \in 1..Len(list) : \A c \in list[i].calls : c <= before
    BY <1>3, <2>1, IssuedKept
  <2> QED
    BY <1>2, <2>2 DEF Issued
<1>5. /\ Proper(history)' /\ Proper(messages)' /\ Heard(history)' /\ Heard(messages)'
  BY <1>1, <1>2, <1>3 DEF Proper, SystemFirst, Paired, Heard, Hears
<1> QED
  BY <1>1, <1>4, <1>5 DEF BuilderInv, Counts, Going, Asking, WithinBudget

LEMMA CallToolsKeeps ==
  ASSUME BuilderInv, NEW n \in 1..MaxCalls, CallTools(n)
  PROVE  BuilderInv'
<1> DEFINE S == {0} \cup UNION {history[i].calls : i \in 1..Len(history)}
           issued == Greatest(S)
           m == [Message("assistant", "answer", 1) EXCEPT !.calls = issued + 1 .. issued + n]
<1>1. /\ phase = "asked" /\ phase' = "tools" /\ UNCHANGED <<run, retried, reminders>>
      /\ Proper(history) /\ Proper(messages) /\ Heard(messages) /\ Heard(history) /\ Counts /\ Issued
      /\ history' = Append(history, m) /\ messages' = Append(messages, m)
  BY DEF BuilderInv, CallTools, Going
<1>2. PICK before \in Nat : \A i \in 1..Len(history) : \A c \in history[i].calls : c <= before
  BY <1>1 DEF Issued
<1>3. issued \in Nat /\ \A c \in S : c <= issued
  <2>1. \A i \in 1..Len(history) : history[i].calls \in SUBSET Nat
    <3>1. history \in Seq(Messages)
      BY <1>1 DEF Proper
    <3> QED
      BY <3>1, MessageParts
  <2>2. S \in SUBSET Nat /\ S # {} /\ \A c \in S : c <= before
    BY <1>2, <2>1
  <2> HIDE DEF S
  <2> QED
    BY <2>2, GreatestOf
<1>4. m \in Messages /\ m.role = "assistant" /\ m.calls = issued + 1 .. issued + n
  <2> DEFINE new == issued + 1 .. issued + n
  <2>1. n \in Nat /\ MaxCalls \in Nat /\ n <= MaxCalls
    BY ContextAssumption DEF ContextAssumption
  <2> HIDE DEF issued
  <2>2. IsFiniteSet(new) /\ Cardinality(new) = n
    <3> DEFINE a == issued + 1
               b == issued + n
    <3>1. a \in Int /\ b \in Int /\ n = IF a > b THEN 0 ELSE b - a + 1
      BY <1>3, <2>1
    <3>2. IsFiniteSet(a..b) /\ Cardinality(a..b) = IF a > b THEN 0 ELSE b - a + 1
      <4> HIDE DEF a, b
      <4> QED
        BY <3>1, FS_Interval
    <3> HIDE DEF a, b
    <3> QED
      BY <3>1, <3>2 DEF a, b
  <2>3. new \in SUBSET Nat
    BY <1>3
  <2> HIDE DEF new
  <2>4. [Message("assistant", "answer", 1) EXCEPT !.calls = new] \in Messages
    BY <2>1, <2>2, <2>3 DEF Message, Messages
  <2> QED
    BY <2>4 DEF Message, new
<1> HIDE DEF m, issued
<1>5. /\ Proper(history') /\ Heard(history') /\ Len(history) \in Nat
      /\ Len(history') = Len(history) + 1 /\ history'[Len(history) + 1] = m
      /\ \A k \in 1..Len(history) : history'[k] = history[k]
  BY <1>1, <1>4, AddOneKeeps
<1>6. /\ Proper(messages') /\ Heard(messages') /\ Len(messages) \in Nat
      /\ Len(messages') = Len(messages) + 1 /\ messages'[Len(messages) + 1] = m
  BY <1>1, <1>4, AddOneKeeps
<1>7. Issued'
  <2>1. \A i \in 1..Len(history) : \A c \in history[i].calls : c \in S
    OBVIOUS
  <2>2. issued + n \in Nat /\ issued <= issued + n
    BY <1>3
  <2>3. ASSUME NEW i \in 1..Len(history'), NEW c \in history'[i].calls
        PROVE  c <= issued + n
    <3>1. i \in 1..Len(history) \/ i = Len(history) + 1
      BY <1>5
    <3>2. CASE i \in 1..Len(history)
      <4>1. c \in S /\ c \in Nat
        <5>1. history \in Seq(Messages)
          BY <1>1 DEF Proper
        <5>2. history[i] \in Messages /\ history'[i] = history[i]
          BY <1>5, <3>2, <5>1
        <5>3. c \in history[i].calls /\ history[i].calls \in SUBSET Nat
          BY <2>3, <5>2, MessageParts
        <5> HIDE DEF S
        <5> QED
          BY <2>1, <3>2, <5>3
      <4>2. c <= issued
        BY <1>3, <4>1
      <4> HIDE DEF S
      <4> QED
        BY <1>3, <2>2, <4>1, <4>2
    <3>3. CASE i = Len(history) + 1
      BY <1>3, <1>4, <1>5, <2>3, <3>3
    <3> QED
      BY <3>1, <3>2, <3>3
  <2> QED
    BY <2>2, <2>3 DEF Issued
<1>8. Asking'
  <2>1. history'[Len(history')] = m /\ messages'[Len(messages')] = m
    BY <1>5, <1>6
  <2> QED
    BY <1>3, <1>4, <2>1 DEF Asking
<1>9. Going' /\ Proper(history)'
  BY <1>1, <1>5, <1>6 DEF Going, Proper, SystemFirst, Paired, Heard, Hears
<1> QED
  BY <1>1, <1>7, <1>8, <1>9 DEF BuilderInv, Counts, WithinBudget

LEMMA ToolsReturnKeeps ==
  ASSUME BuilderInv, ToolsReturn
  PROVE  BuilderInv'
<1> DEFINE calls == messages[Len(messages)].calls
           first == CHOOSE c \in calls : \A d \in calls : c <= d
           result(size, compact, c) ==
             Results(c, IF c \in compact THEN 1 ELSE size[c],
                     IF c \in compact THEN "compact" ELSE "result")
           inOrder(size, compact) ==
             [i \in 1..Cardinality(calls) |-> result(size, compact, first + i - 1)]
<1>1. /\ phase = "tools" /\ phase' = "ready" /\ UNCHANGED <<run, retried, reminders>>
      /\ Proper(history) /\ Proper(messages) /\ Heard(messages) /\ Heard(history) /\ Counts /\ Issued
      /\ history[Len(history)] = messages[Len(messages)]
      /\ \E before \in Nat, n \in 1..MaxCalls : calls = before + 1 .. before + n
  BY DEF BuilderInv, ToolsReturn, Going, Asking
<1>2. PICK before \in Nat, n \in 1..MaxCalls : calls = before + 1 .. before + n
  BY <1>1
<1>3. \E size \in [calls -> ResultSizes] : \E compact \in {{}, {first}} :
        /\ messages' = messages \o inOrder(size, compact)
        /\ history' \in {history \o inOrder(size, compact),
                         history \o SE!Reverse(inOrder(size, compact))}
  BY DEF ToolsReturn
<1> HIDE DEF calls
<1>4. calls # {} /\ calls \in SUBSET Nat /\ n \in Nat /\ first = before + 1 /\ Cardinality(calls) = n
  <2>1. n \in Nat /\ n >= 1
    BY ContextAssumption DEF ContextAssumption
  <2>2. before + 1 \in calls /\ \A d \in calls : before + 1 <= d
    BY <1>2, <2>1
  <2>3. first \in calls /\ \A d \in calls : first <= d
    BY <2>2
  <2>4. calls \in SUBSET Nat
    BY <1>2, <2>1
  <2> HIDE DEF first
  <2>5. first = before + 1
    BY <2>2, <2>3, <2>4
  <2> DEFINE a == before + 1
             b == before + n
  <2>6. a \in Int /\ b \in Int /\ n = IF a > b THEN 0 ELSE b - a + 1
    BY <2>1
  <2>7. Cardinality(a..b) = IF a > b THEN 0 ELSE b - a + 1
    <3> HIDE DEF a, b
    <3> QED
      BY <2>6, FS_Interval
  <2>8. calls = a..b
    BY <1>2
  <2> HIDE DEF a, b
  <2> QED
    BY <2>1, <2>2, <2>4, <2>5, <2>6, <2>7, <2>8
<1> HIDE DEF first
<1>5. PICK size \in [calls -> ResultSizes] : \E compact \in {{}, {first}} :
        /\ messages' = messages \o inOrder(size, compact)
        /\ history' \in {history \o inOrder(size, compact),
                         history \o SE!Reverse(inOrder(size, compact))}
  BY <1>3
<1>6. PICK compact \in {{}, {first}} :
        /\ messages' = messages \o inOrder(size, compact)
        /\ history' \in {history \o inOrder(size, compact),
                         history \o SE!Reverse(inOrder(size, compact))}
  BY <1>5
<1> DEFINE ordered == inOrder(size, compact)
           Answers(t) == /\ t \in Seq(Messages)
                         /\ \A k \in 1..Len(t) : /\ t[k].role = "tool" /\ t[k].answers \in calls
                                                 /\ t[k].calls = {}
<1>7. ASSUME NEW c \in calls
      PROVE  /\ result(size, compact, c) \in Messages /\ result(size, compact, c).role = "tool"
             /\ result(size, compact, c).answers = c /\ result(size, compact, c).calls = {}
  <2> DEFINE s == IF c \in compact THEN 1 ELSE size[c]
             k == IF c \in compact THEN "compact" ELSE "result"
  <2>1. s \in Nat /\ k \in {"result", "compact"} /\ c \in Nat
    BY <1>4, ContextAssumption DEF ContextAssumption
  <2> HIDE DEF s, k
  <2> QED
    BY <2>1, AnswerIsMessage DEF s, k
<1>8. /\ Len(ordered) = n /\ ordered \in [1..n -> Messages]
      /\ \A i \in 1..n : /\ ordered[i].role = "tool" /\ ordered[i].answers \in calls
                         /\ ordered[i].calls = {}
  <2> HIDE DEF result
  <2>1. \A i \in 1..n : first + i - 1 \in calls
    BY <1>2, <1>4
  <2>2. ordered = [i \in 1..n |-> result(size, compact, first + i - 1)]
    BY <1>4
  <2> HIDE DEF ordered
  <2>3. \A i \in 1..n : ordered[i] = result(size, compact, first + i - 1)
    BY <2>2
  <2>4. \A i \in 1..n : /\ ordered[i] \in Messages /\ ordered[i].role = "tool"
                        /\ ordered[i].answers \in calls /\ ordered[i].calls = {}
    BY <1>7, <2>1, <2>3
  <2>5. ordered \in [1..n -> Messages]
    BY <2>2, <2>4
  <2>6. Len(ordered) = n
    BY <1>4, <2>2
  <2> QED
    BY <2>4, <2>5, <2>6
<1> HIDE DEF result, inOrder
<1>9. messages' = messages \o ordered /\ history' \in {history \o ordered, history \o SE!Reverse(ordered)}
  BY <1>6
<1> HIDE DEF ordered
<1>10. Answers(ordered)
  BY <1>4, <1>8
<1>11. Answers(SE!Reverse(ordered))
  <2>1. \A i \in 1..n : n - i + 1 \in 1..n
    BY <1>4
  <2>2. SE!Reverse(ordered) = [i \in 1..n |-> ordered[n - i + 1]]
    BY <1>8 DEF SE!Reverse
  <2> DEFINE t == SE!Reverse(ordered)
  <2> HIDE DEF t
  <2>3. \A i \in 1..n : t[i] = ordered[n - i + 1]
    BY <2>2 DEF t
  <2>4. t \in [1..n -> Messages]
    BY <1>8, <2>1, <2>2 DEF t
  <2>5. t \in Seq(Messages) /\ Len(t) = n
    BY <1>4, <2>4
  <2>6. \A i \in 1..n : t[i].role = "tool" /\ t[i].answers \in calls /\ t[i].calls = {}
    BY <1>8, <2>1, <2>3
  <2> QED
    BY <2>5, <2>6 DEF t
<1>12. PICK t : Answers(t) /\ history' = history \o t
  BY <1>9, <1>10, <1>11
<1>13. Proper(messages') /\ Heard(messages')
  <2>1. Proper(messages \o ordered) /\ Heard(messages \o ordered)
    BY <1>1, <1>4, <1>10, ResultsKeep DEF calls
  <2> QED
    BY <1>9, <2>1
<1>14. Proper(history') /\ Heard(history')
  <2>1. history[Len(history)].calls = calls
    BY <1>1 DEF calls
  <2>2. Proper(history \o t) /\ Heard(history \o t)
    BY <1>1, <1>4, <1>12, <2>1, ResultsKeep
  <2> QED
    BY <1>12, <2>2
<1>15. Issued'
  BY <1>1, <1>12, IssuedJoined
<1>16. Proper(history)' /\ Going'
  BY <1>1, <1>13, <1>14 DEF Going, Proper, SystemFirst, Paired, Heard, Hears
<1> QED
  BY <1>1, <1>15, <1>16 DEF BuilderInv, Counts, Asking, WithinBudget

LEMMA GiveFinalKeeps ==
  ASSUME BuilderInv, GiveFinal
  PROVE  BuilderInv'
<1> DEFINE m == Message("assistant", "answer", 1)
<1>1. /\ Proper(history) /\ Counts /\ Issued /\ history' = Append(history, m) /\ EndRun
  BY DEF BuilderInv, GiveFinal
<1>2. m \in Messages /\ m.role = "assistant" /\ m.calls = {}
  BY OtherMessages
<1> HIDE DEF m
<1>3. Proper(history')
  BY <1>1, <1>2, AddOneKeeps
<1>4. Issued'
  BY <1>1, <1>2, IssuedWithOne
<1> QED
  BY <1>1, <1>3, <1>4, EndKeeps

LEMMA RemindKeeps ==
  ASSUME BuilderInv, Remind
  PROVE  BuilderInv'
<1> DEFINE m == Message("assistant", "answer", 1)
           one == <<m>>
           two == <<Reminder>>
           t == one \o two
<1>1. /\ Proper(history) /\ Counts /\ run' = run /\ phase' = "ready" /\ reminders < 2
      /\ history' = history \o <<m, Reminder>> /\ messages' = history'
      /\ reminders' = reminders + 1 /\ retried' = FALSE
  BY DEF BuilderInv, Remind
<1>2. m \in Messages /\ m.role = "assistant" /\ m.calls = {}
  BY OtherMessages
<1>3. Reminder \in Messages /\ Reminder.role = "user" /\ Hears(Reminder) /\ Reminder.calls = {}
  BY Notes DEF Reminder, Message
<1>4. t = <<m, Reminder>>
  BY <1>2, <1>3, TwoParts
<1> HIDE DEF m
<1>5. /\ one \in Seq(Messages) /\ Paired(one) /\ NoSystem(one) /\ Len(one) = 1 /\ one[1] = m
  BY <1>2, OneParts, PairedOne DEF NoSystem
<1>6. /\ two \in Seq(Messages) /\ Paired(two) /\ NoSystem(two) /\ Heard(two)
      /\ Len(two) = 1 /\ two[1] = Reminder
  BY <1>3, OneParts, PairedOne, HeardOne DEF NoSystem
<1> HIDE DEF one, two
<1>7. /\ t \in Seq(Messages) /\ Paired(t) /\ NoSystem(t) /\ Heard(t)
      /\ Len(t) = 2 /\ t[1] = m /\ t[1 + 1] = Reminder
  <2>1. /\ t \in Seq(Messages) /\ Len(t) = 1 + 1
        /\ \A k \in 1..1 : t[k] = one[k]
        /\ \A k \in 1..1 : t[1 + k] = two[k]
    BY <1>5, <1>6, JoinParts
  <2>2. Paired(t) /\ NoSystem(t) /\ Heard(t)
    BY <1>5, <1>6, PairedJoined, NoSystemJoined, HeardBehind
  <2> HIDE DEF t
  <2> QED
    BY <1>5, <1>6, <2>1, <2>2
<1>8. history' = history \o t
  BY <1>1, <1>4
<1> HIDE DEF t
<1>9. Proper(history') /\ Heard(history')
  BY <1>1, <1>7, <1>8, AddKeeps
<1>10. Issued'
  <2>1. \A k \in 1..Len(t) : t[k].calls = {}
    <3>1. \A k \in 1..2 : k = 1 \/ k = 1 + 1
      OBVIOUS
    <3> QED
      BY <1>2, <1>3, <1>7, <3>1
  <2> QED
    BY <1>1, <1>7, <1>8, <2>1, IssuedJoined DEF BuilderInv
<1>11. Proper(history)' /\ Going'
  BY <1>1, <1>9 DEF Going, Proper, SystemFirst, Paired, Heard, Hears
<1>12. Counts'
  <2>1. retried' \in BOOLEAN
    BY <1>1
  <2>2. reminders' \in 0..2
    BY <1>1 DEF Counts
  <2> QED
    BY <1>1, <2>1, <2>2 DEF Counts
<1>13. Asking' /\ WithinBudget'
  BY <1>1 DEF Asking, WithinBudget
<1> QED
  BY <1>10, <1>11, <1>12, <1>13 DEF BuilderInv

LEMMA StopRunKeeps ==
  ASSUME BuilderInv, StopRun
  PROVE  BuilderInv'
<1>1. Proper(history) /\ Counts /\ Issued /\ EndRun
  BY DEF BuilderInv, StopRun
<1>2. CASE UNCHANGED history
  <2>1. Proper(history') /\ Issued'
    BY <1>1, <1>2 DEF Issued
  <2> QED
    BY <1>1, <2>1, EndKeeps
<1>3. ASSUME phase = "tools",
             NEW c \in messages[Len(messages)].calls, NEW size \in ResultSizes,
             history' = Append(history, Results(c, size, "result"))
      PROVE  BuilderInv'
  <2> DEFINE m == Results(c, size, "result")
             t == <<m>>
  <2>1. history \in Seq(Messages) /\ Len(history) \in Nat \ {0}
    BY <1>1 DEF Proper, SystemFirst
  <2>2. c \in history[Len(history)].calls /\ history[Len(history)].calls \in SUBSET Nat
    <3>1. history[Len(history)] \in Messages
      BY <2>1
    <3> QED
      BY <1>3, <3>1, MessageParts DEF BuilderInv, Asking
  <2>3. m \in Messages /\ m.role = "tool" /\ m.answers = c /\ m.calls = {}
    <3>1. c \in Nat /\ size \in Nat
      BY <2>2, ContextAssumption DEF ContextAssumption
    <3> QED
      BY <3>1, AnswerIsMessage
  <2>4. history' = Append(history, m)
    BY <1>3
  <2> HIDE DEF m
  <2>5. t \in Seq(Messages) /\ Len(t) = 1 /\ t[1] = m /\ history' = history \o t
    BY <2>1, <2>3, <2>4, OneParts, AddParts
  <2> HIDE DEF t
  <2>6. Proper(history')
    <3>1. \A k \in 1..Len(t) : /\ t[k].role = "tool"
                               /\ t[k].answers \in history[Len(history)].calls
      BY <2>2, <2>3, <2>5
    <3>2. Proper(history \o t)
      BY <1>1, <2>2, <2>5, <3>1, ResultsKeep
    <3> QED
      BY <2>5, <3>2
  <2>7. Issued'
    BY <1>1, <2>3, <2>4, IssuedWithOne
  <2> QED
    BY <1>1, <2>6, <2>7, EndKeeps
<1> QED
  BY <1>2, <1>3 DEF StopRun

-----------------------------------------------------------------------------
LEMMA BuilderInit ==
  ContextInit => BuilderInv
<1> SUFFICES ASSUME ContextInit PROVE BuilderInv
  OBVIOUS
<1>1. System \in Messages /\ System.role = "system" /\ System.calls = {}
  BY Notes DEF System, Message
<1>2. history \in Seq(Messages) /\ Len(history) = 1 /\ history[1] = System
  BY <1>1, OneParts DEF ContextInit
<1>3. Proper(history)
  BY <1>1, <1>2 DEF Proper, SystemFirst, Paired, ToolsIn
<1>4. Issued
  BY <1>1, <1>2 DEF Issued
<1>5. Counts
  <2>1. retried \in BOOLEAN
    BY DEF ContextInit
  <2> QED
    BY <2>1 DEF ContextInit, Counts
<1>6. Going /\ Asking /\ WithinBudget
  BY DEF ContextInit, Going, Asking, WithinBudget
<1> QED
  BY <1>3, <1>4, <1>5, <1>6 DEF BuilderInv

LEMMA BuilderStep ==
  BuilderInv /\ [ContextNext]_contextVars => BuilderInv'
<1> SUFFICES ASSUME BuilderInv, [ContextNext]_contextVars PROVE BuilderInv'
  OBVIOUS
<1>1. CASE UNCHANGED contextVars
  BY <1>1 DEF contextVars, BuilderInv, Counts, Going, Asking, Issued, WithinBudget, Proper,
     SystemFirst, Paired, Heard, Hears
<1>2. ASSUME NEW size \in UserSizes, StartRun(size) PROVE BuilderInv'
  BY <1>2, StartRunKeeps
<1>3. CASE BuildModelMessages
  BY <1>3, BuildKeeps
<1>4. CASE PromptTooLong
  BY <1>4, PromptTooLongKeeps
<1>5. ASSUME NEW n \in 1..MaxCalls, CallTools(n) PROVE BuilderInv'
  BY <1>5, CallToolsKeeps
<1>6. CASE ToolsReturn
  BY <1>6, ToolsReturnKeeps
<1>7. CASE GiveFinal
  BY <1>7, GiveFinalKeeps
<1>8. CASE Remind
  BY <1>8, RemindKeeps
<1>9. CASE StopRun
  BY <1>9, StopRunKeeps
<1> QED
  BY <1>1, <1>2, <1>3, <1>4, <1>5, <1>6, <1>7, <1>8, <1>9 DEF ContextNext

(* What the inductive invariant says of what the model is given.               *)
LEMMA ProperIsList ==
  ASSUME NEW list, Proper(list)
  PROVE  IsList(list)
<1>1. list \in Seq(Messages) /\ SystemFirst(list)
  BY DEF Proper
<1>2. ASSUME NEW i \in 1..Len(list)
      PROVE  /\ DOMAIN list[i] = {"role", "kind", "size", "of", "calls", "answers"}
             /\ list[i].size \in Nat /\ list[i].calls \subseteq Nat
             /\ list[i].role = "system" <=> i = 1
  <2>1. list[i] \in Messages
    BY <1>1
  <2> QED
    BY <1>1, <2>1, MessageParts DEF SystemFirst
<1> QED
  BY <1>1, <1>2 DEF IsList, SystemFirst

LEMMA InvariantHolds ==
  ASSUME BuilderInv
  PROVE  ContextInv
<1>1. ContextTypeOK
  <2>1. messages = <<>> \/ IsList(messages)
    BY ProperIsList DEF BuilderInv, Counts, Going
  <2>2. IsList(history)
    BY ProperIsList DEF BuilderInv
  <2> QED
    BY <2>1, <2>2 DEF BuilderInv, Counts, ContextTypeOK
<1>2. NoOrphanResult
  BY DEF BuilderInv, Going, Proper, Paired, NoOrphanResult
<1>3. LatestUserKept
  <2> SUFFICES ASSUME phase = "asked"
               PROVE  LET last == messages[Greatest({0} \cup UsersIn(messages))]
                      IN  /\ UsersIn(messages) # {}
                          /\ last.of = run \/ last.kind \in {"summary", "placeholder", "reminder"}
    BY DEF LatestUserKept
  <2>1. Proper(messages) /\ Heard(messages)
    BY DEF BuilderInv, Going
  <2>2. PICK l \in UsersIn(messages) :
          (\A k \in UsersIn(messages) : k <= l) /\ Hears(messages[l])
    BY <2>1 DEF Heard
  <2> DEFINE S == {0} \cup UsersIn(messages)
  <2>3. S \in SUBSET Nat /\ S # {} /\ l \in Nat /\ l \in S /\ \A k \in S : k <= l
    BY <2>2 DEF UsersIn
  <2>4. Greatest(S) \in S /\ \A k \in S : k <= Greatest(S)
    <3> HIDE DEF S
    <3> QED
      BY <2>3, GreatestOf
  <2>5. Greatest(S) = l
    <3> DEFINE g == Greatest(S)
    <3> HIDE DEF S, g
    <3>1. g <= l /\ l <= g /\ g \in Nat
      BY <2>3, <2>4 DEF g
    <3> QED
      BY <2>3, <3>1 DEF g
  <2> QED
    BY <2>2, <2>5 DEF Hears
<1>4. WithinBudget
  BY DEF BuilderInv
<1> QED
  BY <1>1, <1>2, <1>3, <1>4 DEF ContextInv

(* However the messages of a run were cut down, snipped in the middle, their     *)
(* older results replaced, summarised, reduced to the groups that fit or cut off *)
(* in one (agent/context_builder.go, context_compact.go), what the model gets    *)
(* has the system prompt first, each result behind the call it answers, the      *)
(* question of the run as the last it hears from the user, or what came in its   *)
(* place, and the size the budget allows.                                       *)
THEOREM ConversationIsSound == ContextSpec => []ContextInv
<1>1. ContextSpec => []BuilderInv
  BY BuilderInit, BuilderStep, PTL DEF ContextSpec
<1>2. BuilderInv => ContextInv
  BY InvariantHolds
<1> QED
  BY <1>1, <1>2, PTL
=============================================================================
