---------------------------- MODULE ToolsetProofs ----------------------------
(***************************************************************************)
(* Proofs about what a run has to work with: its tools (Toolset), for any    *)
(* skill files, definitions of specialists, servers, users and number of     *)
(* calls, and what it is told of itself (RuntimeContext), for any lengths of  *)
(* the texts and any number of calls.  First what the functions on lists of   *)
(* skills return that put an agent together, then what an agent is, then the  *)
(* invariant of the calls; then the same of the blocks of text: what is kept  *)
(* of a list, what is shown of it within the budget, what a call puts there.  *)
(* That a function defined by recursion on numbers exists is itself proved    *)
(* (StepsExist), and what holds of all its values is carried from each number *)
(* to the next (Reaches).                                                    *)
(***************************************************************************)
EXTENDS Toolset, RuntimeContext, SequenceTheorems, FiniteSetTheorems, WellFoundedInduction,
        TLAPS

(* Numbers: a set of them has a least, and a bounded one a greatest.           *)
LEMMA LeastOf ==
  ASSUME NEW T \in SUBSET Nat, T # {}
  PROVE  \E x \in T : \A y \in T : x <= y
<1> DEFINE R == OpToRel(<, Nat)
<1>1. IsWellFoundedOn(R, Nat)
  BY NatLessThanWellFounded
<1>2. \A a, b \in Nat : a < b => <<a, b>> \in R
  BY DEF OpToRel
<1> HIDE DEF R
<1>3. PICK x \in T : \A y \in T : ~ (<<y, x>> \in R)
  BY <1>1, WFMin
<1>4. ASSUME NEW y \in T PROVE x <= y
  <2>1. x \in Nat /\ y \in Nat
    OBVIOUS
  <2>2. ~ (y < x)
    BY <1>2, <1>3, <2>1
  <2> QED
    BY <2>1, <2>2
<1> QED
  BY <1>3, <1>4

(* What holds at first and from each number to the next holds of all of them.   *)
LEMMA Reaches ==
  ASSUME NEW N \in Nat, NEW T, 0 \in T, \A n \in 1..N : n - 1 \in T => n \in T
  PROVE  \A n \in 0..N : n \in T
<1> DEFINE Missed == {n \in 0..N : n \notin T}
<1>1. CASE Missed = {}
  BY <1>1
<1>2. CASE Missed # {}
  <2>1. Missed \in SUBSET Nat
    OBVIOUS
  <2>2. PICK n \in Missed : \A m \in Missed : n <= m
    <3> HIDE DEF Missed
    <3> QED
      BY <1>2, <2>1, LeastOf
  <2>3. n \in 1..N /\ n \notin T
    BY <2>2
  <2>4. n - 1 \in 0..N /\ ~ (n <= n - 1)
    BY <2>3
  <2>5. n - 1 \in T
    BY <2>2, <2>4
  <2> QED
    BY <2>3, <2>5
<1> QED
  BY <1>1, <1>2

(* A function on numbers that is defined step by step exists.                *)
Steps(f, N, D, e, G) ==
  /\ f[0] = e /\ \A n \in 0..N : f[n] \in D
  /\ \A n \in 1..N : f[n] = G[f[n - 1]][n]

LEMMA StepsExist ==
  ASSUME NEW N \in Nat, NEW D, NEW e \in D, NEW G,
         \A d \in D, n \in 1..N : G[d][n] \in D
  PROVE  \E f : Steps(f, N, D, e, G)
<1> DEFINE Good(f, m) == /\ \A n \in 0..N : f[n] \in D
                         /\ f[0] = e
                         /\ \A n \in 1..m : f[n] = G[f[n - 1]][n]
           T == {m \in 0..N : \E f : Good(f, m)}
<1>1. 0 \in T
  <2> DEFINE f == [n \in 0..N |-> e]
  <2>1. (\A n \in 0..N : f[n] \in D) /\ f[0] = e /\ 0 \in 0..N
    OBVIOUS
  <2>2. \A n \in 1..0 : f[n] = G[f[n - 1]][n]
    OBVIOUS
  <2> HIDE DEF f
  <2> QED
    BY <2>1, <2>2
<1>2. ASSUME NEW m \in 1..N, m - 1 \in T PROVE m \in T
  <2>1. PICK g : Good(g, m - 1)
    BY <1>2
  <2>2. m \in 0..N /\ m - 1 \in 0..N
    OBVIOUS
  <2>3. g[m - 1] \in D
    BY <2>1, <2>2
  <2> DEFINE x == G[g[m - 1]][m]
             f == [n \in 0..N |-> IF n = m THEN x ELSE g[n]]
  <2>4. x \in D
    BY <2>3
  <2> HIDE DEF x
  <2>5. \A n \in 0..N : f[n] = IF n = m THEN x ELSE g[n]
    OBVIOUS
  <2> HIDE DEF f
  <2>7. f[0] = e /\ \A n \in 0..N : f[n] \in D
    BY <2>1, <2>4, <2>5
  <2>8. ASSUME NEW n \in 1..m PROVE f[n] = G[f[n - 1]][n]
    <3>1. n \in 0..N /\ n - 1 \in 0..N /\ n - 1 # m
      BY <2>2
    <3>2. f[n - 1] = g[n - 1]
      BY <2>5, <3>1
    <3>3. CASE n = m
      BY <2>5, <3>1, <3>2, <3>3 DEF x
    <3>4. CASE n # m
      <4>1. n \in 1..m - 1
        BY <3>4
      <4> QED
        BY <2>1, <2>5, <3>1, <3>2, <3>4, <4>1
    <3> QED
      BY <3>3, <3>4
  <2>9. Good(f, m)
    BY <2>7, <2>8
  <2> QED
    BY <2>2, <2>9
<1>3. N \in T
  <2>1. \A n \in 1..N : n - 1 \in T => n \in T
    BY <1>2
  <2>2. N \in 0..N
    OBVIOUS
  <2> HIDE DEF T
  <2> QED
    BY <1>1, <2>1, <2>2, Reaches
<1> QED
  BY <1>3 DEF Steps

(* Lists: what one element more, one changed and a second list make of one.   *)
LEMMA AppendParts ==
  ASSUME NEW S, NEW s \in Seq(S), NEW x \in S
  PROVE  /\ Append(s, x) \in Seq(S) /\ Len(Append(s, x)) = Len(s) + 1 /\ Len(s) \in Nat
         /\ \A i \in 1..Len(s) : Append(s, x)[i] = s[i]
         /\ Append(s, x)[Len(s) + 1] = x
  OBVIOUS

(* What is in two lists, one after the other.                               *)
Both(u, s, t) ==
  /\ \A j \in 1..Len(u) : (\E k \in 1..Len(s) : u[j] = s[k]) \/ \E k \in 1..Len(t) : u[j] = t[k]
  /\ \A k \in 1..Len(s) : \E j \in 1..Len(u) : u[j] = s[k]
  /\ \A k \in 1..Len(t) : \E j \in 1..Len(u) : u[j] = t[k]

LEMMA ConcatParts ==
  ASSUME NEW S, NEW s \in Seq(S), NEW t \in Seq(S)
  PROVE  s \o t \in Seq(S) /\ Both(s \o t, s, t)
<1> DEFINE u == s \o t
<1>1. /\ u \in Seq(S) /\ Len(u) = Len(s) + Len(t) /\ Len(s) \in Nat /\ Len(t) \in Nat
      /\ \A i \in 1..Len(s) : u[i] = s[i]
      /\ \A i \in 1..Len(t) : u[i + Len(s)] = t[i]
  OBVIOUS
<1> HIDE DEF u
<1>2. \A j \in 1..Len(u) : j \in 1..Len(s) \/ (j - Len(s) \in 1..Len(t) /\ (j - Len(s)) + Len(s) = j)
  BY <1>1
<1>3. /\ \A k \in 1..Len(s) : k \in 1..Len(u)
      /\ \A k \in 1..Len(t) : k + Len(s) \in 1..Len(u)
  BY <1>1
<1>4. \A j \in 1..Len(u) : (\E k \in 1..Len(s) : u[j] = s[k]) \/ \E k \in 1..Len(t) : u[j] = t[k]
  BY <1>1, <1>2
<1>5. \A k \in 1..Len(s) : \E j \in 1..Len(u) : u[j] = s[k]
  BY <1>1, <1>3
<1>6. \A k \in 1..Len(t) : \E j \in 1..Len(u) : u[j] = t[k]
  BY <1>1, <1>3
<1> QED
  BY <1>1, <1>4, <1>5, <1>6 DEF u, Both

(* Of entries with one key the first are kept, in their order.               *)
LEMMA OnceSteps ==
  ASSUME NEW S, NEW list \in Seq(S), NEW key
  PROVE  \E kept :
           /\ kept[0] = <<>> /\ \A n \in 0..Len(list) : kept[n] \in Seq(S)
           /\ \A n \in 1..Len(list) :
                /\ Repeats(key, n) => kept[n] = kept[n - 1]
                /\ ~ Repeats(key, n) => kept[n] = Append(kept[n - 1], list[n])
           /\ Once(list, key) = kept[Len(list)]
<1> DEFINE N == Len(list)
           SS == Seq(S)
           Defined(f) == f = [n \in 0..N |->
                                IF n = 0 THEN <<>>
                                ELSE IF Repeats(key, n) THEN f[n - 1]
                                ELSE Append(f[n - 1], list[n])]
           kept == CHOOSE f : Defined(f)
           G == [s \in SS |-> [n \in 1..N |->
                   IF Repeats(key, n) THEN s ELSE Append(s, list[n])]]
<1>1. N \in Nat /\ <<>> \in SS
  OBVIOUS
<1>2. ASSUME NEW s \in SS, NEW n \in 1..N
      PROVE  (IF Repeats(key, n) THEN s ELSE Append(s, list[n])) \in SS
  OBVIOUS
<1> HIDE DEF SS, N
<1>3. \A s \in SS, n \in 1..N : G[s][n] \in SS
  BY <1>2
<1>4. PICK g : Steps(g, N, SS, <<>>, G)
  <2> HIDE DEF G
  <2> QED
    BY <1>1, <1>3, StepsExist
<1> DEFINE h == [n \in 0..N |-> g[n]]
<1>5. Defined(h)
  <2>1. ASSUME NEW n \in 1..N
        PROVE  h[n] = IF Repeats(key, n) THEN h[n - 1] ELSE Append(h[n - 1], list[n])
    <3>1. n - 1 \in 0..N /\ n \in 0..N
      BY <1>1
    <3>2. g[n - 1] \in SS
      BY <1>4, <3>1 DEF Steps
    <3>3. g[n] = IF Repeats(key, n) THEN g[n - 1] ELSE Append(g[n - 1], list[n])
      BY <1>4, <3>2 DEF Steps
    <3> QED
      BY <3>1, <3>3
  <2>2. h[0] = <<>>
    BY <1>1, <1>4 DEF Steps
  <2>3. \A n \in 0..N : n = 0 \/ n \in 1..N
    BY <1>1
  <2>4. h = [n \in 0..N |-> h[n]]
    OBVIOUS
  <2> HIDE DEF h
  <2> QED
    BY <2>1, <2>2, <2>3, <2>4
<1>6. Defined(kept)
  BY <1>5
<1>7. Once(list, key) = kept[N]
  BY DEF Once, N
<1> HIDE DEF kept, G
<1>8. /\ kept[0] = <<>>
      /\ \A n \in 1..N : /\ Repeats(key, n) => kept[n] = kept[n - 1]
                         /\ ~ Repeats(key, n) => kept[n] = Append(kept[n - 1], list[n])
  <2>1. 0 \in 0..N /\ \A n \in 1..N : n \in 0..N /\ n # 0
    BY <1>1
  <2> QED
    BY <1>6, <2>1
<1>9. \A n \in 0..N : n \in {m \in 0..N : kept[m] \in SS}
  <2> DEFINE T == {m \in 0..N : kept[m] \in SS}
  <2>1. 0 \in T
    BY <1>1, <1>8
  <2>2. ASSUME NEW n \in 1..N, n - 1 \in T PROVE n \in T
    <3>1. n \in 0..N /\ kept[n - 1] \in SS
      BY <1>1, <2>2
    <3>2. kept[n] = IF Repeats(key, n) THEN kept[n - 1] ELSE Append(kept[n - 1], list[n])
      BY <1>8
    <3>3. kept[n] \in SS
      BY <1>2, <3>1, <3>2
    <3> QED
      BY <3>1, <3>3
  <2>3. \A n \in 1..N : n - 1 \in T => n \in T
    BY <2>2
  <2> HIDE DEF T
  <2>4. \A n \in 0..N : n \in T
    BY <1>1, <2>1, <2>3, Reaches
  <2> QED
    BY <2>4 DEF T
<1>10. \A n \in 0..Len(list) : kept[n] \in Seq(S)
  BY <1>9 DEF SS, N
<1> QED
  BY <1>7, <1>8, <1>10 DEF N

(* What is kept of the first entries of a list.                             *)
Kept(s, n, list, key) ==
  /\ \A a \in 1..Len(s) : \E j \in 1..n : s[a] = list[j] /\ ~ Repeats(key, j)
  /\ \A a, b \in 1..Len(s) : a < b =>
       \E i, j \in 1..n : i < j /\ s[a] = list[i] /\ s[b] = list[j] /\ ~ Repeats(key, j)
  /\ \A j \in 1..n : \E a \in 1..Len(s), i \in 1..n : s[a] = list[i] /\ key[i] = key[j]

LEMMA OneRepeats ==
  ASSUME NEW list, NEW key, NEW s, NEW n \in Nat \ {0}, Kept(s, n - 1, list, key), Repeats(key, n)
  PROVE  Kept(s, n, list, key)
<1>1. /\ \A j \in 1..n - 1 : j \in 1..n
      /\ \A j \in 1..n : j \in 1..n - 1 \/ j = n
  OBVIOUS
<1>2. ASSUME NEW a \in 1..Len(s)
      PROVE  \E j \in 1..n : s[a] = list[j] /\ ~ Repeats(key, j)
  <2>1. PICK j \in 1..n - 1 : s[a] = list[j] /\ ~ Repeats(key, j)
    BY DEF Kept
  <2> QED
    BY <1>1, <2>1
<1>3. ASSUME NEW a \in 1..Len(s), NEW b \in 1..Len(s), a < b
      PROVE  \E i, j \in 1..n : i < j /\ s[a] = list[i] /\ s[b] = list[j] /\ ~ Repeats(key, j)
  <2>1. PICK i \in 1..n - 1, j \in 1..n - 1 :
          i < j /\ s[a] = list[i] /\ s[b] = list[j] /\ ~ Repeats(key, j)
    BY <1>3 DEF Kept
  <2> QED
    BY <1>1, <2>1
<1>4. ASSUME NEW j \in 1..n
      PROVE  \E a \in 1..Len(s), i \in 1..n : s[a] = list[i] /\ key[i] = key[j]
  <2>1. PICK h \in 1..n - 1 : key[h] = key[j]
    BY <1>1 DEF Repeats
  <2>2. PICK a \in 1..Len(s), i \in 1..n - 1 : s[a] = list[i] /\ key[i] = key[h]
    BY DEF Kept
  <2> QED
    BY <1>1, <2>1, <2>2
<1> QED
  BY <1>2, <1>3, <1>4 DEF Kept

LEMMA OneIsFirst ==
  ASSUME NEW S, NEW list, NEW key, NEW s \in Seq(S), NEW n \in Nat \ {0}, list[n] \in S,
         Kept(s, n - 1, list, key), ~ Repeats(key, n)
  PROVE  Kept(Append(s, list[n]), n, list, key)
<1> DEFINE t == Append(s, list[n])
<1>1. (\A j \in 1..n - 1 : j \in 1..n) /\ (\A j \in 1..n : j \in 1..n - 1 \/ j = n) /\ n \in 1..n
  OBVIOUS
<1>2. /\ Len(s) \in Nat /\ Len(t) = Len(s) + 1 /\ t[Len(s) + 1] = list[n]
      /\ \A a \in 1..Len(s) : t[a] = s[a]
  BY AppendParts
<1> HIDE DEF t
<1>3. /\ \A a \in 1..Len(t) : a \in 1..Len(s) \/ a = Len(s) + 1
      /\ Len(s) + 1 \in 1..Len(t) /\ \A a \in 1..Len(s) : a \in 1..Len(t)
  BY <1>2
<1>4. \A a \in 1..Len(s) : \E j \in 1..n - 1 : t[a] = list[j] /\ ~ Repeats(key, j)
  BY <1>2 DEF Kept
<1>5. \A a \in 1..Len(t) : \E j \in 1..n : t[a] = list[j] /\ ~ Repeats(key, j)
  BY <1>1, <1>2, <1>3, <1>4
<1>6. ASSUME NEW a \in 1..Len(t), NEW b \in 1..Len(t), a < b
      PROVE  \E i, j \in 1..n : i < j /\ t[a] = list[i] /\ t[b] = list[j] /\ ~ Repeats(key, j)
  <2>1. a \in 1..Len(s)
    BY <1>2, <1>6
  <2>2. CASE b \in 1..Len(s)
    <3>1. PICK i \in 1..n - 1, j \in 1..n - 1 :
            i < j /\ s[a] = list[i] /\ s[b] = list[j] /\ ~ Repeats(key, j)
      <4>1. \A x, y \in 1..Len(s) : x < y =>
              \E i, j \in 1..n - 1 : i < j /\ s[x] = list[i] /\ s[y] = list[j] /\ ~ Repeats(key, j)
        BY DEF Kept
      <4>2. \E i, j \in 1..n - 1 : i < j /\ s[a] = list[i] /\ s[b] = list[j] /\ ~ Repeats(key, j)
        BY <1>6, <2>1, <2>2, <4>1
      <4> QED
        BY <4>2
    <3> QED
      BY <1>1, <1>2, <2>1, <2>2, <3>1
  <2>3. CASE b = Len(s) + 1
    <3>1. PICK i \in 1..n - 1 : t[a] = list[i]
      BY <1>4, <2>1
    <3>2. i < n
      OBVIOUS
    <3> QED
      BY <1>1, <1>2, <2>3, <3>1, <3>2
  <2> QED
    BY <1>3, <2>2, <2>3
<1>7. ASSUME NEW j \in 1..n
      PROVE  \E a \in 1..Len(t), i \in 1..n : t[a] = list[i] /\ key[i] = key[j]
  <2>1. CASE j = n
    BY <1>1, <1>2, <1>3, <2>1
  <2>2. CASE j \in 1..n - 1
    <3>1. PICK a \in 1..Len(s), i \in 1..n - 1 : s[a] = list[i] /\ key[i] = key[j]
      BY <2>2 DEF Kept
    <3> QED
      BY <1>1, <1>2, <1>3, <3>1
  <2> QED
    BY <1>1, <2>1, <2>2
<1>8. Kept(t, n, list, key)
  BY <1>5, <1>6, <1>7 DEF Kept
<1> QED
  BY <1>8 DEF t

LEMMA OnceParts ==
  ASSUME NEW S, NEW list \in Seq(S), NEW key
  PROVE  Once(list, key) \in Seq(S) /\ Kept(Once(list, key), Len(list), list, key)
<1> DEFINE N == Len(list)
<1>1. PICK kept :
        /\ kept[0] = <<>> /\ \A n \in 0..N : kept[n] \in Seq(S)
        /\ \A n \in 1..N :
             /\ Repeats(key, n) => kept[n] = kept[n - 1]
             /\ ~ Repeats(key, n) => kept[n] = Append(kept[n - 1], list[n])
        /\ Once(list, key) = kept[N]
  BY OnceSteps, ZenonT(60)
<1> DEFINE T == {n \in 0..N : Kept(kept[n], n, list, key)}
<1>2. N \in Nat /\ \A n \in 1..N : n \in Nat \ {0} /\ n \in 0..N /\ n - 1 \in 0..N /\ list[n] \in S
  OBVIOUS
<1> HIDE DEF N
<1>3. 0 \in T
  <2>1. Len(kept[0]) = 0 /\ 0 \in 0..N
    BY <1>1, <1>2
  <2>2. Kept(kept[0], 0, list, key)
    BY <2>1 DEF Kept
  <2> QED
    BY <2>1, <2>2
<1>4. ASSUME NEW n \in 1..N, n - 1 \in T PROVE n \in T
  <2>1. kept[n - 1] \in Seq(S) /\ Kept(kept[n - 1], n - 1, list, key)
    BY <1>1, <1>2, <1>4
  <2>2. n \in Nat \ {0} /\ list[n] \in S
    BY <1>2
  <2>3. ASSUME Repeats(key, n) PROVE Kept(kept[n], n, list, key)
    BY <1>1, <2>1, <2>2, <2>3, OneRepeats
  <2>4. ASSUME ~ Repeats(key, n) PROVE Kept(kept[n], n, list, key)
    BY <1>1, <2>1, <2>2, <2>4, OneIsFirst
  <2> QED
    BY <1>2, <2>3, <2>4
<1>5. N \in T
  <2>1. \A n \in 1..N : n - 1 \in T => n \in T
    BY <1>4
  <2>2. N \in 0..N
    BY <1>2
  <2> HIDE DEF T
  <2> QED
    BY <1>2, <1>3, <2>1, <2>2, Reaches
<1> QED
  BY <1>1, <1>2, <1>5 DEF N

-----------------------------------------------------------------------------
(* Skills.                                                                 *)
ToolsOf(skill) == {skill.tools[k] : k \in 1..Len(skill.tools)}
NamesOf(skill) == {t.name : t \in ToolsOf(skill)}
HooksOf(skill) == {skill.hooks[k] : k \in 1..Len(skill.hooks)}

(* No hook is there twice.                                                  *)
Single(hooks) == \A i, j \in 1..Len(hooks) : hooks[i] = hooks[j] => i = j

HookNames == {"session_summary", "active_memory", "tool_memory", "current_time",
              "schedule_guidance", "state_guard", "tool_grounding_guard"}

Skills(N, T) == [name : N, tools : Seq(T), hooks : Seq(HookNames)]

LEMMA ToolsOnceParts ==
  ASSUME NEW S, NEW list \in Seq(S)
  PROVE  /\ ToolsOnce(list) \in Seq(S)
         /\ \A k \in 1..Len(ToolsOnce(list)) : \E j \in 1..Len(list) : ToolsOnce(list)[k] = list[j]
         /\ \A j \in 1..Len(list) : \E k \in 1..Len(ToolsOnce(list)) : ToolsOnce(list)[k].name = list[j].name
<1> DEFINE key == [i \in 1..Len(list) |-> list[i].name]
<1>1. ToolsOnce(list) = Once(list, key)
  BY DEF ToolsOnce
<1>2. \A j \in 1..Len(list) : key[j] = list[j].name
  OBVIOUS
<1> HIDE DEF key
<1>3. Once(list, key) \in Seq(S) /\ Kept(Once(list, key), Len(list), list, key)
  BY OnceParts
<1>4. ASSUME NEW j \in 1..Len(list)
      PROVE  \E k \in 1..Len(Once(list, key)) : Once(list, key)[k].name = list[j].name
  <2>1. PICK k \in 1..Len(Once(list, key)), i \in 1..Len(list) : Once(list, key)[k] = list[i] /\ key[i] = key[j]
    BY <1>3 DEF Kept
  <2> QED
    BY <1>2, <2>1
<1>5. \A k \in 1..Len(Once(list, key)) : \E j \in 1..Len(list) : Once(list, key)[k] = list[j]
  BY <1>3 DEF Kept
<1> QED
  BY <1>1, <1>3, <1>4, <1>5

LEMMA HooksOnceParts ==
  ASSUME NEW S, NEW list \in Seq(S)
  PROVE  /\ HooksOnce(list) \in Seq(S)
         /\ \A k \in 1..Len(HooksOnce(list)) : \E j \in 1..Len(list) : HooksOnce(list)[k] = list[j]
         /\ \A j \in 1..Len(list) : \E k \in 1..Len(HooksOnce(list)) : HooksOnce(list)[k] = list[j]
         /\ Single(HooksOnce(list))
<1> DEFINE once == Once(list, list)
<1>1. HooksOnce(list) = once
  BY DEF HooksOnce
<1>2. once \in Seq(S) /\ Kept(once, Len(list), list, list) /\ Len(once) \in Nat
  BY OnceParts
<1> HIDE DEF once
<1>3. \A j \in 1..Len(list) : \E k \in 1..Len(once) : once[k] = list[j]
  BY <1>2 DEF Kept
<1>4. ASSUME NEW a \in 1..Len(once), NEW b \in 1..Len(once), a < b PROVE once[a] # once[b]
  <2>1. PICK i \in 1..Len(list), j \in 1..Len(list) :
          i < j /\ once[a] = list[i] /\ once[b] = list[j] /\ ~ Repeats(list, j)
    BY <1>2, <1>4 DEF Kept
  <2>2. i \in 1..j - 1
    BY <2>1
  <2> QED
    BY <2>1, <2>2 DEF Repeats
<1>5. \A a, b \in 1..Len(once) : a < b \/ b < a \/ a = b
  BY <1>2
<1>6. Single(once)
  BY <1>4, <1>5 DEF Single
<1> QED
  BY <1>1, <1>2, <1>3, <1>6 DEF Kept

(* Two skills in one have the tools and hooks of both, by name.               *)
LEMMA MergeParts ==
  ASSUME NEW N, NEW T, NEW a \in Skills(N, T), NEW b \in Skills(N, T)
  PROVE  /\ Merge(a, b) \in Skills(N, T) /\ Merge(a, b).name = a.name
         /\ ToolsOf(Merge(a, b)) \subseteq ToolsOf(a) \cup ToolsOf(b)
         /\ NamesOf(a) \cup NamesOf(b) \subseteq NamesOf(Merge(a, b))
         /\ HooksOf(Merge(a, b)) = HooksOf(a) \cup HooksOf(b)
         /\ Single(Merge(a, b).hooks)
<1> DEFINE tools == a.tools \o b.tools
           hooks == a.hooks \o b.hooks
           m == Merge(a, b)
<1>1. /\ a.name \in N /\ a.tools \in Seq(T) /\ b.tools \in Seq(T)
      /\ a.hooks \in Seq(HookNames) /\ b.hooks \in Seq(HookNames)
  BY DEF Skills
<1>2. tools \in Seq(T) /\ Both(tools, a.tools, b.tools)
  BY <1>1, ConcatParts
<1>3. hooks \in Seq(HookNames) /\ Both(hooks, a.hooks, b.hooks)
  BY <1>1, ConcatParts
<1> HIDE DEF tools, hooks
<1>4. m = [name |-> a.name, tools |-> ToolsOnce(tools), hooks |-> HooksOnce(hooks)]
  BY DEF Merge, tools, hooks
<1>5. m.name = a.name /\ m.tools = ToolsOnce(tools) /\ m.hooks = HooksOnce(hooks)
  BY <1>4
<1>6. /\ m.tools \in Seq(T)
      /\ \A k \in 1..Len(m.tools) : \E j \in 1..Len(tools) : m.tools[k] = tools[j]
      /\ \A j \in 1..Len(tools) : \E k \in 1..Len(m.tools) : m.tools[k].name = tools[j].name
  <2>1. /\ ToolsOnce(tools) \in Seq(T)
        /\ \A k \in 1..Len(ToolsOnce(tools)) : \E j \in 1..Len(tools) : ToolsOnce(tools)[k] = tools[j]
        /\ \A j \in 1..Len(tools) :
             \E k \in 1..Len(ToolsOnce(tools)) : ToolsOnce(tools)[k].name = tools[j].name
    BY <1>2, ToolsOnceParts
  <2> QED
    BY <1>5, <2>1
<1>7. /\ m.hooks \in Seq(HookNames)
      /\ \A k \in 1..Len(m.hooks) : \E j \in 1..Len(hooks) : m.hooks[k] = hooks[j]
      /\ \A j \in 1..Len(hooks) : \E k \in 1..Len(m.hooks) : m.hooks[k] = hooks[j]
      /\ Single(m.hooks)
  <2>1. /\ HooksOnce(hooks) \in Seq(HookNames)
        /\ \A k \in 1..Len(HooksOnce(hooks)) : \E j \in 1..Len(hooks) : HooksOnce(hooks)[k] = hooks[j]
        /\ \A j \in 1..Len(hooks) : \E k \in 1..Len(HooksOnce(hooks)) : HooksOnce(hooks)[k] = hooks[j]
        /\ Single(HooksOnce(hooks))
    BY <1>3, HooksOnceParts
  <2> QED
    BY <1>5, <2>1
<1>8. m \in Skills(N, T)
  BY <1>1, <1>4, <1>5, <1>6, <1>7 DEF Skills
<1> HIDE DEF m
<1>9. ToolsOf(m) \subseteq ToolsOf(a) \cup ToolsOf(b)
  <2>1. ASSUME NEW k \in 1..Len(m.tools) PROVE m.tools[k] \in ToolsOf(a) \cup ToolsOf(b)
    <3>1. PICK j \in 1..Len(tools) : m.tools[k] = tools[j]
      BY <1>6
    <3>2. CASE \E i \in 1..Len(a.tools) : tools[j] = a.tools[i]
      BY <3>1, <3>2 DEF ToolsOf
    <3>3. CASE \E i \in 1..Len(b.tools) : tools[j] = b.tools[i]
      BY <3>1, <3>3 DEF ToolsOf
    <3> QED
      BY <1>2, <3>2, <3>3 DEF Both
  <2> QED
    BY <2>1 DEF ToolsOf
<1>10. ASSUME NEW t \in ToolsOf(a) \cup ToolsOf(b) PROVE t.name \in NamesOf(m)
  <2>1. \E j \in 1..Len(tools) : tools[j] = t
    <3>1. CASE t \in ToolsOf(a)
      <4>1. PICK k \in 1..Len(a.tools) : t = a.tools[k]
        BY <3>1 DEF ToolsOf
      <4> QED
        BY <1>2, <4>1 DEF Both
    <3>2. CASE t \in ToolsOf(b)
      <4>1. PICK k \in 1..Len(b.tools) : t = b.tools[k]
        BY <3>2 DEF ToolsOf
      <4> QED
        BY <1>2, <4>1 DEF Both
    <3> QED
      BY <3>1, <3>2
  <2>2. PICK k \in 1..Len(m.tools) : m.tools[k].name = t.name
    BY <1>6, <2>1
  <2>3. m.tools[k] \in ToolsOf(m)
    BY DEF ToolsOf
  <2> QED
    BY <2>2, <2>3 DEF NamesOf
<1>11. NamesOf(a) \cup NamesOf(b) \subseteq NamesOf(m)
  BY <1>10 DEF NamesOf
<1>12. HooksOf(m) \subseteq HooksOf(a) \cup HooksOf(b)
  <2>1. ASSUME NEW k \in 1..Len(m.hooks) PROVE m.hooks[k] \in HooksOf(a) \cup HooksOf(b)
    <3>1. PICK j \in 1..Len(hooks) : m.hooks[k] = hooks[j]
      BY <1>7
    <3>2. CASE \E i \in 1..Len(a.hooks) : hooks[j] = a.hooks[i]
      BY <3>1, <3>2 DEF HooksOf
    <3>3. CASE \E i \in 1..Len(b.hooks) : hooks[j] = b.hooks[i]
      BY <3>1, <3>3 DEF HooksOf
    <3> QED
      BY <1>3, <3>2, <3>3 DEF Both
  <2> QED
    BY <2>1 DEF HooksOf
<1>13. ASSUME NEW h \in HooksOf(a) \cup HooksOf(b) PROVE h \in HooksOf(m)
  <2>1. \E j \in 1..Len(hooks) : hooks[j] = h
    <3>1. CASE h \in HooksOf(a)
      <4>1. PICK k \in 1..Len(a.hooks) : h = a.hooks[k]
        BY <3>1 DEF HooksOf
      <4> QED
        BY <1>3, <4>1 DEF Both
    <3>2. CASE h \in HooksOf(b)
      <4>1. PICK k \in 1..Len(b.hooks) : h = b.hooks[k]
        BY <3>2 DEF HooksOf
      <4> QED
        BY <1>3, <4>1 DEF Both
    <3> QED
      BY <3>1, <3>2
  <2>2. PICK k \in 1..Len(m.hooks) : m.hooks[k] = h
    BY <1>7, <2>1
  <2> QED
    BY <2>2 DEF HooksOf
<1> QED
  BY <1>5, <1>7, <1>8, <1>9, <1>11, <1>12, <1>13 DEF m

(* A skill of the registry has what came with its name, and each skill there was *)
(* is in it.                                                                *)
OfSkills(r, skills, n) ==
  /\ Single(r.hooks)
  /\ \A t \in ToolsOf(r) : \E m \in 1..n : skills[m].name = r.name /\ t \in ToolsOf(skills[m])
  /\ \A h \in HooksOf(r) : \E m \in 1..n : skills[m].name = r.name /\ h \in HooksOf(skills[m])

HasSkill(registry, skill) ==
  \E i \in 1..Len(registry) :
    /\ registry[i].name = skill.name
    /\ NamesOf(skill) \subseteq NamesOf(registry[i]) /\ HooksOf(skill) \subseteq HooksOf(registry[i])

OneOfEach(registry) == \A i, j \in 1..Len(registry) : registry[i].name = registry[j].name => i = j

Carries(registry, skills, n) ==
  /\ OneOfEach(registry)
  /\ \A i \in 1..Len(registry) : OfSkills(registry[i], skills, n)
  /\ \A m \in 1..n : HasSkill(registry, skills[m])

LEMMA OneMoreSkill ==
  ASSUME NEW r, NEW skills, NEW n \in Nat \ {0}, OfSkills(r, skills, n - 1)
  PROVE  OfSkills(r, skills, n)
<1>1. \A m \in 1..n - 1 : m \in 1..n
  OBVIOUS
<1> QED
  BY <1>1 DEF OfSkills

LEMMA SkillItself ==
  ASSUME NEW skills, NEW n \in Nat \ {0}, Single(skills[n].hooks)
  PROVE  OfSkills(skills[n], skills, n)
<1>1. n \in 1..n
  OBVIOUS
<1> QED
  BY <1>1 DEF OfSkills

LEMMA SkillAppended ==
  ASSUME NEW S, NEW skills, NEW n \in Nat \ {0}, skills[n] \in S, Single(skills[n].hooks),
         NEW registry \in Seq(S), Carries(registry, skills, n - 1),
         \A i \in 1..Len(registry) : registry[i].name # skills[n].name
  PROVE  Carries(Append(registry, skills[n]), skills, n)
<1> DEFINE out == Append(registry, skills[n])
<1>1. /\ Len(registry) \in Nat /\ Len(out) = Len(registry) + 1
      /\ out[Len(registry) + 1] = skills[n]
      /\ \A i \in 1..Len(registry) : out[i] = registry[i]
  BY AppendParts
<1> HIDE DEF out
<1>2. /\ \A i \in 1..Len(out) : i \in 1..Len(registry) \/ i = Len(registry) + 1
      /\ Len(registry) + 1 \in 1..Len(out) /\ \A i \in 1..Len(registry) : i \in 1..Len(out)
  BY <1>1
<1>3. OneOfEach(out)
  BY <1>1, <1>2 DEF OneOfEach, Carries
<1>4. ASSUME NEW i \in 1..Len(out) PROVE OfSkills(out[i], skills, n)
  <2>1. CASE i \in 1..Len(registry)
    <3>1. OfSkills(registry[i], skills, n - 1)
      BY <2>1 DEF Carries
    <3> QED
      BY <1>1, <2>1, <3>1, OneMoreSkill
  <2>2. CASE i = Len(registry) + 1
    BY <1>1, <2>2, SkillItself
  <2> QED
    BY <1>2, <2>1, <2>2
<1>5. ASSUME NEW m \in 1..n PROVE HasSkill(out, skills[m])
  <2>1. CASE m \in 1..n - 1
    <3>1. PICK i \in 1..Len(registry) :
            /\ registry[i].name = skills[m].name
            /\ NamesOf(skills[m]) \subseteq NamesOf(registry[i])
            /\ HooksOf(skills[m]) \subseteq HooksOf(registry[i])
      BY <2>1 DEF Carries, HasSkill
    <3> QED
      BY <1>1, <1>2, <3>1 DEF HasSkill
  <2>2. CASE m = n
    BY <1>1, <1>2, <2>2 DEF HasSkill
  <2> QED
    BY <2>1, <2>2
<1>6. Carries(out, skills, n)
  BY <1>3, <1>4, <1>5 DEF Carries
<1> QED
  BY <1>6 DEF out

LEMMA MergedOfSkills ==
  ASSUME NEW N, NEW T, NEW skills, NEW n \in Nat \ {0}, skills[n] \in Skills(N, T),
         NEW r \in Skills(N, T), r.name = skills[n].name, OfSkills(r, skills, n - 1)
  PROVE  OfSkills(Merge(r, skills[n]), skills, n)
<1> DEFINE m == Merge(r, skills[n])
<1>1. /\ m.name = r.name /\ Single(m.hooks)
      /\ ToolsOf(m) \subseteq ToolsOf(r) \cup ToolsOf(skills[n])
      /\ HooksOf(m) = HooksOf(r) \cup HooksOf(skills[n])
  BY MergeParts
<1> HIDE DEF m
<1>2. n \in 1..n /\ OfSkills(r, skills, n)
  BY OneMoreSkill
<1>3. OfSkills(m, skills, n)
  BY <1>1, <1>2 DEF OfSkills
<1> QED
  BY <1>3 DEF m

LEMMA SkillMerged ==
  ASSUME NEW N, NEW T, NEW skills, NEW n \in Nat \ {0}, skills[n] \in Skills(N, T),
         NEW registry \in Seq(Skills(N, T)), Carries(registry, skills, n - 1),
         NEW k \in 1..Len(registry), registry[k].name = skills[n].name,
         NEW out \in Seq(Skills(N, T)), Len(out) = Len(registry), out[k] = Merge(registry[k], skills[n]),
         \A i \in 1..Len(registry) : i # k => out[i] = registry[i]
  PROVE  Carries(out, skills, n)
<1>1. registry[k] \in Skills(N, T)
  OBVIOUS
<1>2. /\ out[k].name = registry[k].name
      /\ NamesOf(registry[k]) \cup NamesOf(skills[n]) \subseteq NamesOf(out[k])
      /\ HooksOf(out[k]) = HooksOf(registry[k]) \cup HooksOf(skills[n])
  BY <1>1, MergeParts
<1>3. \A i \in 1..Len(registry) : out[i].name = registry[i].name
  BY <1>2
<1>4. OneOfEach(out)
  BY <1>3 DEF OneOfEach, Carries
<1>5. ASSUME NEW i \in 1..Len(registry) PROVE OfSkills(out[i], skills, n)
  <2>1. OfSkills(registry[i], skills, n - 1)
    BY DEF Carries
  <2>2. CASE i = k
    BY <1>1, <2>1, <2>2, MergedOfSkills
  <2>3. CASE i # k
    BY <2>1, <2>3, OneMoreSkill
  <2> QED
    BY <2>2, <2>3
<1>6. ASSUME NEW m \in 1..n PROVE HasSkill(out, skills[m])
  <2>1. CASE m = n
    BY <1>2, <2>1 DEF HasSkill
  <2>2. CASE m \in 1..n - 1
    <3>1. PICK i \in 1..Len(registry) :
            /\ registry[i].name = skills[m].name
            /\ NamesOf(skills[m]) \subseteq NamesOf(registry[i])
            /\ HooksOf(skills[m]) \subseteq HooksOf(registry[i])
      BY <2>2 DEF Carries, HasSkill
    <3>2. /\ NamesOf(registry[i]) \subseteq NamesOf(out[i])
          /\ HooksOf(registry[i]) \subseteq HooksOf(out[i])
      BY <1>2
    <3> QED
      BY <1>3, <3>1, <3>2 DEF HasSkill
  <2> QED
    BY <2>1, <2>2
<1> QED
  BY <1>4, <1>5, <1>6 DEF Carries

(* What Register returns, in its two cases.                                 *)
LEMMA RegisterTyped ==
  ASSUME NEW N, NEW T, NEW skill \in Skills(N, T), NEW registry \in Seq(Skills(N, T))
  PROVE  Register(registry, skill) \in Seq(Skills(N, T))
<1> DEFINE SS == Skills(N, T)
           same == {i \in 1..Len(registry) : registry[i].name = skill.name}
           changed == [i \in 1..Len(registry) |->
                         IF i \in same THEN Merge(registry[i], skill) ELSE registry[i]]
<1>1. Register(registry, skill) = IF same = {} THEN Append(registry, skill) ELSE changed
  BY DEF Register
<1>2. ASSUME NEW i \in 1..Len(registry) PROVE registry[i] \in SS /\ Merge(registry[i], skill) \in SS
  BY MergeParts
<1>3. Len(registry) \in Nat /\ Append(registry, skill) \in Seq(SS)
  BY AppendParts
<1> HIDE DEF SS, same
<1>4. changed \in [1..Len(registry) -> SS]
  BY <1>2
<1> HIDE DEF changed
<1>5. changed \in Seq(SS)
  BY <1>3, <1>4
<1> QED
  BY <1>1, <1>3, <1>5 DEF SS

LEMMA RegisterCarries ==
  ASSUME NEW N, NEW T, NEW skills, NEW n \in Nat \ {0},
         skills[n] \in Skills(N, T), Single(skills[n].hooks),
         NEW registry \in Seq(Skills(N, T)), Carries(registry, skills, n - 1)
  PROVE  Carries(Register(registry, skills[n]), skills, n)
<1> DEFINE same == {i \in 1..Len(registry) : registry[i].name = skills[n].name}
           changed == [i \in 1..Len(registry) |->
                         IF i \in same THEN Merge(registry[i], skills[n]) ELSE registry[i]]
<1>1. Register(registry, skills[n]) = IF same = {} THEN Append(registry, skills[n]) ELSE changed
  BY DEF Register
<1>2. CASE same = {}
  <2>1. \A i \in 1..Len(registry) : registry[i].name # skills[n].name
    BY <1>2
  <2> QED
    BY <1>1, <1>2, <2>1, SkillAppended
<1>3. CASE same # {}
  <2>1. PICK k \in 1..Len(registry) : registry[k].name = skills[n].name
    BY <1>3
  <2>2. \A i \in 1..Len(registry) : i \in same <=> i = k
    BY <2>1 DEF Carries, OneOfEach
  <2>3. changed \in Seq(Skills(N, T))
    BY <1>1, <1>3, RegisterTyped
  <2> HIDE DEF same
  <2>4. /\ DOMAIN changed = 1..Len(registry) /\ Len(registry) \in Nat
        /\ \A i \in 1..Len(registry) :
             changed[i] = IF i \in same THEN Merge(registry[i], skills[n]) ELSE registry[i]
    OBVIOUS
  <2> HIDE DEF changed
  <2>5. Len(changed) = Len(registry)
    BY <2>3, <2>4
  <2>6. /\ changed[k] = Merge(registry[k], skills[n])
        /\ \A i \in 1..Len(registry) : i # k => changed[i] = registry[i]
    BY <2>1, <2>2, <2>4
  <2>7. Carries(changed, skills, n)
    BY <2>1, <2>3, <2>5, <2>6, SkillMerged
  <2> QED
    BY <1>1, <1>3, <2>7
<1> QED
  BY <1>2, <1>3

(* The registry of a list of skills carries them.                           *)
LEMMA RegisteredParts ==
  ASSUME NEW N, NEW T, NEW skills \in Seq(Skills(N, T)),
         \A n \in 1..Len(skills) : Single(skills[n].hooks)
  PROVE  /\ Registered(skills) \in Seq(Skills(N, T))
         /\ Carries(Registered(skills), skills, Len(skills))
<1> DEFINE L == Len(skills)
           SS == Seq(Skills(N, T))
           Defined(f) == f = [n \in 0..L |-> IF n = 0 THEN <<>> ELSE Register(f[n - 1], skills[n])]
           registry == CHOOSE f : Defined(f)
           G == [r \in SS |-> [n \in 1..L |-> Register(r, skills[n])]]
<1>1. L \in Nat /\ <<>> \in SS /\ \A n \in 1..L : skills[n] \in Skills(N, T)
  OBVIOUS
<1>2. ASSUME NEW r \in SS, NEW n \in 1..L PROVE Register(r, skills[n]) \in SS
  BY <1>1, RegisterTyped
<1> HIDE DEF SS, L
<1>3. PICK g : Steps(g, L, SS, <<>>, G)
  <2>1. \A r \in SS, n \in 1..L : G[r][n] \in SS
    BY <1>2
  <2> HIDE DEF G
  <2> QED
    BY <1>1, <2>1, StepsExist
<1> DEFINE h == [n \in 0..L |-> g[n]]
<1>4. Defined(h)
  <2>1. ASSUME NEW n \in 1..L PROVE h[n] = Register(h[n - 1], skills[n])
    <3>1. n - 1 \in 0..L /\ n \in 0..L
      BY <1>1
    <3>2. g[n - 1] \in SS
      BY <1>3, <3>1 DEF Steps
    <3>3. g[n] = Register(g[n - 1], skills[n])
      BY <1>3, <3>2 DEF Steps
    <3> QED
      BY <3>1, <3>3
  <2>2. h[0] = <<>>
    BY <1>1, <1>3 DEF Steps
  <2>3. \A n \in 0..L : n = 0 \/ n \in 1..L
    BY <1>1
  <2>4. h = [n \in 0..L |-> h[n]]
    OBVIOUS
  <2> HIDE DEF h
  <2> QED
    BY <2>1, <2>2, <2>3, <2>4
<1>5. Defined(registry)
  BY <1>4
<1>6. Registered(skills) = registry[L]
  BY DEF Registered, L
<1> HIDE DEF registry, G
<1>7. registry[0] = <<>> /\ \A n \in 1..L : registry[n] = Register(registry[n - 1], skills[n])
  <2>1. 0 \in 0..L /\ \A n \in 1..L : n \in 0..L /\ n # 0
    BY <1>1
  <2> QED
    BY <1>5, <2>1
<1> DEFINE T0 == {n \in 0..L : registry[n] \in SS /\ Carries(registry[n], skills, n)}
<1>8. 0 \in T0
  <2>1. Len(registry[0]) = 0 /\ 0 \in 0..L
    BY <1>1, <1>7
  <2>2. Carries(registry[0], skills, 0)
    BY <2>1 DEF Carries, OneOfEach
  <2> QED
    BY <1>1, <1>7, <2>1, <2>2
<1>9. ASSUME NEW n \in 1..L, n - 1 \in T0 PROVE n \in T0
  <2>1. n \in Nat \ {0} /\ n \in 0..L
    BY <1>1
  <2>2. registry[n - 1] \in SS /\ Carries(registry[n - 1], skills, n - 1)
    BY <1>9
  <2>3. skills[n] \in Skills(N, T) /\ Single(skills[n].hooks)
    BY <1>1 DEF L
  <2>4. Carries(Register(registry[n - 1], skills[n]), skills, n)
    BY <2>1, <2>2, <2>3, RegisterCarries DEF SS
  <2> QED
    BY <1>2, <1>7, <2>1, <2>2, <2>4
<1>10. L \in T0
  <2>1. \A n \in 1..L : n - 1 \in T0 => n \in T0
    BY <1>9
  <2>2. L \in 0..L
    BY <1>1
  <2> HIDE DEF T0
  <2> QED
    BY <1>1, <1>8, <2>1, <2>2, Reaches
<1> QED
  BY <1>6, <1>10 DEF SS, L
(* Of tools with one name there is one in the end, and of each name one.       *)
LEMMA RegistryToolsParts ==
  ASSUME NEW S, NEW registry \in Seq(S), \A i \in 1..Len(registry) : Len(registry[i].tools) \in Nat
  PROVE  /\ \A t \in RegistryTools(registry) : \E i \in 1..Len(registry) : t \in ToolsOf(registry[i])
         /\ \A s, t \in RegistryTools(registry) : s.name = t.name => s = t
         /\ \A i \in 1..Len(registry) : \A t \in ToolsOf(registry[i]) :
              \E s \in RegistryTools(registry) : s.name = t.name
<1> DEFINE places  == UNION {{i} \X (1..Len(registry[i].tools)) : i \in 1..Len(registry)}
           tool(p) == registry[p[1]].tools[p[2]]
           before(p, q) == p[1] < q[1] \/ (p[1] = q[1] /\ p[2] < q[2])
           first == {q \in places : ~ \E o \in places : tool(o).name = tool(q).name /\ before(o, q)}
<1>1. RegistryTools(registry) = {tool(p) : p \in first}
  BY DEF RegistryTools
<1>2. ASSUME NEW p \in places
      PROVE  /\ p[1] \in 1..Len(registry) /\ p[2] \in 1..Len(registry[p[1]].tools)
             /\ p[1] \in Nat /\ p[2] \in Nat /\ p = <<p[1], p[2]>>
  <2>1. PICK i \in 1..Len(registry) : p \in {i} \X (1..Len(registry[i].tools))
    OBVIOUS
  <2>2. PICK k \in 1..Len(registry[i].tools) : p = <<i, k>>
    BY <2>1
  <2> QED
    BY <2>2
<1>3. ASSUME NEW i \in 1..Len(registry), NEW k \in 1..Len(registry[i].tools)
      PROVE  <<i, k>> \in places /\ tool(<<i, k>>) = registry[i].tools[k]
  <2>1. <<i, k>> \in {i} \X (1..Len(registry[i].tools))
    OBVIOUS
  <2>2. <<i, k>> \in places
    BY <2>1
  <2> QED
    BY <2>2
<1> HIDE DEF places
<1>4. \A t \in RegistryTools(registry) : \E i \in 1..Len(registry) : t \in ToolsOf(registry[i])
  BY <1>1, <1>2 DEF ToolsOf
<1>5. ASSUME NEW s \in RegistryTools(registry), NEW t \in RegistryTools(registry), s.name = t.name
      PROVE  s = t
  <2>1. PICK p \in first, q \in first : s = tool(p) /\ t = tool(q)
    BY <1>1
  <2>2. ~ before(p, q) /\ ~ before(q, p)
    BY <1>5, <2>1
  <2>3. p[1] = q[1] /\ p[2] = q[2]
    <3> HIDE DEF first
    <3>1. p[1] \in Nat /\ p[2] \in Nat /\ q[1] \in Nat /\ q[2] \in Nat
      <4>1. p \in places /\ q \in places
        BY DEF first
      <4> QED
        BY <1>2, <4>1
    <3> DEFINE a == p[1]
               b == p[2]
               c == q[1]
               d == q[2]
    <3>2. /\ a \in Nat /\ b \in Nat /\ c \in Nat /\ d \in Nat
          /\ ~ (a < c \/ (a = c /\ b < d)) /\ ~ (c < a \/ (c = a /\ d < b))
      BY <2>2, <3>1
    <3> HIDE DEF a, b, c, d
    <3>3. a = c /\ b = d
      BY <3>2
    <3> QED
      BY <3>3 DEF a, b, c, d
  <2> QED
    BY <2>1, <2>3
<1>6. ASSUME NEW q \in places PROVE \E p \in first : tool(p).name = tool(q).name
  <2> DEFINE like == {p \in places : tool(p).name = tool(q).name}
             rows == {p[1] : p \in like}
  <2>1. PICK i \in rows : \A j \in rows : i <= j
    <3>1. rows \in SUBSET Nat /\ rows # {}
      BY <1>2
    <3> HIDE DEF rows
    <3> QED
      BY <3>1, LeastOf
  <2> DEFINE columns == {p[2] : p \in {o \in like : o[1] = i}}
  <2>2. PICK k \in columns : \A n \in columns : k <= n
    <3>1. columns \in SUBSET Nat /\ columns # {}
      BY <1>2, <2>1
    <3> HIDE DEF columns
    <3> QED
      BY <3>1, LeastOf
  <2>3. PICK p \in like : p[1] = i /\ p[2] = k
    BY <2>2
  <2>4. ASSUME NEW o \in like, before(o, p) PROVE FALSE
    <3>1. o[1] \in rows /\ i <= o[1]
      BY <2>1
    <3>2. o[1] \in Nat /\ p[1] \in Nat /\ o[2] \in Nat /\ p[2] \in Nat
      BY <1>2
    <3>3. o[1] < i \/ (o[1] = i /\ o[2] < k)
      BY <2>3, <2>4
    <3>4. i \in Nat /\ k \in Nat
      BY <2>3, <3>2
    <3>5. o[1] = i /\ o[2] < k
      <4> DEFINE row == o[1]
      <4>1. row \in Nat /\ i <= row /\ (row < i \/ (row = i /\ o[2] < k))
        BY <3>1, <3>2, <3>3
      <4> HIDE DEF row
      <4>2. row = i
        BY <3>4, <4>1, SMTT(30)
      <4> QED
        BY <3>4, <4>1, <4>2 DEF row
    <3>6. k <= o[2]
      BY <2>2, <3>5
    <3> QED
      BY <3>2, <3>4, <3>5, <3>6, SMTT(30)
  <2>5. p \in first
    BY <2>4
  <2> QED
    BY <2>3, <2>5
<1>7. ASSUME NEW i \in 1..Len(registry), NEW t \in ToolsOf(registry[i])
      PROVE  \E s \in RegistryTools(registry) : s.name = t.name
  <2>1. PICK k \in 1..Len(registry[i].tools) : t = registry[i].tools[k]
    BY DEF ToolsOf
  <2>2. <<i, k>> \in places /\ tool(<<i, k>>) = t
    BY <1>3, <2>1
  <2>3. PICK p \in first : tool(p).name = t.name
    BY <1>6, <2>2
  <2> QED
    BY <1>1, <2>3
<1> QED
  BY <1>4, <1>5, <1>7

-----------------------------------------------------------------------------
(* How the names of the tools there may be tell them apart.                   *)
LEMMA LocalNames ==
  /\ \A t \in Locals : /\ t.server = <<>> /\ t.name # <<"delegate_agent">>
                       /\ Len(t.name) = 1 /\ t.name[1] # "mcp"
  /\ /\ Local("delegate_agent").server = <<>> /\ Len(Local("delegate_agent").name) = 1
     /\ Local("delegate_agent").name[1] # "mcp"
  /\ \A s, t \in Locals \cup {Local("delegate_agent")} : s.name = t.name => s = t
<1>1. ASSUME NEW t \in Locals
      PROVE  /\ t.server = <<>> /\ t.name # <<"delegate_agent">>
             /\ Len(t.name) = 1 /\ t.name[1] # "mcp"
  <2>1. PICK w \in Words : t = Local(w)
    BY DEF Locals
  <2>2. t.server = <<>> /\ t.name = <<w>>
    BY <2>1 DEF Local
  <2>3. w # "mcp" /\ w # "delegate_agent"
    BY DEF Words
  <2> QED
    BY <2>2, <2>3
<1>2. \A v, w : Local(v).name = Local(w).name => Local(v) = Local(w)
  BY DEF Local
<1> QED
  BY <1>1, <1>2 DEF Locals, Local

(* The first word of a joined name.                                         *)
LEMMA Joined ==
  ASSUME NEW S, NEW s \in Seq(S), NEW t \in Seq(S), Len(s) > 0
  PROVE  s \o t \in Seq(S) /\ Len(s \o t) = Len(s) + Len(t) /\ (s \o t)[1] = s[1]
  OBVIOUS

LEMMA Prefixed ==
  ASSUME NEW S, NEW x \in S, NEW a \in Seq(S), NEW b \in Seq(S), Len(a) > 0
  PROVE  Len((<<x>> \o a) \o b) > 1 /\ ((<<x>> \o a) \o b)[1] = x
<1> DEFINE w == <<x>>
           v == w \o a
<1>1. w \in Seq(S) /\ w[1] = x /\ Len(w) > 0
  OBVIOUS
<1>2. Len(a) \in Nat /\ Len(b) \in Nat /\ Len(w) \in Nat
  OBVIOUS
<1> HIDE DEF w
<1>3. v \in Seq(S) /\ Len(v) = Len(w) + Len(a) /\ v[1] = x
  BY <1>1, Joined
<1> HIDE DEF v
<1>4. Len(v) > 1 /\ Len(v) > 0
  BY <1>1, <1>2, <1>3
<1>5. Len(v \o b) = Len(v) + Len(b) /\ (v \o b)[1] = x
  BY <1>3, <1>4, Joined
<1>6. Len(v \o b) > 1
  BY <1>2, <1>3, <1>4, <1>5
<1> QED
  BY <1>5, <1>6 DEF v, w

LEMMA ServerIs ==
  ASSUME NEW i \in 1..Len(Servers)
  PROVE  /\ Servers[i].name \in Seq(STRING) /\ Servers[i].name # <<>>
         /\ Servers[i].tools \in Seq([remote : STRING, words : Seq(STRING)])
         /\ Len(Servers[i].tools) \in Nat
<1> DEFINE R == [remote : STRING, words : Seq(STRING)]
<1>1. Servers[i] \in [name : Seq(STRING), tools : Seq(R), asks : BOOLEAN]
  BY ToolsetAssumption, ElementOfSeq
<1>2. Servers[i].name \in Seq(STRING) /\ Servers[i].tools \in Seq(R) /\ Servers[i].name # <<>>
  BY <1>1, ToolsetAssumption
<1> HIDE DEF R
<1>3. Len(Servers[i].tools) \in Nat
  BY <1>2, LenProperties
<1> QED
  BY <1>2, <1>3 DEF R

LEMMA ServerToolIs ==
  ASSUME NEW i \in 1..Len(Servers), NEW m \in 1..Len(Servers[i].tools)
  PROVE  LET t == ServerTools(Servers[i])[m]
         IN t.server # <<>> /\ Len(t.name) > 1 /\ t.name[1] = "mcp"
<1> DEFINE t == ServerTools(Servers[i])[m]
           a == Servers[i].name
           b == Servers[i].tools[m].words
           W == STRING \cup {"mcp"}
<1>1. /\ Servers[i].name \in Seq(STRING) /\ Servers[i].name # <<>>
      /\ Servers[i].tools \in Seq([remote : STRING, words : Seq(STRING)])
  BY ServerIs
<1>2. t.name = (<<"mcp">> \o a) \o b /\ t.server = a
  BY DEF ServerTools
<1>3. a \in Seq(W) /\ b \in Seq(W) /\ Len(a) \in Nat \ {0} /\ Len(b) \in Nat
  <2>0. Servers[i].tools[m] \in [remote : STRING, words : Seq(STRING)]
    BY <1>1, ElementOfSeq
  <2>1. a \in Seq(STRING) /\ b \in Seq(STRING)
    BY <1>1, <2>0
  <2>2. a # <<>>
    BY <1>1
  <2> HIDE DEF a, b
  <2>3. Len(a) \in Nat \ {0} /\ Len(b) \in Nat
    BY <2>1, <2>2, EmptySeq, LenProperties
  <2> QED
    BY <2>1, <2>3, SeqMonotonic
<1>4. t.server = Servers[i].name /\ t.server # <<>>
  BY <1>1, <1>2
<1> HIDE DEF a, b
<1>5. Len((<<"mcp">> \o a) \o b) > 1 /\ ((<<"mcp">> \o a) \o b)[1] = "mcp"
  <2>1. "mcp" \in W
    OBVIOUS
  <2> HIDE DEF W
  <2>2. Len(a) > 0
    BY <1>3
  <2> QED
    BY <1>3, <2>1, <2>2, Prefixed
<1> HIDE DEF t
<1>6. Len(t.name) > 1 /\ t.name[1] = "mcp"
  BY <1>2, <1>5
<1> QED
  BY <1>4, <1>6 DEF t

LEMMA McpNames ==
  \A t \in McpTools : t.server # <<>> /\ Len(t.name) > 1 /\ t.name[1] = "mcp"
BY ServerToolIs DEF McpTools

(* Two tools with one name are tools of servers.                            *)
LEMMA SameName ==
  ASSUME NEW s \in Tools, NEW t \in Tools, s.name = t.name, s # t
  PROVE  s \in McpTools /\ t \in McpTools
<1>1. \A r \in Tools : r \in McpTools \/ r \in Locals \cup {Local("delegate_agent")}
  BY DEF Tools
<1>2. \A r \in Locals \cup {Local("delegate_agent")} : Len(r.name) = 1
  BY LocalNames
<1>3. \A r \in McpTools : Len(r.name) # 1
  <2>1. 1 > 1 <=> FALSE
    OBVIOUS
  <2> QED
    BY <2>1, McpNames
<1> HIDE DEF Tools
<1> QED
  BY <1>1, <1>2, <1>3, LocalNames
-----------------------------------------------------------------------------
(* The built-in skills, those of files and those of the runtime.              *)
LEMMA SkillParts ==
  ASSUME NEW N, NEW T, NEW W, NEW name \in N, NEW words \in Seq(W), NEW hooks \in Seq(HookNames),
         {Local(w) : w \in W} \subseteq T
  PROVE  /\ Skill(name, words, hooks) \in Skills(N, T)
         /\ Skill(name, words, hooks).name = name /\ Skill(name, words, hooks).hooks = hooks
         /\ \A k \in 1..Len(words) : Local(words[k]) \in ToolsOf(Skill(name, words, hooks))
<1> DEFINE s == Skill(name, words, hooks)
           tools == [i \in 1..Len(words) |-> Local(words[i])]
<1>1. s = [name |-> name, tools |-> tools, hooks |-> hooks]
  BY DEF Skill
<1>2. Len(words) \in Nat /\ \A i \in 1..Len(words) : words[i] \in W
  OBVIOUS
<1>3. \A i \in 1..Len(words) : Local(words[i]) \in T
  BY <1>2
<1>4. tools \in Seq(T) /\ Len(tools) = Len(words)
  <2>1. tools \in [1..Len(words) -> T] /\ DOMAIN tools = 1..Len(words)
    BY <1>3
  <2> HIDE DEF tools
  <2> QED
    BY <1>2, <2>1
<1>5. \A k \in 1..Len(words) : tools[k] = Local(words[k])
  OBVIOUS
<1> HIDE DEF tools
<1>6. s \in Skills(N, T)
  BY <1>1, <1>4 DEF Skills
<1>7. \A k \in 1..Len(words) : Local(words[k]) \in ToolsOf(s)
  BY <1>1, <1>4, <1>5 DEF ToolsOf
<1> QED
  BY <1>1, <1>6, <1>7

Sound(skill) ==
  /\ Single(skill.hooks)
  /\ HooksOf(skill) = {} \/ \E j \in 1..Len(BuiltIns) : skill = BuiltIns[j]
  /\ skill.name = "mcp" => ToolsOf(skill) \subseteq McpTools

BuiltInNames == {"workspace", "memory", "schedule", "web", "grounding"}

LEMMA BuiltInIs ==
  ASSUME NEW name \in BuiltInNames, NEW words \in Seq(Words), NEW hooks \in Seq(HookNames)
  PROVE  /\ Skill(name, words, hooks) \in Skills(BuiltInNames, Locals)
         /\ Skill(name, words, hooks).name = name /\ Skill(name, words, hooks).hooks = hooks
<1>1. {Local(w) : w \in Words} \subseteq Locals
  BY DEF Locals
<1> QED
  BY <1>1, SkillParts

LEMMA BuiltInsAre ==
  /\ BuiltIns \in Seq(Skills(BuiltInNames, Locals))
  /\ \A j \in 1..Len(BuiltIns) : Sound(BuiltIns[j])
  /\ \A j, k \in 1..Len(BuiltIns) : \A h \in HooksOf(BuiltIns[j]) \cap HooksOf(BuiltIns[k]) : j = k
  /\ \A j \in 1..Len(BuiltIns) : "skills" \notin HooksOf(BuiltIns[j])
<1> DEFINE w1 == <<"read", "edit", "write", "bash", "update_todos", "compact">>
           w2 == <<"remember", "forget_memory">>
           w3 == <<"cron">>
           w4 == <<"web_search", "web_fetch">>
           h2 == <<"session_summary", "active_memory", "tool_memory">>
           h3 == <<"current_time", "schedule_guidance", "state_guard">>
           h5 == <<"tool_grounding_guard">>
           none == <<>>
           s1 == Skill("workspace", w1, none)
           s2 == Skill("memory", w2, h2)
           s3 == Skill("schedule", w3, h3)
           s4 == Skill("web", w4, none)
           s5 == Skill("grounding", none, h5)
           SS == Skills(BuiltInNames, Locals)
<1>1. BuiltIns = <<s1, s2, s3, s4, s5>>
  BY DEF BuiltIns
<1>2. /\ w1 \in Seq(Words) /\ w2 \in Seq(Words) /\ w3 \in Seq(Words) /\ w4 \in Seq(Words)
      /\ none \in Seq(Words)
  BY DEF Words
<1>3. /\ h2 \in Seq(HookNames) /\ h3 \in Seq(HookNames) /\ h5 \in Seq(HookNames)
      /\ none \in Seq(HookNames)
  BY DEF HookNames
<1>4. Single(none) /\ Single(h2) /\ Single(h3) /\ Single(h5)
  BY DEF Single
<1>5. /\ "workspace" \in BuiltInNames /\ "memory" \in BuiltInNames /\ "schedule" \in BuiltInNames
      /\ "web" \in BuiltInNames /\ "grounding" \in BuiltInNames
  BY DEF BuiltInNames
<1> HIDE DEF w1, w2, w3, w4, h2, h3, h5, none
<1>6. s1 \in SS /\ s1.name = "workspace" /\ s1.hooks = none
  BY <1>2, <1>3, <1>5, BuiltInIs
<1>7. s2 \in SS /\ s2.name = "memory" /\ s2.hooks = h2
  BY <1>2, <1>3, <1>5, BuiltInIs
<1>8. s3 \in SS /\ s3.name = "schedule" /\ s3.hooks = h3
  BY <1>2, <1>3, <1>5, BuiltInIs
<1>9. s4 \in SS /\ s4.name = "web" /\ s4.hooks = none
  BY <1>2, <1>3, <1>5, BuiltInIs
<1>10. s5 \in SS /\ s5.name = "grounding" /\ s5.hooks = h5
  BY <1>2, <1>3, <1>5, BuiltInIs
<1> HIDE DEF s1, s2, s3, s4, s5, SS
<1>11. /\ Len(BuiltIns) = 5 /\ BuiltIns \in Seq(SS)
       /\ BuiltIns[1] = s1 /\ BuiltIns[2] = s2 /\ BuiltIns[3] = s3 /\ BuiltIns[4] = s4 /\ BuiltIns[5] = s5
  BY <1>1, <1>6, <1>7, <1>8, <1>9, <1>10
<1>12. \A j \in 1..Len(BuiltIns) : j = 1 \/ j = 2 \/ j = 3 \/ j = 4 \/ j = 5
  BY <1>11
<1>13. /\ HooksOf(s1) = {} /\ HooksOf(s4) = {} /\ HooksOf(s5) = {"tool_grounding_guard"}
       /\ HooksOf(s2) = {"session_summary", "active_memory", "tool_memory"}
       /\ HooksOf(s3) = {"current_time", "schedule_guidance", "state_guard"}
  BY <1>6, <1>7, <1>8, <1>9, <1>10 DEF HooksOf, h2, h3, h5, none
<1>14. ASSUME NEW j \in 1..Len(BuiltIns) PROVE Single(BuiltIns[j].hooks) /\ BuiltIns[j].name # "mcp"
  BY <1>4, <1>6, <1>7, <1>8, <1>9, <1>10, <1>11, <1>12
<1>15. ASSUME NEW j \in 1..Len(BuiltIns) PROVE Sound(BuiltIns[j])
  BY <1>14 DEF Sound
<1>16. ASSUME NEW j \in 1..Len(BuiltIns), NEW k \in 1..Len(BuiltIns),
              NEW h \in HooksOf(BuiltIns[j]) \cap HooksOf(BuiltIns[k])
       PROVE  j = k
  BY <1>11, <1>12, <1>13
<1>17. ASSUME NEW j \in 1..Len(BuiltIns) PROVE "skills" \notin HooksOf(BuiltIns[j])
  BY <1>11, <1>12, <1>13
<1> QED
  BY <1>11, <1>15, <1>16, <1>17 DEF SS

(* The files add skills without tools and hooks.                            *)
LEMMA PlainSkill ==
  ASSUME NEW name
  PROVE  Skill(name, <<>>, <<>>) = [name |-> name, tools |-> <<>>, hooks |-> <<>>]
<1> DEFINE tools == [j \in 1..Len(<<>>) |-> Local(<<>>[j])]
<1>1. tools = <<>>
  <2>1. Len(<<>>) = 0 /\ 1..0 = {}
    OBVIOUS
  <2>2. DOMAIN tools = {} /\ tools = [j \in {} |-> tools[j]]
    BY <2>1
  <2> HIDE DEF tools
  <2> QED
    BY <2>2
<1> QED
  BY <1>1 DEF Skill

LEMMA FileSkillsAre ==
  ASSUME skillFiles \subseteq SkillFiles
  PROVE  /\ Len(FileSkills) \in Nat
         /\ \E N : FileSkills \in Seq(Skills(N, {}))
         /\ \A i \in 1..Len(FileSkills) :
              ToolsOf(FileSkills[i]) = {} /\ HooksOf(FileSkills[i]) = {} /\ Single(FileSkills[i].hooks)
<1> DEFINE good  == {f \in Read : f.kind = "good"}
           first == {f \in good : \A g \in good \ {f} : g.name = f.name => Earlier(f, g)}
           at(i) == CHOOSE f \in first : Cardinality({g \in first : Earlier(g, f)}) = i - 1
           k == Cardinality(first)
           plain == [i \in 1..k |-> Skill(at(i).name, <<>>, <<>>)]
<1>1. FileSkills = IF \E f \in Read : f.kind = "broken" THEN <<>> ELSE plain
  BY DEF FileSkills
<1>2. k \in Nat
  <2>1. first \subseteq SkillFiles
    BY DEF Read
  <2> HIDE DEF first
  <2> QED
    BY <2>1, ToolsetAssumption, FS_Subset, FS_CardinalityType
<1> DEFINE name == [i \in 1..k |-> at(i).name]
           N == {name[i] : i \in 1..k}
<1> HIDE DEF first, k, at
<1>3. ASSUME NEW i \in 1..k
      PROVE  /\ plain[i] \in Skills(N, {}) /\ ToolsOf(plain[i]) = {} /\ HooksOf(plain[i]) = {}
             /\ Single(plain[i].hooks)
  <2>1. plain[i] = Skill(name[i], <<>>, <<>>) /\ name[i] \in N
    OBVIOUS
  <2> HIDE DEF plain, name, N
  <2>2. plain[i] = [name |-> name[i], tools |-> <<>>, hooks |-> <<>>]
    BY <2>1, PlainSkill
  <2>3. plain[i].name = name[i] /\ plain[i].tools = <<>> /\ plain[i].hooks = <<>>
    BY <2>2
  <2>4. Len(<<>>) = 0 /\ <<>> \in Seq({}) /\ <<>> \in Seq(HookNames)
    OBVIOUS
  <2>5. plain[i] \in Skills(N, {})
    <3> DEFINE none == <<>>
    <3>1. none \in Seq({}) /\ none \in Seq(HookNames)
      BY <2>4
    <3>2. plain[i] = [name |-> name[i], tools |-> none, hooks |-> none]
      BY <2>2
    <3> HIDE DEF none
    <3> QED
      BY <2>1, <3>1, <3>2 DEF Skills
  <2>6. ToolsOf(plain[i]) = {} /\ HooksOf(plain[i]) = {} /\ Single(plain[i].hooks)
    BY <2>3, <2>4 DEF ToolsOf, HooksOf, Single
  <2> QED
    BY <2>5, <2>6
<1>4. plain \in Seq(Skills(N, {})) /\ Len(plain) = k
  <2>1. DOMAIN plain = 1..k /\ plain = [i \in 1..k |-> plain[i]]
    OBVIOUS
  <2> HIDE DEF plain, N
  <2>2. plain \in [1..k -> Skills(N, {})]
    BY <1>3, <2>1
  <2> QED
    BY <1>2, <2>1, <2>2
<1>5. <<>> \in Seq(Skills(N, {})) /\ Len(<<>>) = 0
  OBVIOUS
<1> HIDE DEF plain, N
<1> QED
  BY <1>1, <1>2, <1>3, <1>4, <1>5

LEMMA SameAgent ==
  ASSUME UNCHANGED <<skillFiles, agentFiles, mcp>>
  PROVE  NewAgent(mcp)' = NewAgent(mcp)
  BY DEF NewAgent, WholeRegistry, FileSkills, Definitions, Registry, Read
LEMMA SkillsGrow ==
  ASSUME NEW M, NEW N, N \subseteq M, NEW T, NEW U, T \subseteq U, NEW list \in Seq(Skills(N, T))
  PROVE  list \in Seq(Skills(M, U))
<1>1. ASSUME NEW skill \in Skills(N, T) PROVE skill \in Skills(M, U)
  <2>1. skill.tools \in Seq(T) /\ skill.name \in N
    BY DEF Skills
  <2>2. skill.tools \in Seq(U)
    BY <2>1, SeqMonotonic
  <2> QED
    BY <2>1, <2>2 DEF Skills
<1>2. Skills(N, T) \subseteq Skills(M, U)
  BY <1>1
<1> QED
  BY <1>2, SeqMonotonic

AllSound(list) == \A n \in 1..Len(list) : Sound(list[n])

LEMMA JoinedSound ==
  ASSUME NEW S, NEW s \in Seq(S), AllSound(s), NEW t \in Seq(S), AllSound(t)
  PROVE  s \o t \in Seq(S) /\ AllSound(s \o t) /\ Both(s \o t, s, t)
<1> DEFINE u == s \o t
<1>1. u \in Seq(S) /\ Both(u, s, t)
  BY ConcatParts
<1> HIDE DEF u
<1>2. ASSUME NEW n \in 1..Len(u) PROVE Sound(u[n])
  BY <1>1 DEF Both, AllSound
<1>3. u \in Seq(S) /\ AllSound(u) /\ Both(u, s, t)
  BY <1>1, <1>2 DEF AllSound
<1> QED
  BY <1>3 DEF u

(* What a registry of such skills is, with tools of T.                        *)
RegistryIs(registry, T) ==
  /\ \E N : registry \in Seq(Skills(N, T))
  /\ OneOfEach(registry)
  /\ \A i \in 1..Len(registry) :
       /\ Single(registry[i].hooks)
       /\ \A h \in HooksOf(registry[i]) : \E j \in 1..Len(BuiltIns) :
            registry[i].name = BuiltIns[j].name /\ h \in HooksOf(BuiltIns[j])
       /\ registry[i].name = "mcp" => ToolsOf(registry[i]) \subseteq McpTools
  /\ \A j \in 1..Len(BuiltIns) : HasSkill(registry, BuiltIns[j])

LEMMA RegistrySound ==
  ASSUME NEW N, NEW T, NEW skills \in Seq(Skills(N, T)), AllSound(skills),
         \A j \in 1..Len(BuiltIns) : \E n \in 1..Len(skills) : skills[n] = BuiltIns[j]
  PROVE  RegistryIs(Registered(skills), T)
<1> DEFINE registry == Registered(skills)
<1>1. registry \in Seq(Skills(N, T)) /\ Carries(registry, skills, Len(skills))
  <2>1. \A n \in 1..Len(skills) : Single(skills[n].hooks)
    BY DEF AllSound, Sound
  <2> QED
    BY <2>1, RegisteredParts
<1> HIDE DEF registry
<1>2. ASSUME NEW i \in 1..Len(registry), NEW h \in HooksOf(registry[i])
      PROVE  \E j \in 1..Len(BuiltIns) : registry[i].name = BuiltIns[j].name /\ h \in HooksOf(BuiltIns[j])
  <2>1. PICK m \in 1..Len(skills) : skills[m].name = registry[i].name /\ h \in HooksOf(skills[m])
    BY <1>1 DEF Carries, OfSkills
  <2>2. Sound(skills[m])
    BY DEF AllSound
  <2>3. PICK j \in 1..Len(BuiltIns) : skills[m] = BuiltIns[j]
    BY <2>1, <2>2 DEF Sound
  <2> QED
    BY <2>1, <2>3
<1>3. ASSUME NEW i \in 1..Len(registry), registry[i].name = "mcp"
      PROVE  ToolsOf(registry[i]) \subseteq McpTools
  <2>1. ASSUME NEW t \in ToolsOf(registry[i]) PROVE t \in McpTools
    <3>1. PICK m \in 1..Len(skills) : skills[m].name = registry[i].name /\ t \in ToolsOf(skills[m])
      BY <1>1 DEF Carries, OfSkills
    <3>2. Sound(skills[m])
      BY DEF AllSound
    <3> QED
      BY <1>3, <3>1, <3>2 DEF Sound
  <2> QED
    BY <2>1
<1>4. ASSUME NEW j \in 1..Len(BuiltIns) PROVE HasSkill(registry, BuiltIns[j])
  BY <1>1 DEF Carries
<1>5. \A i \in 1..Len(registry) : Single(registry[i].hooks)
  BY <1>1 DEF Carries, OfSkills
<1>6. OneOfEach(registry)
  BY <1>1 DEF Carries
<1>7. RegistryIs(registry, T)
  BY <1>1, <1>2, <1>3, <1>4, <1>5, <1>6 DEF RegistryIs
<1> QED
  BY <1>7 DEF registry

(* The two registries of an agent.                                          *)
LEMMA FirstSkills ==
  ASSUME skillFiles \subseteq SkillFiles
  PROVE  \E N : /\ BuiltInNames \subseteq N
                /\ FileSkills \o BuiltIns \in Seq(Skills(N, Locals)) /\ AllSound(FileSkills \o BuiltIns)
                /\ Both(FileSkills \o BuiltIns, FileSkills, BuiltIns)
<1>1. PICK F : FileSkills \in Seq(Skills(F, {}))
  BY FileSkillsAre
<1> DEFINE N == F \cup BuiltInNames
           SS == Skills(N, Locals)
<1>2. FileSkills \in Seq(SS)
  <2>1. F \subseteq N /\ {} \subseteq Locals
    OBVIOUS
  <2> HIDE DEF N
  <2> QED
    BY <1>1, <2>1, SkillsGrow
<1>3. BuiltIns \in Seq(SS)
  <2>1. BuiltInNames \subseteq N /\ Locals \subseteq Locals
    OBVIOUS
  <2> HIDE DEF N
  <2> QED
    BY <2>1, BuiltInsAre, SkillsGrow
<1>4. AllSound(FileSkills)
  <2>1. ASSUME NEW i \in 1..Len(FileSkills) PROVE Sound(FileSkills[i])
    BY FileSkillsAre DEF Sound
  <2> QED
    BY <2>1 DEF AllSound
<1>5. AllSound(BuiltIns)
  BY BuiltInsAre DEF AllSound
<1>6. BuiltInNames \subseteq N
  OBVIOUS
<1> HIDE DEF SS
<1>7. /\ FileSkills \o BuiltIns \in Seq(SS) /\ AllSound(FileSkills \o BuiltIns)
      /\ Both(FileSkills \o BuiltIns, FileSkills, BuiltIns)
  BY <1>2, <1>3, <1>4, <1>5, JoinedSound
<1> HIDE DEF N
<1> QED
  BY <1>6, <1>7 DEF SS

LEMMA RegistryFirst ==
  ASSUME skillFiles \subseteq SkillFiles
  PROVE  RegistryIs(Registry, Locals)
<1> DEFINE skills == FileSkills \o BuiltIns
<1>1. PICK N : skills \in Seq(Skills(N, Locals)) /\ AllSound(skills) /\ Both(skills, FileSkills, BuiltIns)
  BY FirstSkills
<1> HIDE DEF skills
<1>2. \A j \in 1..Len(BuiltIns) : \E n \in 1..Len(skills) : skills[n] = BuiltIns[j]
  BY <1>1 DEF Both
<1>3. RegistryIs(Registered(skills), Locals)
  BY <1>1, <1>2, RegistrySound
<1> QED
  BY <1>3 DEF Registry, skills

LEMMA DelegationIs ==
  ASSUME NEW N, NEW name \in N, NEW words \in Seq({"delegate_agent"}), NEW hooks \in Seq(HookNames)
  PROVE  /\ Skill(name, words, hooks) \in Skills(N, Tools)
         /\ Skill(name, words, hooks).name = name /\ Skill(name, words, hooks).hooks = hooks
<1>1. {Local(w) : w \in {"delegate_agent"}} \subseteq Tools
  BY DEF Tools
<1> QED
  BY <1>1, SkillParts

LEMMA MoreSkills ==
  ASSUME NEW N, "delegation" \in N, "mcp" \in N, NEW tools \in Seq(McpTools)
  PROVE  LET delegation == Skill("delegation", <<"delegate_agent">>, <<>>)
             servers    == [name |-> "mcp", tools |-> tools, hooks |-> <<>>]
         IN /\ delegation \in Skills(N, Tools) /\ Sound(delegation)
            /\ servers \in Skills(N, Tools) /\ Sound(servers)
<1> DEFINE words == <<"delegate_agent">>
           none == <<>>
           delegation == Skill("delegation", words, none)
           servers == [name |-> "mcp", tools |-> tools, hooks |-> none]
<1>1. words \in Seq({"delegate_agent"}) /\ none \in Seq(HookNames)
  OBVIOUS
<1>2. Single(none) /\ \A skill : skill.hooks = none => HooksOf(skill) = {}
  BY DEF Single, HooksOf
<1> HIDE DEF words, none
<1>3. /\ delegation \in Skills(N, Tools) /\ delegation.name = "delegation" /\ delegation.hooks = none
  BY <1>1, DelegationIs
<1>4. McpTools \subseteq Tools
  BY DEF Tools
<1>5. tools \in Seq(Tools)
  BY <1>4, SeqMonotonic
<1>6. servers \in Skills(N, Tools)
  BY <1>1, <1>5 DEF Skills
<1>7. servers.name = "mcp" /\ servers.hooks = none /\ servers.tools = tools
  OBVIOUS
<1> HIDE DEF delegation, servers
<1>8. ToolsOf(servers) \subseteq McpTools
  BY <1>7 DEF ToolsOf
<1>9. Sound(delegation) /\ Sound(servers)
  BY <1>2, <1>3, <1>7, <1>8 DEF Sound
<1> QED
  BY <1>3, <1>6, <1>9 DEF delegation, servers, words, none

LEMMA RegistryWhole ==
  ASSUME skillFiles \subseteq SkillFiles, NEW runtime, runtime.tools \in Seq(McpTools)
  PROVE  RegistryIs(WholeRegistry(runtime), Tools)
<1> DEFINE skills == FileSkills \o BuiltIns
           delegation == Skill("delegation", <<"delegate_agent">>, <<>>)
           servers == [name |-> "mcp", tools |-> runtime.tools, hooks |-> <<>>]
           some == IF Definitions = {} THEN <<>> ELSE <<delegation>>
           others == IF runtime.tools = <<>> THEN <<>> ELSE <<servers>>
<1>1. PICK F : /\ skills \in Seq(Skills(F, Locals)) /\ AllSound(skills)
               /\ Both(skills, FileSkills, BuiltIns)
  BY FirstSkills
<1> DEFINE N == F \cup {"delegation", "mcp"}
           SS == Skills(N, Tools)
<1>2. "delegation" \in N /\ "mcp" \in N /\ F \subseteq N /\ Locals \subseteq Tools
  BY DEF Tools
<1> HIDE DEF N, skills
<1>3. skills \in Seq(SS)
  BY <1>1, <1>2, SkillsGrow
<1>4. delegation \in SS /\ Sound(delegation) /\ servers \in SS /\ Sound(servers)
  BY <1>2, MoreSkills
<1> HIDE DEF SS, delegation, servers
<1>5. <<>> \in Seq(SS) /\ <<delegation>> \in Seq(SS) /\ <<servers>> \in Seq(SS)
  BY <1>4
<1>6. AllSound(<<>>) /\ AllSound(<<delegation>>) /\ AllSound(<<servers>>)
  BY <1>4 DEF AllSound
<1>7. some \in Seq(SS) /\ AllSound(some) /\ others \in Seq(SS) /\ AllSound(others)
  BY <1>5, <1>6
<1> HIDE DEF some, others
<1>8. some \o others \in Seq(SS) /\ AllSound(some \o others)
  BY <1>7, JoinedSound
<1> DEFINE more == some \o others
           all == skills \o more
<1> HIDE DEF more
<1>9. all \in Seq(SS) /\ AllSound(all) /\ Both(all, skills, more)
  BY <1>1, <1>3, <1>8, JoinedSound DEF more
<1> HIDE DEF all
<1>10. ASSUME NEW j \in 1..Len(BuiltIns) PROVE \E n \in 1..Len(all) : all[n] = BuiltIns[j]
  <2>1. PICK k \in 1..Len(skills) : skills[k] = BuiltIns[j]
    BY <1>1 DEF Both
  <2> QED
    BY <1>9, <2>1 DEF Both
<1>11. RegistryIs(Registered(all), Tools)
  BY <1>9, <1>10, RegistrySound DEF SS
<1> QED
  BY <1>11 DEF WholeRegistry, all, more, some, others, skills, delegation, servers

(* What is loaded of servers are tools of theirs.                            *)
LEMMA LoadedTools ==
  ASSUME NEW got \in Yields
  PROVE  Loaded(got).tools \in Seq(McpTools)
<1> DEFINE L == Len(Servers)
           SS == Seq(McpTools)
           part(n) == [k \in 1..Len(got[n].list) |-> ServerTools(Servers[n])[got[n].list[k]]]
           Defined(f) == f = [n \in 0..L |-> IF n = 0 THEN <<>> ELSE f[n - 1] \o part(n)]
           taken == CHOOSE f : Defined(f)
           G == [s \in SS |-> [n \in 1..L |-> s \o part(n)]]
<1>1. L \in Nat /\ <<>> \in SS
  BY ToolsetAssumption
<1>2. ASSUME NEW n \in 1..L PROVE part(n) \in SS
  <2>1. got[n].list \in Lists(Servers[n])
    BY DEF Yields, LoadResults
  <2>2. PICK k \in 0..Len(Servers[n].tools) : got[n].list \in [1..k -> 1..Len(Servers[n].tools)]
    BY <2>1 DEF Lists
  <2>3. k \in Nat
    BY <2>2, ServerIs
  <2>4. got[n].list \in Seq(1..Len(Servers[n].tools))
    BY <2>2, <2>3, SeqDef
  <2>5. ASSUME NEW i \in 1..Len(got[n].list) PROVE ServerTools(Servers[n])[got[n].list[i]] \in McpTools
    <3>1. got[n].list[i] \in 1..Len(Servers[n].tools)
      BY <2>4, ElementOfSeq
    <3> QED
      BY <3>1 DEF McpTools
  <2>6. Len(got[n].list) \in Nat
    BY <2>4, LenProperties
  <2> QED
    BY <2>5, <2>6, IsASeq
<1> HIDE DEF L, part
<1>3. ASSUME NEW s \in SS, NEW n \in 1..L PROVE s \o part(n) \in SS
  BY <1>2
<1> HIDE DEF SS
<1>4. PICK g : Steps(g, L, SS, <<>>, G)
  <2>1. \A s \in SS, n \in 1..L : G[s][n] \in SS
    BY <1>3
  <2> HIDE DEF G
  <2> QED
    BY <1>1, <2>1, StepsExist
<1> DEFINE h == [n \in 0..L |-> g[n]]
<1>5. Defined(h)
  <2>1. ASSUME NEW n \in 1..L PROVE h[n] = h[n - 1] \o part(n)
    <3>1. n - 1 \in 0..L /\ n \in 0..L
      BY <1>1
    <3>2. g[n - 1] \in SS
      BY <1>4, <3>1 DEF Steps
    <3>3. g[n] = g[n - 1] \o part(n)
      BY <1>4, <3>2 DEF Steps
    <3> QED
      BY <3>1, <3>3
  <2>2. h[0] = <<>>
    BY <1>1, <1>4 DEF Steps
  <2>3. \A n \in 0..L : n = 0 \/ n \in 1..L
    BY <1>1
  <2>4. h = [n \in 0..L |-> h[n]]
    OBVIOUS
  <2> HIDE DEF h
  <2> QED
    BY <2>1, <2>2, <2>3, <2>4
<1>6. Defined(taken)
  BY <1>5
<1>7. Loaded(got).tools = taken[L]
  BY DEF Loaded, L, part
<1> HIDE DEF taken, G
<1>8. taken[0] = <<>> /\ \A n \in 1..L : taken[n] = taken[n - 1] \o part(n)
  <2>1. 0 \in 0..L /\ \A n \in 1..L : n \in 0..L /\ n # 0
    BY <1>1
  <2> QED
    BY <1>6, <2>1
<1> DEFINE T == {n \in 0..L : taken[n] \in SS}
<1>9. L \in T
  <2>1. 0 \in T
    BY <1>1, <1>8
  <2>2. ASSUME NEW n \in 1..L, n - 1 \in T PROVE n \in T
    <3>1. n \in 0..L
      BY <1>1
    <3> QED
      BY <1>3, <1>8, <2>2, <3>1
  <2>3. L \in 0..L /\ \A n \in 1..L : n - 1 \in T => n \in T
    BY <1>1, <2>2
  <2> HIDE DEF T
  <2> QED
    BY <1>1, <2>1, <2>3, Reaches
<1> QED
  BY <1>7, <1>9 DEF SS
-----------------------------------------------------------------------------
(* An agent.                                                               *)
LEMMA ToolsOfRegistry ==
  ASSUME NEW registry, NEW T, RegistryIs(registry, T)
  PROVE  /\ RegistryTools(registry) \subseteq T
         /\ \A s, t \in RegistryTools(registry) : s.name = t.name => s = t
         /\ \A i \in 1..Len(registry) : ToolsOf(registry[i]) \subseteq T
         /\ \A i \in 1..Len(registry) : \A t \in ToolsOf(registry[i]) :
              \E s \in RegistryTools(registry) : s.name = t.name
         /\ \A t \in RegistryTools(registry) : \E i \in 1..Len(registry) : t \in ToolsOf(registry[i])
<1>1. PICK N : registry \in Seq(Skills(N, T))
  BY DEF RegistryIs
<1>2. ASSUME NEW i \in 1..Len(registry)
      PROVE  Len(registry[i].tools) \in Nat /\ ToolsOf(registry[i]) \subseteq T
  <2>1. registry[i] \in Skills(N, T)
    BY <1>1, ElementOfSeq
  <2>2. registry[i].tools \in Seq(T)
    BY <2>1 DEF Skills
  <2> QED
    BY <2>2, LenProperties, ElementOfSeq DEF ToolsOf
<1>3. /\ \A t \in RegistryTools(registry) : \E i \in 1..Len(registry) : t \in ToolsOf(registry[i])
      /\ \A s, t \in RegistryTools(registry) : s.name = t.name => s = t
      /\ \A i \in 1..Len(registry) : \A t \in ToolsOf(registry[i]) :
           \E s \in RegistryTools(registry) : s.name = t.name
  BY <1>1, <1>2, RegistryToolsParts
<1>4. RegistryTools(registry) \subseteq T
  BY <1>2, <1>3
<1> QED
  BY <1>2, <1>3, <1>4

(* A built-in hook is at one place.                                         *)
AtOnePlace(h, hooks) == \E p \in DOMAIN hooks : \A q \in DOMAIN hooks : hooks[q] = h <=> q = p

LEMMA HooksOfRegistry ==
  ASSUME NEW registry, NEW T, RegistryIs(registry, T),
         NEW i \in 1..Len(BuiltIns), NEW h \in HooksOf(BuiltIns[i])
  PROVE  AtOnePlace(h, RegistryHooks(registry))
<1> DEFINE places == UNION {{n} \X (1..Len(registry[n].hooks)) : n \in 1..Len(registry)}
           hooks == RegistryHooks(registry)
<1>1. /\ DOMAIN hooks = {<<0, 1>>} \cup places
      /\ \A p \in {<<0, 1>>} \cup places :
           hooks[p] = IF p[1] = 0 THEN "skills" ELSE registry[p[1]].hooks[p[2]]
  BY DEF RegistryHooks
<1>2. ASSUME NEW p \in places
      PROVE  /\ p[1] \in 1..Len(registry) /\ p[2] \in 1..Len(registry[p[1]].hooks)
             /\ p[1] # 0 /\ p = <<p[1], p[2]>>
  <2>1. PICK n \in 1..Len(registry) : p \in {n} \X (1..Len(registry[n].hooks))
    OBVIOUS
  <2>2. PICK k \in 1..Len(registry[n].hooks) : p = <<n, k>>
    BY <2>1
  <2> QED
    BY <2>2
<1>3. ASSUME NEW n \in 1..Len(registry), NEW k \in 1..Len(registry[n].hooks)
      PROVE  <<n, k>> \in places
  <2>1. <<n, k>> \in {n} \X (1..Len(registry[n].hooks))
    OBVIOUS
  <2> QED
    BY <2>1
<1> HIDE DEF places, hooks
<1>4. PICK r \in 1..Len(registry) : registry[r].name = BuiltIns[i].name /\ h \in HooksOf(registry[r])
  BY DEF RegistryIs, HasSkill
<1>5. PICK k \in 1..Len(registry[r].hooks) : registry[r].hooks[k] = h
  BY <1>4 DEF HooksOf
<1> DEFINE p == <<r, k>>
<1>6. p \in places /\ p[1] = r /\ p[2] = k
  BY <1>3
<1>7. hooks[p] = h
  BY <1>1, <1>2, <1>5, <1>6
<1> HIDE DEF p
<1>8. ASSUME NEW q \in {<<0, 1>>} \cup places, hooks[q] = h PROVE q = p
  <2>1. q \in places
    <3> SUFFICES ASSUME q = <<0, 1>> PROVE FALSE
      OBVIOUS
    <3>1. hooks[q] = "skills"
      BY <1>1
    <3> QED
      BY <1>8, <3>1, BuiltInsAre
  <2>2. /\ q[1] \in 1..Len(registry) /\ q[2] \in 1..Len(registry[q[1]].hooks)
        /\ registry[q[1]].hooks[q[2]] = h
    BY <1>1, <1>2, <1>8, <2>1
  <2>3. h \in HooksOf(registry[q[1]])
    BY <2>2 DEF HooksOf
  <2>4. PICK j \in 1..Len(BuiltIns) : registry[q[1]].name = BuiltIns[j].name /\ h \in HooksOf(BuiltIns[j])
    BY <2>2, <2>3 DEF RegistryIs
  <2>5. j = i
    BY <2>4, BuiltInsAre
  <2>6. q[1] = r
    BY <1>4, <2>2, <2>4, <2>5 DEF RegistryIs, OneOfEach
  <2>7. q[2] = k
    BY <1>5, <2>2, <2>6 DEF RegistryIs, Single
  <2> QED
    BY <1>2, <1>6, <2>1, <2>6, <2>7
<1>9. AtOnePlace(h, hooks)
  BY <1>1, <1>6, <1>7, <1>8 DEF AtOnePlace
<1> QED
  BY <1>9 DEF hooks

HasBuiltIns(a) ==
  \A i \in 1..Len(BuiltIns) :
    /\ \A k \in 1..Len(BuiltIns[i].tools) : BuiltIns[i].tools[k] \in a.tools
    /\ \A k \in 1..Len(BuiltIns[i].hooks) : AtOnePlace(BuiltIns[i].hooks[k], a.hooks)

AgentIs(a) ==
  /\ a.tools \subseteq Tools /\ a.available \subseteq Locals /\ a.definitions \subseteq AgentFiles
  /\ \A s, t \in a.tools : s.name = t.name => s = t
  /\ HasBuiltIns(a)

LEMMA ToolIsBuiltIn ==
  ASSUME NEW registry, RegistryIs(registry, Tools),
         NEW i \in 1..Len(BuiltIns), NEW k \in 1..Len(BuiltIns[i].tools)
  PROVE  BuiltIns[i].tools[k] \in RegistryTools(registry)
<1> DEFINE b == BuiltIns[i].tools[k]
<1>1. b \in Locals /\ b \in ToolsOf(BuiltIns[i])
  <2>1. BuiltIns[i] \in Skills(BuiltInNames, Locals)
    BY BuiltInsAre, ElementOfSeq
  <2>2. BuiltIns[i].tools \in Seq(Locals)
    BY <2>1 DEF Skills
  <2> QED
    BY <2>2, ElementOfSeq DEF ToolsOf
<1> HIDE DEF b
<1>2. PICK r \in 1..Len(registry) : NamesOf(BuiltIns[i]) \subseteq NamesOf(registry[r])
  BY DEF RegistryIs, HasSkill
<1>3. PICK t \in ToolsOf(registry[r]) : t.name = b.name
  BY <1>1, <1>2 DEF NamesOf
<1>4. PICK s \in RegistryTools(registry) : s.name = b.name
  BY <1>3, ToolsOfRegistry
<1>5. s \in Tools /\ b \in Tools /\ b \notin McpTools
  <2>1. s \in Tools
    BY ToolsOfRegistry
  <2>2. b \in Tools /\ b.server = <<>>
    BY <1>1, LocalNames DEF Tools
  <2> QED
    BY <2>1, <2>2, McpNames
<1>6. s = b
  BY <1>4, <1>5, SameName
<1> QED
  BY <1>6 DEF b

LEMMA AgentIsWhole ==
  ASSUME skillFiles \subseteq SkillFiles, agentFiles \subseteq AgentFiles, mcp.tools \in Seq(McpTools)
  PROVE  AgentIs(NewAgent(mcp))
<1> DEFINE whole == WholeRegistry(mcp)
           a == NewAgent(mcp)
<1>1. RegistryIs(whole, Tools) /\ RegistryIs(Registry, Locals)
  BY RegistryWhole, RegistryFirst
<1> HIDE DEF whole
<1>2. /\ a.tools = RegistryTools(whole) /\ a.hooks = RegistryHooks(whole)
      /\ a.available = RegistryTools(Registry) /\ a.definitions \subseteq AgentFiles
  BY DEF NewAgent, Definitions, whole
<1> HIDE DEF a
<1>3. a.tools \subseteq Tools /\ a.available \subseteq Locals
  BY <1>1, <1>2, ToolsOfRegistry
<1>4. \A s, t \in a.tools : s.name = t.name => s = t
  BY <1>1, <1>2, ToolsOfRegistry
<1>5. ASSUME NEW i \in 1..Len(BuiltIns)
      PROVE  \A k \in 1..Len(BuiltIns[i].tools) : BuiltIns[i].tools[k] \in a.tools
  BY <1>1, <1>2, ToolIsBuiltIn
<1>6. ASSUME NEW i \in 1..Len(BuiltIns), NEW k \in 1..Len(BuiltIns[i].hooks)
      PROVE  AtOnePlace(BuiltIns[i].hooks[k], a.hooks)
  <2>1. BuiltIns[i].hooks[k] \in HooksOf(BuiltIns[i])
    BY DEF HooksOf
  <2> QED
    BY <1>1, <1>2, <2>1, HooksOfRegistry
<1>7. AgentIs(a)
  BY <1>2, <1>3, <1>4, <1>5, <1>6 DEF AgentIs, HasBuiltIns
<1> QED
  BY <1>7 DEF a

(* The inventory of an agent.                                               *)
InventoryIs(i, a) ==
  /\ i.tools = {t.name : t \in a.tools}
  /\ i.mcp = {t.name : t \in {s \in a.tools : s.server # <<>>}}

LEMMA InventoryShows ==
  ASSUME skillFiles \subseteq SkillFiles, mcp.tools \in Seq(McpTools), NEW user
  PROVE  InventoryIs(Inventory(mcp, user), NewAgent(mcp)) /\ Inventory(mcp, user).of = user
<1> DEFINE whole == WholeRegistry(mcp)
           skills == 1..Len(whole)
           names(S) == UNION {{whole[i].tools[k].name : k \in 1..Len(whole[i].tools)} : i \in S}
           own == {i \in skills : whole[i].name = "mcp"}
           i0 == Inventory(mcp, user)
           tools == NewAgent(mcp).tools
<1>1. RegistryIs(whole, Tools)
  BY RegistryWhole
<1>2. /\ i0.tools = names(skills) /\ i0.of = user
      /\ i0.mcp = names(own) \cup {name \in names(skills) : name[1] = "mcp"}
  BY DEF Inventory
<1>3. tools = RegistryTools(whole)
  BY DEF NewAgent
<1>4. ASSUME NEW S, NEW n PROVE n \in names(S) <=> \E i \in S : \E t \in ToolsOf(whole[i]) : n = t.name
  BY DEF ToolsOf
<1> HIDE DEF whole, names, i0, tools
<1>5. /\ \A t \in tools : \E i \in skills : t \in ToolsOf(whole[i])
      /\ \A i \in skills : \A t \in ToolsOf(whole[i]) : \E s \in tools : s.name = t.name
      /\ tools \subseteq Tools
  BY <1>1, <1>3, ToolsOfRegistry
<1>6. names(skills) = {t.name : t \in tools}
  <2>1. ASSUME NEW n \in names(skills) PROVE \E t \in tools : n = t.name
    BY <1>4, <1>5
  <2>2. ASSUME NEW t \in tools PROVE t.name \in names(skills)
    BY <1>4, <1>5
  <2> QED
    BY <2>1, <2>2
<1>7. \A t \in tools : t.server # <<>> <=> t.name[1] = "mcp"
  BY <1>5, LocalNames, McpNames DEF Tools
<1>8. ASSUME NEW n \in names(own) PROVE n[1] = "mcp" /\ n \in names(skills)
  <2>1. PICK i \in own : \E t \in ToolsOf(whole[i]) : n = t.name
    BY <1>4
  <2>2. PICK t \in ToolsOf(whole[i]) : n = t.name
    BY <2>1
  <2>3. t \in McpTools
    BY <1>1, <2>2 DEF RegistryIs
  <2>4. n \in names(skills)
    BY <1>4, <2>2
  <2> QED
    BY <2>2, <2>3, <2>4, McpNames
<1>9. i0.mcp = {n \in {t.name : t \in tools} : n[1] = "mcp"}
  BY <1>2, <1>6, <1>8
<1>10. i0.mcp = {t.name : t \in {s \in tools : s.server # <<>>}}
  BY <1>7, <1>9
<1>11. InventoryIs(i0, NewAgent(mcp))
  BY <1>2, <1>6, <1>10 DEF InventoryIs, tools
<1> QED
  BY <1>2, <1>11 DEF i0
-----------------------------------------------------------------------------
(* The calls.                                                              *)

(* What is so of a call, whatever other calls there are: it asks about the tool *)
(* it is of, that the agent has as long as nothing changes, and while it runs    *)
(* there is an agent.                                                        *)
CallIs(e, faults, agents, tools) ==
  /\ e.state = "waiting" =>
       e.within = Absent /\ e.asked = e.tool /\ (faults = 0 => e.tool \in tools)
  /\ e.state \in {"running", "done"} /\ NeedsApproval(e.tool, e.risky) => e.approved /\ e.within = Absent
  /\ e.approved /\ e.tool # e.asked =>
       faults > 0 /\ {e.tool, e.asked} \subseteq McpTools /\ e.tool.name = e.asked.name
  /\ e.state = "running" => AgentIs(agents[e.user])

(* A call of a specialist is one the definition lets it make.                  *)
Bound(e, calls) ==
  e.within # Absent =>
    /\ e.within \in ToolCalls /\ calls[e.within] # Absent /\ calls[e.within].state # "waiting"
    /\ e.tool.name \in calls[e.within].task.tools /\ e.tool \in Locals

AllCalls(calls, faults, agents, tools) ==
  /\ calls \in [ToolCalls -> CallRecords \cup {Absent}]
  /\ \A c \in ToolCalls : calls[c] # Absent =>
       CallIs(calls[c], faults, agents, tools) /\ Bound(calls[c], calls)

AllAgents(agents, faults, now) ==
  /\ agents = [u \in Users |-> agents[u]]
  /\ \A u \in Users : agents[u] # Absent => AgentIs(agents[u]) /\ (faults = 0 => agents[u] = now)

Shown(i, agents) == i.of \in Users /\ agents[i.of] # Absent => InventoryIs(i, agents[i.of])

ToolsetIs ==
  /\ skillFiles \subseteq SkillFiles /\ agentFiles \subseteq AgentFiles
  /\ mcp.tools \in Seq(McpTools) /\ toolsetFaults \in Nat
  /\ AllAgents(agent, toolsetFaults, NewAgent(mcp))
  /\ inventory.of \in Users \cup {Absent} /\ Shown(inventory, agent)
  /\ AllCalls(toolCall, toolsetFaults, agent, NewAgent(mcp).tools)

(* A call stays what it is when the agent of its run is replaced by a whole one,  *)
(* and when there were faults.                                               *)
LEMMA AgentsChange ==
  ASSUME NEW calls, NEW faults, NEW agents, NEW tools, AllCalls(calls, faults, agents, tools),
         NEW others,
         \A c \in ToolCalls : calls[c] # Absent /\ calls[c].state = "running" => AgentIs(others[calls[c].user])
  PROVE  AllCalls(calls, faults, others, tools)
<1>1. ASSUME NEW c \in ToolCalls, calls[c] # Absent
      PROVE  CallIs(calls[c], faults, others, tools)
  BY <1>1 DEF AllCalls, CallIs
<1> QED
  BY <1>1 DEF AllCalls

LEMMA FaultsCount ==
  ASSUME NEW calls, NEW faults \in Nat, NEW agents, NEW tools, AllCalls(calls, faults, agents, tools),
         NEW others
  PROVE  AllCalls(calls, faults + 1, agents, others)
<1>1. faults + 1 > 0 /\ faults + 1 # 0
  OBVIOUS
<1>2. ASSUME NEW c \in ToolCalls, calls[c] # Absent
      PROVE  CallIs(calls[c], faults + 1, agents, others)
  BY <1>1, <1>2 DEF AllCalls, CallIs
<1> QED
  BY <1>2 DEF AllCalls

(* One call begins or goes on.                                              *)
Goes(old, e) == old = Absent \/ old.state = "waiting" \/ (e.state # "waiting" /\ e.task = old.task)

LEMMA OneCall ==
  ASSUME NEW calls, NEW faults, NEW agents, NEW tools, AllCalls(calls, faults, agents, tools),
         NEW c \in ToolCalls, NEW e \in CallRecords, CallIs(e, faults, agents, tools), Bound(e, calls),
         Goes(calls[c], e)
  PROVE  AllCalls([calls EXCEPT ![c] = e], faults, agents, tools)
<1> DEFINE new == [calls EXCEPT ![c] = e]
<1>1. /\ new \in [ToolCalls -> CallRecords \cup {Absent}] /\ new[c] = e
      /\ \A d \in ToolCalls : d # c => new[d] = calls[d]
  BY DEF AllCalls
<1> HIDE DEF new
<1>2. e # Absent
  BY CallsAssumption
<1>3. ASSUME NEW x, Bound(x, calls) PROVE Bound(x, new)
  <2>1. CASE x.within = c
    BY <1>1, <1>2, <1>3, <2>1 DEF Bound, Goes
  <2>2. CASE x.within # c
    BY <1>1, <1>3, <2>2 DEF Bound
  <2> QED
    BY <2>1, <2>2
<1>4. ASSUME NEW d \in ToolCalls, new[d] # Absent
      PROVE  CallIs(new[d], faults, agents, tools) /\ Bound(new[d], new)
  <2>1. CASE d = c
    BY <1>1, <1>3, <2>1
  <2>2. CASE d # c
    <3>1. new[d] = calls[d]
      BY <1>1, <2>2
    <3>2. CallIs(calls[d], faults, agents, tools) /\ Bound(calls[d], calls)
      BY <1>4, <3>1 DEF AllCalls
    <3> QED
      BY <1>3, <3>1, <3>2
  <2> QED
    BY <2>1, <2>2
<1>5. AllCalls(new, faults, agents, tools)
  BY <1>1, <1>4 DEF AllCalls
<1> QED
  BY <1>5 DEF new

(* The fields of a call that asks, and of one that goes on.                   *)
LEMMA CallAsks ==
  ASSUME NEW e \in CallRecords, NEW t \in Tools
  PROVE  LET n == [e EXCEPT !.asked = t]
         IN /\ n \in CallRecords /\ n.user = e.user /\ n.tool = e.tool /\ n.asked = t /\ n.within = e.within
            /\ n.state = e.state /\ n.approved = e.approved
  BY DEF CallRecords

States == {"waiting", "running", "done", "failed", "dropped", "missing", "rejected", "lost"}

LEMMA CallMoves ==
  ASSUME NEW e \in CallRecords, NEW s \in States
  PROVE  LET n == [e EXCEPT !.state = s]
         IN /\ n \in CallRecords /\ n.user = e.user /\ n.tool = e.tool /\ n.asked = e.asked
            /\ n.within = e.within /\ n.state = s /\ n.approved = e.approved /\ n.risky = e.risky
            /\ n.task = e.task
  BY DEF CallRecords, States

LEMMA DispatchedIs ==
  ASSUME NEW a, AgentIs(a), NEW t, NEW b \in Dispatched(a, t)
  PROVE  b.state \in {"running", "failed"} /\ b.task \in AgentFiles \cup {Absent}
  BY DEF Dispatched, AgentIs

(* A call that ends, that is lost or that is rejected is not let in by that.    *)
LEMMA CallEnds ==
  ASSUME NEW e \in CallRecords, NEW faults, NEW agents, NEW tools, CallIs(e, faults, agents, tools),
         NEW s \in States \ {"waiting", "running"}, s = "done" => e.state = "running"
  PROVE  CallIs([e EXCEPT !.state = s], faults, agents, tools)
<1> DEFINE n == [e EXCEPT !.state = s]
<1>1. /\ n.tool = e.tool /\ n.asked = e.asked /\ n.within = e.within /\ n.state = s
      /\ n.approved = e.approved /\ n.risky = e.risky
  BY CallMoves
<1> HIDE DEF n
<1>2. CallIs(n, faults, agents, tools)
  BY <1>1 DEF CallIs
<1> QED
  BY <1>2 DEF n
(* One call begins or goes on, and nothing else changes.                      *)
LEMMA CallChanges ==
  ASSUME ToolsetIs, NEW c \in ToolCalls, NEW e \in CallRecords,
         CallIs(e, toolsetFaults, agent, NewAgent(mcp).tools), Bound(e, toolCall), Goes(toolCall[c], e),
         toolCall' = [toolCall EXCEPT ![c] = e],
         UNCHANGED <<skillFiles, agentFiles, mcp, agent, inventory, toolsetFaults>>
  PROVE  ToolsetIs'
<1>1. NewAgent(mcp)' = NewAgent(mcp)
  BY SameAgent
<1>2. AllCalls([toolCall EXCEPT ![c] = e], toolsetFaults, agent, NewAgent(mcp).tools)
  BY OneCall DEF ToolsetIs
<1> QED
  BY <1>1, <1>2 DEF ToolsetIs

(* A new agent is in place of that of a session.                             *)
LEMMA BuildKeeps ==
  ASSUME ToolsetIs, NEW user \in Users, Build(user)
  PROVE  /\ AllAgents(agent', toolsetFaults, NewAgent(mcp)) /\ AgentIs(NewAgent(mcp))
         /\ agent'[user] = NewAgent(mcp)
         /\ inventory'.of \in Users \cup {Absent} /\ Shown(inventory', agent')
         /\ AllCalls(toolCall, toolsetFaults, agent', NewAgent(mcp).tools)
<1> DEFINE now == NewAgent(mcp)
<1>1. AgentIs(now)
  BY AgentIsWhole DEF ToolsetIs
<1>2. InventoryIs(inventory', now) /\ inventory'.of = user
  BY InventoryShows DEF Build, ToolsetIs
<1> HIDE DEF now
<1>3. agent' = [u \in Users |-> IF u = user THEN now ELSE agent[u]]
  BY DEF Build, ToolsetIs, AllAgents, now
<1>4. AllAgents(agent', toolsetFaults, now)
  <2>1. agent' = [u \in Users |-> agent'[u]]
    BY <1>3
  <2>2. ASSUME NEW u \in Users, agent'[u] # Absent
        PROVE  AgentIs(agent'[u]) /\ (toolsetFaults = 0 => agent'[u] = now)
    BY <1>1, <1>3, <2>2 DEF ToolsetIs, AllAgents, now
  <2> QED
    BY <2>1, <2>2 DEF AllAgents
<1>5. Shown(inventory', agent')
  BY <1>2, <1>3 DEF Shown
<1>6. ASSUME NEW c \in ToolCalls, toolCall[c] # Absent, toolCall[c].state = "running"
      PROVE  AgentIs(agent'[toolCall[c].user])
  <2>1. toolCall[c].user \in Users
    BY <1>6 DEF ToolsetIs, AllCalls, CallRecords
  <2>2. AgentIs(agent[toolCall[c].user])
    BY <1>6 DEF ToolsetIs, AllCalls, CallIs
  <2> QED
    BY <1>1, <1>3, <2>1, <2>2
<1>7. AllCalls(toolCall, toolsetFaults, agent', now.tools)
  BY <1>6, AgentsChange DEF ToolsetIs, now
<1> QED
  BY <1>1, <1>2, <1>3, <1>4, <1>5, <1>7 DEF now

LEMMA StartAgentStep ==
  ASSUME ToolsetIs, NEW u \in Users, StartAgent(u)
  PROVE  ToolsetIs'
<1>1. Build(u) /\ UNCHANGED <<skillFiles, agentFiles, mcp, toolCall, toolsetFaults>>
  BY DEF StartAgent
<1>2. NewAgent(mcp)' = NewAgent(mcp)
  BY <1>1, SameAgent
<1> QED
  BY <1>1, <1>2, BuildKeeps DEF ToolsetIs

LEMMA CallToolStep ==
  ASSUME ToolsetIs, NEW u \in Users, NEW c \in ToolCalls, CallTool(u, c)
  PROVE  ToolsetIs'
<1> DEFINE tools == NewAgent(mcp).tools
<1>1. PICK t \in agent[u].tools, risky \in BOOLEAN :
        IF NeedsApproval(t, risky)
        THEN toolCall' = [toolCall EXCEPT ![c] = [CallOf(u, t, risky, Absent) EXCEPT !.asked = t]]
        ELSE \E b \in Dispatched(agent[u], t) :
               toolCall' = [toolCall EXCEPT ![c] =
                              [CallOf(u, t, risky, Absent) EXCEPT !.state = b.state, !.task = b.task]]
  BY DEF CallTool
<1>2. /\ toolCall[c] = Absent
      /\ UNCHANGED <<skillFiles, agentFiles, mcp, agent, inventory, toolsetFaults>>
      /\ AgentIs(agent[u]) /\ t \in Tools /\ (toolsetFaults = 0 => t \in tools)
  BY DEF CallTool, ToolsetIs, AllAgents, AgentIs
<1> DEFINE new == CallOf(u, t, risky, Absent)
<1>3. /\ new \in CallRecords /\ new.user = u /\ new.tool = t /\ new.risky = risky /\ new.within = Absent
      /\ new.state = "waiting" /\ new.approved = FALSE
  BY <1>2 DEF CallOf, CallRecords
<1> HIDE DEF tools, new
<1>4. CASE NeedsApproval(t, risky)
  <2> DEFINE e == [new EXCEPT !.asked = t]
  <2>1. /\ e \in CallRecords /\ e.tool = t /\ e.asked = t /\ e.within = Absent
        /\ e.state = "waiting" /\ e.approved = FALSE
    BY <1>2, <1>3, CallAsks
  <2>2. toolCall' = [toolCall EXCEPT ![c] = e]
    BY <1>1, <1>4 DEF new
  <2> HIDE DEF e
  <2>3. CallIs(e, toolsetFaults, agent, tools) /\ Bound(e, toolCall) /\ Goes(toolCall[c], e)
    BY <1>2, <2>1 DEF CallIs, Bound, Goes
  <2> QED
    BY <1>2, <2>1, <2>2, <2>3, CallChanges DEF tools
<1>5. CASE ~ NeedsApproval(t, risky)
  <2>1. PICK b \in Dispatched(agent[u], t) :
          toolCall' = [toolCall EXCEPT ![c] = [new EXCEPT !.state = b.state, !.task = b.task]]
    BY <1>1, <1>5 DEF new
  <2>2. b.state \in {"running", "failed"} /\ b.task \in AgentFiles \cup {Absent} /\ b.state \in States
    BY <1>2, DispatchedIs DEF States
  <2> DEFINE e == [new EXCEPT !.state = b.state, !.task = b.task]
  <2>3. /\ e \in CallRecords /\ e.user = u /\ e.tool = t /\ e.within = Absent /\ e.state = b.state
        /\ e.approved = FALSE /\ e.risky = risky
    BY <1>3, <2>2 DEF CallRecords, States
  <2> HIDE DEF e
  <2>4. CallIs(e, toolsetFaults, agent, tools) /\ Bound(e, toolCall) /\ Goes(toolCall[c], e)
    BY <1>2, <1>5, <2>2, <2>3 DEF CallIs, Bound, Goes
  <2>5. toolCall' = [toolCall EXCEPT ![c] = e]
    BY <2>1 DEF e
  <2> QED
    BY <1>2, <2>3, <2>4, <2>5, CallChanges DEF tools
<1> QED
  BY <1>4, <1>5

LEMMA CallInsideStep ==
  ASSUME ToolsetIs, NEW c \in ToolCalls, NEW d \in ToolCalls, CallInside(d, c)
  PROVE  ToolsetIs'
<1> DEFINE tools == NewAgent(mcp).tools
           user == toolCall[d].user
           a == agent[user]
<1>1. PICK t \in Selected(a, toolCall[d].task), risky \in BOOLEAN :
        toolCall' = [toolCall EXCEPT ![c] =
          [CallOf(user, t, risky, d) EXCEPT
             !.state = IF NeedsApproval(t, risky) THEN "dropped" ELSE "running"]]
  BY DEF CallInside
<1>2. /\ toolCall[c] = Absent /\ toolCall[d] # Absent /\ toolCall[d].state = "running"
      /\ UNCHANGED <<skillFiles, agentFiles, mcp, agent, inventory, toolsetFaults>>
  BY DEF CallInside, Open
<1>3. user \in Users /\ AgentIs(a)
  BY <1>2 DEF ToolsetIs, AllCalls, CallIs, CallRecords
<1>4. t \in Locals /\ t \in Tools /\ t.name \in toolCall[d].task.tools
  BY <1>3 DEF Selected, AgentIs, Tools
<1> DEFINE s == IF NeedsApproval(t, risky) THEN "dropped" ELSE "running"
           new == CallOf(user, t, risky, d)
           e == [new EXCEPT !.state = s]
<1>5. s \in States /\ s # "waiting" /\ s # "done" /\ (s = "running" => ~ NeedsApproval(t, risky))
  BY DEF States
<1>6. /\ new \in CallRecords /\ new.user = user /\ new.tool = t /\ new.risky = risky
      /\ new.within = d /\ new.approved = FALSE
  BY <1>3, <1>4 DEF CallOf, CallRecords
<1>7. toolCall' = [toolCall EXCEPT ![c] = e]
  BY <1>1
<1> HIDE DEF s, new
<1>8. /\ e \in CallRecords /\ e.user = user /\ e.tool = t /\ e.within = d /\ e.state = s
      /\ e.approved = FALSE /\ e.risky = risky
  BY <1>5, <1>6, CallMoves
<1> HIDE DEF e, tools
<1>9. CallIs(e, toolsetFaults, agent, tools)
  BY <1>3, <1>5, <1>8 DEF CallIs
<1>10. Bound(e, toolCall) /\ Goes(toolCall[c], e)
  BY <1>2, <1>4, <1>8 DEF Bound, Goes
<1> QED
  BY <1>2, <1>7, <1>8, <1>9, <1>10, CallChanges DEF tools

LEMMA EndToolStep ==
  ASSUME ToolsetIs, NEW c \in ToolCalls, EndTool(c)
  PROVE  ToolsetIs'
<1> DEFINE tools == NewAgent(mcp).tools
           old == toolCall[c]
<1>1. PICK s \in {"failed", "done"} : toolCall' = [toolCall EXCEPT ![c].state = s]
  BY DEF EndTool
<1>2. toolCall' = [toolCall EXCEPT ![c] = [old EXCEPT !.state = s]]
  BY <1>1
<1>3. /\ old \in CallRecords /\ old # Absent /\ old.state = "running"
      /\ CallIs(old, toolsetFaults, agent, tools) /\ Bound(old, toolCall)
      /\ UNCHANGED <<skillFiles, agentFiles, mcp, agent, inventory, toolsetFaults>>
  BY DEF EndTool, Open, ToolsetIs, AllCalls
<1>4. s \in States \ {"waiting", "running"}
  BY DEF States
<1> DEFINE e == [old EXCEPT !.state = s]
<1> HIDE DEF tools, old
<1>5. CallIs(e, toolsetFaults, agent, tools)
  BY <1>3, <1>4, CallEnds
<1>6. /\ e \in CallRecords /\ e.tool = old.tool /\ e.within = old.within /\ e.state = s /\ e.task = old.task
  BY <1>3, <1>4, CallMoves
<1> HIDE DEF e
<1>7. Bound(e, toolCall) /\ Goes(old, e)
  BY <1>3, <1>4, <1>6 DEF Bound, Goes
<1> QED
  BY <1>2, <1>3, <1>5, <1>6, <1>7, CallChanges DEF tools, old, e

LEMMA StopAgentStep ==
  ASSUME ToolsetIs, NEW u \in Users, StopAgent(u)
  PROVE  ToolsetIs'
<1>1. /\ agent' = [agent EXCEPT ![u] = Absent]
      /\ UNCHANGED <<skillFiles, agentFiles, mcp, inventory, toolCall, toolsetFaults>>
      /\ \A c \in CallsOf(u) : ~ Open(c)
  BY DEF StopAgent
<1>2. agent' = [v \in Users |-> IF v = u THEN Absent ELSE agent[v]]
  BY <1>1 DEF ToolsetIs, AllAgents
<1>3. NewAgent(mcp)' = NewAgent(mcp)
  BY <1>1, SameAgent
<1>4. AllAgents(agent', toolsetFaults, NewAgent(mcp))
  <2>1. agent' = [v \in Users |-> agent'[v]]
    BY <1>2
  <2>2. ASSUME NEW v \in Users, agent'[v] # Absent
        PROVE  AgentIs(agent'[v]) /\ (toolsetFaults = 0 => agent'[v] = NewAgent(mcp))
    BY <1>2, <2>2 DEF ToolsetIs, AllAgents
  <2> QED
    BY <2>1, <2>2 DEF AllAgents
<1>5. Shown(inventory, agent')
  BY <1>2 DEF ToolsetIs, Shown
<1>6. ASSUME NEW c \in ToolCalls, toolCall[c] # Absent, toolCall[c].state = "running"
      PROVE  AgentIs(agent'[toolCall[c].user])
  <2>1. toolCall[c].user \in Users /\ AgentIs(agent[toolCall[c].user])
    BY <1>6 DEF ToolsetIs, AllCalls, CallIs, CallRecords
  <2>2. toolCall[c].user # u
    BY <1>1, <1>6 DEF CallsOf, Open
  <2> QED
    BY <1>2, <2>1, <2>2
<1>7. AllCalls(toolCall, toolsetFaults, agent', NewAgent(mcp).tools)
  BY <1>6, AgentsChange DEF ToolsetIs
<1> QED
  BY <1>1, <1>3, <1>4, <1>5, <1>7 DEF ToolsetIs
LEMMA ApproveStep ==
  ASSUME ToolsetIs, NEW c \in ToolCalls, NEW approves \in BOOLEAN, Approve(c, approves)
  PROVE  ToolsetIs'
<1> DEFINE now == NewAgent(mcp)
           tools == now.tools
           old == toolCall[c]
<1>1. /\ old # Absent /\ old.state = "waiting" /\ Build(old.user)
      /\ UNCHANGED <<skillFiles, agentFiles, mcp, toolsetFaults>>
  BY DEF Approve
<1>2. /\ old \in CallRecords /\ old.user \in Users
      /\ CallIs(old, toolsetFaults, agent, tools) /\ Bound(old, toolCall)
  BY <1>1 DEF ToolsetIs, AllCalls, CallRecords
<1>3. /\ AllAgents(agent', toolsetFaults, now) /\ AgentIs(now) /\ agent'[old.user] = now
      /\ inventory'.of \in Users \cup {Absent} /\ Shown(inventory', agent')
      /\ AllCalls(toolCall, toolsetFaults, agent', tools)
  BY <1>1, <1>2, BuildKeeps
<1>4. NewAgent(mcp)' = now
  BY <1>1, SameAgent
<1>5. \/ \E s \in {"missing", "rejected"} : toolCall' = [toolCall EXCEPT ![c].state = s]
      \/ \E t \in {u \in tools : u.name = old.tool.name} : \E b \in Dispatched(now, t) :
           toolCall' = [toolCall EXCEPT ![c] =
             [@ EXCEPT !.tool = t, !.approved = TRUE, !.state = b.state, !.task = b.task]]
  BY DEF Approve
<1>6. CallIs(old, toolsetFaults, agent', tools)
  BY <1>1, <1>3 DEF AllCalls
<1> HIDE DEF now, tools
<1>7. ASSUME NEW e \in CallRecords, CallIs(e, toolsetFaults, agent', tools), e.within = old.within,
             toolCall' = [toolCall EXCEPT ![c] = e]
      PROVE  ToolsetIs'
  <2>1. old.within = Absent
    BY <1>1, <1>2 DEF CallIs
  <2>2. Bound(e, toolCall) /\ Goes(old, e)
    BY <1>1, <1>7, <2>1 DEF Bound, Goes
  <2>3. AllCalls([toolCall EXCEPT ![c] = e], toolsetFaults, agent', tools)
    BY <1>3, <1>7, <2>2, OneCall
  <2> QED
    BY <1>1, <1>3, <1>4, <1>7, <2>3 DEF ToolsetIs, tools
<1>8. ASSUME NEW s \in {"missing", "rejected"}, toolCall' = [toolCall EXCEPT ![c].state = s]
      PROVE  ToolsetIs'
  <2> DEFINE e == [old EXCEPT !.state = s]
  <2>1. toolCall' = [toolCall EXCEPT ![c] = e]
    BY <1>8
  <2>2. s \in States \ {"waiting", "running"} /\ s # "done"
    BY DEF States
  <2>3. CallIs(e, toolsetFaults, agent', tools)
    BY <1>2, <1>6, <2>2, CallEnds
  <2>4. e \in CallRecords /\ e.within = old.within
    BY <1>2, <2>2, CallMoves
  <2> HIDE DEF e
  <2> QED
    BY <1>7, <2>1, <2>3, <2>4
<1>9. ASSUME NEW t \in tools, t.name = old.tool.name, NEW b \in Dispatched(now, t),
             toolCall' = [toolCall EXCEPT ![c] =
               [@ EXCEPT !.tool = t, !.approved = TRUE, !.state = b.state, !.task = b.task]]
      PROVE  ToolsetIs'
  <2> DEFINE e == [old EXCEPT !.tool = t, !.approved = TRUE, !.state = b.state, !.task = b.task]
  <2>1. toolCall' = [toolCall EXCEPT ![c] = e]
    BY <1>9
  <2>2. b.state \in {"running", "failed"} /\ b.task \in AgentFiles \cup {Absent}
    BY <1>3, DispatchedIs
  <2>3. tools \subseteq Tools /\ \A r, s \in tools : r.name = s.name => r = s
    BY <1>3 DEF AgentIs, tools
  <2>4. /\ e \in CallRecords /\ e.user = old.user /\ e.tool = t /\ e.asked = old.asked
        /\ e.within = old.within /\ e.state = b.state /\ e.approved = TRUE
    BY <1>2, <2>2, <2>3 DEF CallRecords
  <2> HIDE DEF e, old
  <2>5. old.asked = old.tool /\ old.within = Absent /\ (toolsetFaults = 0 => old.tool \in tools)
    BY <1>1, <1>2 DEF CallIs
  <2>6. ASSUME t # old.tool
             PROVE  toolsetFaults > 0 /\ {t, old.tool} \subseteq McpTools /\ t.name = old.tool.name
    <3>1. toolsetFaults # 0
      BY <1>9, <2>3, <2>5, <2>6
    <3>2. t \in Tools /\ old.tool \in Tools
      BY <1>2, <2>3 DEF CallRecords
    <3>3. t \in McpTools /\ old.tool \in McpTools
      BY <1>9, <2>6, <3>2, SameName
    <3>4. t.name = old.tool.name
      BY <1>9
    <3>5. toolsetFaults \in Nat
      BY DEF ToolsetIs
    <3> QED
      BY <3>1, <3>3, <3>4, <3>5
  <2>7. CallIs(e, toolsetFaults, agent', tools)
    <3>1. AgentIs(agent'[e.user])
      BY <1>3, <2>4
    <3> QED
      BY <2>2, <2>4, <2>5, <2>6, <3>1 DEF CallIs
  <2> QED
    BY <1>7, <2>1, <2>4, <2>7
<1> QED
  BY <1>5, <1>8, <1>9

(* The files change: what was asked need not be what there is any more.        *)
LEMMA EditFilesStep ==
  ASSUME ToolsetIs, EditFiles
  PROVE  ToolsetIs'
<1>1. /\ skillFiles' \subseteq SkillFiles /\ agentFiles' \subseteq AgentFiles
      /\ toolsetFaults' = toolsetFaults + 1 /\ UNCHANGED <<mcp, agent, inventory, toolCall>>
  BY DEF EditFiles, ToolsetIs
<1>2. toolsetFaults' \in Nat /\ toolsetFaults' # 0
  BY <1>1 DEF ToolsetIs
<1> DEFINE now == NewAgent(mcp)'
<1> HIDE DEF now
<1>3. AllCalls(toolCall, toolsetFaults', agent, now.tools)
  BY <1>1, FaultsCount DEF ToolsetIs
<1>4. AllAgents(agent, toolsetFaults', now)
  BY <1>2 DEF ToolsetIs, AllAgents
<1> QED
  BY <1>1, <1>2, <1>3, <1>4 DEF ToolsetIs, now

(* Calls that ran are lost, and those that wait are not.                      *)
LEMMA RestartStep ==
  ASSUME ToolsetIs, RestartServer
  PROVE  ToolsetIs'
<1>1. PICK got \in Yields : mcp' = Loaded(got) /\ inventory' = Inventory(Loaded(got), Absent)
  BY DEF RestartServer
<1>2. /\ toolsetFaults' = toolsetFaults + 1 /\ agent' = [u \in Users |-> Absent]
      /\ toolCall' = [c \in ToolCalls |-> IF Open(c) THEN [toolCall[c] EXCEPT !.state = "lost"]
                                          ELSE toolCall[c]]
      /\ UNCHANGED <<skillFiles, agentFiles>>
  BY DEF RestartServer
<1>3. mcp'.tools \in Seq(McpTools)
  BY <1>1, LoadedTools
<1>4. inventory'.of = Absent
  BY <1>1 DEF Inventory
<1>5. AllAgents(agent', toolsetFaults', NewAgent(mcp)') /\ Shown(inventory', agent')
  BY <1>2, <1>4 DEF AllAgents, Shown
<1>6. toolsetFaults' \in Nat /\ toolsetFaults' > 0 /\ toolsetFaults' # 0
  BY <1>2 DEF ToolsetIs
<1> DEFINE tools == NewAgent(mcp)'.tools
<1> HIDE DEF tools
<1>7. ASSUME NEW c \in ToolCalls
      PROVE  /\ toolCall'[c] \in CallRecords \cup {Absent}
             /\ toolCall[c] # Absent => toolCall'[c] # Absent
             /\ toolCall'[c] # Absent =>
                  /\ toolCall[c] # Absent /\ toolCall'[c].state # "running"
                  /\ toolCall'[c].state = "waiting" <=> toolCall[c].state = "waiting"
                  /\ toolCall'[c].state = "done" <=> toolCall[c].state = "done"
                  /\ toolCall'[c].tool = toolCall[c].tool /\ toolCall'[c].asked = toolCall[c].asked
                  /\ toolCall'[c].within = toolCall[c].within /\ toolCall'[c].task = toolCall[c].task
                  /\ toolCall'[c].approved = toolCall[c].approved /\ toolCall'[c].risky = toolCall[c].risky
  <2>1. CASE Open(c)
    <3> DEFINE e == [toolCall[c] EXCEPT !.state = "lost"]
    <3>1. toolCall'[c] = e /\ toolCall[c] # Absent /\ toolCall[c].state = "running"
      BY <1>2, <2>1 DEF Open
    <3>2. toolCall[c] \in CallRecords /\ "lost" \in States
      BY <3>1 DEF ToolsetIs, AllCalls, States
    <3>3. /\ e \in CallRecords /\ e.tool = toolCall[c].tool /\ e.asked = toolCall[c].asked
          /\ e.within = toolCall[c].within /\ e.state = "lost" /\ e.approved = toolCall[c].approved
          /\ e.risky = toolCall[c].risky /\ e.task = toolCall[c].task
      BY <3>2, CallMoves
    <3> HIDE DEF e
    <3> QED
      BY <3>1, <3>3, CallsAssumption
  <2>2. CASE ~ Open(c)
    BY <1>2, <2>2 DEF Open, ToolsetIs, AllCalls
  <2> QED
    BY <2>1, <2>2
<1>8. ASSUME NEW c \in ToolCalls, toolCall'[c] # Absent
      PROVE  CallIs(toolCall'[c], toolsetFaults', agent', tools) /\ Bound(toolCall'[c], toolCall')
  <2>1. toolCall[c] # Absent /\ CallIs(toolCall[c], toolsetFaults, agent, NewAgent(mcp).tools) /\ Bound(toolCall[c], toolCall)
    BY <1>7, <1>8 DEF ToolsetIs, AllCalls
  <2>2. CallIs(toolCall'[c], toolsetFaults', agent', tools)
    BY <1>6, <1>7, <1>8, <2>1 DEF CallIs
  <2>3. Bound(toolCall'[c], toolCall')
    BY <1>7, <1>8, <2>1 DEF Bound
  <2> QED
    BY <2>2, <2>3
<1>9. AllCalls(toolCall', toolsetFaults', agent', tools)
  <2>1. toolCall' = [c \in ToolCalls |-> toolCall'[c]]
    BY <1>2
  <2>2. toolCall' \in [ToolCalls -> CallRecords \cup {Absent}]
    BY <1>7, <2>1
  <2> QED
    BY <1>8, <2>2 DEF AllCalls
<1> QED
  BY <1>2, <1>3, <1>4, <1>5, <1>6, <1>9 DEF ToolsetIs, tools

LEMMA ToolsetFirst == ToolsetInit => ToolsetIs
<1> SUFFICES ASSUME ToolsetInit PROVE ToolsetIs
  OBVIOUS
<1>1. mcp.tools \in Seq(McpTools)
  BY LoadedTools DEF ToolsetInit
<1>2. inventory.of = Absent
  BY DEF ToolsetInit, Inventory
<1>3. /\ skillFiles \subseteq SkillFiles /\ agentFiles \subseteq AgentFiles /\ toolsetFaults \in Nat
      /\ agent = [u \in Users |-> Absent] /\ toolCall = [c \in ToolCalls |-> Absent]
  BY DEF ToolsetInit
<1>4. AllAgents(agent, toolsetFaults, NewAgent(mcp)) /\ Shown(inventory, agent)
  BY <1>2, <1>3 DEF AllAgents, Shown
<1>5. AllCalls(toolCall, toolsetFaults, agent, NewAgent(mcp).tools)
  BY <1>3 DEF AllCalls
<1> QED
  BY <1>1, <1>2, <1>3, <1>4, <1>5 DEF ToolsetIs

LEMMA ToolsetStep ==
  ASSUME ToolsetIs, [ToolsetNext]_toolsetVars
  PROVE  ToolsetIs'
<1>1. ASSUME UNCHANGED toolsetVars PROVE ToolsetIs'
  <2>1. UNCHANGED <<skillFiles, agentFiles, mcp, agent, inventory, toolCall, toolsetFaults>>
    BY <1>1 DEF toolsetVars
  <2>2. NewAgent(mcp)' = NewAgent(mcp)
    BY <2>1, SameAgent
  <2> QED
    BY <2>1, <2>2 DEF ToolsetIs
<1> QED
  BY <1>1, StartAgentStep, StopAgentStep, CallToolStep, EndToolStep, ApproveStep, CallInsideStep,
     EditFilesStep, RestartStep
  DEF ToolsetNext

LEMMA ToolsetShown == ToolsetIs => ToolsetInv
<1> SUFFICES ASSUME ToolsetIs PROVE ToolsetInv
  OBVIOUS
<1>1. BuiltInsKept
  BY DEF ToolsetIs, AllAgents, AgentIs, HasBuiltIns, AtOnePlace, BuiltInsKept
<1>2. ASSUME NEW c \in ToolCalls, toolCall[c] # Absent
      PROVE  CallIs(toolCall[c], toolsetFaults, agent, NewAgent(mcp).tools) /\ Bound(toolCall[c], toolCall)
  BY <1>2 DEF ToolsetIs, AllCalls
<1>3. SpecialistIsBound
  BY <1>2, LocalNames DEF SpecialistIsBound, Bound
<1>4. NothingUnapproved
  BY <1>2 DEF NothingUnapproved, Executed, CallIs
<1>5. RunsWhatWasAsked
  BY <1>2 DEF RunsWhatWasAsked, Executed, CallIs
<1>6. InventoryIsLatest
  BY DEF InventoryIsLatest, ToolsetIs, Shown, InventoryIs
<1> QED
  BY <1>1, <1>3, <1>4, <1>5, <1>6 DEF ToolsetInv

(* Whatever skill files, specialists and servers there are and whenever they     *)
(* change: every agent has each built-in tool and hook and of each name one      *)
(* tool; a specialist is bound by its definition; no call that needs an approval *)
(* runs without one, and what runs after one is what was asked, but for servers  *)
(* whose tools have one name; and the page shows the agent that was built last.  *)
THEOREM AgentsAreWhole == ToolsetSpec => []ToolsetInv
<1>1. ToolsetIs /\ [ToolsetNext]_toolsetVars => ToolsetIs'
  BY ToolsetStep
<1> QED
  BY <1>1, ToolsetFirst, ToolsetShown, PTL DEF ToolsetSpec

-----------------------------------------------------------------------------
(* The blocks there are.                                                     *)
BlockKeys == {"run_budget", "skills", "session_summary", "active_memory", "current_time",
              "schedule_guidance", "cron_execution", "evidence_ledger", "tool_policy"}

Blocks == [key : BlockKeys, text : Nat]

LEMMA KindsAre ==
  /\ Kinds["run_budget"].priority = 800
  /\ Kinds["run_budget"].limit = 1200
  /\ Heading("run_budget") = 16
  /\ Kinds["skills"].priority = 800 /\ Kinds["skills"].limit = 4000 /\ Heading("skills") = 20
  /\ Kinds["session_summary"].priority = 200 /\ Kinds["session_summary"].limit = 800
  /\ Heading("session_summary") = 21
  /\ Kinds["active_memory"].priority = 500 /\ Kinds["active_memory"].limit = 1000
  /\ Heading("active_memory") = 19
  /\ Kinds["current_time"].priority = 800 /\ Kinds["current_time"].limit = 1200
  /\ Heading("current_time") = 18
  /\ Kinds["schedule_guidance"].priority = 1000 /\ Kinds["schedule_guidance"].limit = 4500
  /\ Heading("schedule_guidance") = 23
  /\ Kinds["cron_execution"].priority = 1000 /\ Kinds["cron_execution"].limit = 3000
  /\ Heading("cron_execution") = 20
  /\ Kinds["evidence_ledger"].priority = 800 /\ Kinds["evidence_ledger"].limit = 6000
  /\ Heading("evidence_ledger") = 21
  /\ Kinds["tool_policy"].priority = 1000 /\ Kinds["tool_policy"].limit = 2000
  /\ Heading("tool_policy") = 17
  BY DEF Kinds, Heading

Priorities == {1000, 800, 500, 200}

LEMMA KindIs ==
  ASSUME NEW key \in BlockKeys
  PROVE  /\ Kinds[key].priority \in Priorities /\ Kinds[key].limit \in Nat \ {0}
         /\ Heading(key) \in Nat /\ (Critical(key) <=> Kinds[key].priority = 1000)
  BY KindsAre DEF BlockKeys, Priorities, Critical

(* Each block is there once.                                                 *)
OneEach(list) == \A i, j \in 1..Len(list) : list[i].key = list[j].key => i = j

LEMMA BlockParts ==
  ASSUME NEW b \in Blocks
  PROVE  b.key \in BlockKeys /\ b.text \in Nat
  BY DEF Blocks

LEMMA TextIs ==
  ASSUME NEW key \in BlockKeys, NEW n \in Nat
  PROVE  Text(key, n) \in Blocks /\ Text(key, n).key = key /\ Text(key, n).text = n
  BY DEF Blocks, Text

LEMMA TextAt ==
  ASSUME NEW list, OneEach(list), NEW i \in 1..Len(list)
  PROVE  Has(list, list[i].key) /\ TextOf(list, list[i].key) = list[i].text
<1> DEFINE key == list[i].key
           j == CHOOSE j \in 1..Len(list) : list[j].key = key
<1>1. Has(list, key)
  BY DEF Has
<1>2. j \in 1..Len(list) /\ list[j].key = key
  OBVIOUS
<1>3. TextOf(list, key) = list[j].text
  BY <1>1 DEF TextOf
<1>4. j = i
  <2> HIDE DEF j
  <2> QED
    BY <1>2 DEF OneEach
<1> QED
  BY <1>1, <1>3, <1>4

LEMMA TextNone ==
  ASSUME NEW list, NEW key, ~ Has(list, key)
  PROVE  TextOf(list, key) = 0
  BY DEF TextOf

LEMMA TextNat ==
  ASSUME NEW list \in Seq(Blocks), OneEach(list), NEW key
  PROVE  TextOf(list, key) \in Nat
<1>1. CASE Has(list, key)
  <2>1. PICK i \in 1..Len(list) : list[i].key = key
    BY <1>1 DEF Has
  <2>2. list[i] \in Blocks
    OBVIOUS
  <2> QED
    BY <2>1, <2>2, TextAt, BlockParts
<1> QED
  BY <1>1, TextNone

-----------------------------------------------------------------------------
(* The blocks of a list that are kept.                                       *)
KeepsBySteps(kept, list, places, S) ==
  /\ kept[0] = <<>> /\ \A n \in 0..Len(list) : kept[n] \in Seq(S)
  /\ \A n \in 1..Len(list) :
       kept[n] = IF n \in places THEN Append(kept[n - 1], list[n]) ELSE kept[n - 1]
  /\ Only(list, places) = kept[Len(list)]

(* Such a function there is: the recursion of Only is defined.                  *)
LEMMA OnlySteps ==
  ASSUME NEW S, NEW list \in Seq(S), NEW places
  PROVE  \E kept : KeepsBySteps(kept, list, places, S)
<1> DEFINE N == Len(list)
           SS == Seq(S)
           Defined(f) == f = [n \in 0..N |->
                                IF n = 0 THEN <<>>
                                ELSE IF n \in places THEN Append(f[n - 1], list[n]) ELSE f[n - 1]]
           kept == CHOOSE f : Defined(f)
           G == [s \in SS |-> [n \in 1..N |-> IF n \in places THEN Append(s, list[n]) ELSE s]]
<1>1. N \in Nat /\ <<>> \in SS
  OBVIOUS
<1>2. ASSUME NEW s \in SS, NEW n \in 1..N
      PROVE  (IF n \in places THEN Append(s, list[n]) ELSE s) \in SS
  OBVIOUS
<1> HIDE DEF SS, N
<1>3. \A s \in SS, n \in 1..N : G[s][n] \in SS
  BY <1>2
<1>4. PICK g : Steps(g, N, SS, <<>>, G)
  <2> HIDE DEF G
  <2> QED
    BY <1>1, <1>3, StepsExist
<1> DEFINE h == [n \in 0..N |-> g[n]]
<1>5. Defined(h)
  <2>1. ASSUME NEW n \in 1..N
        PROVE  h[n] = IF n \in places THEN Append(h[n - 1], list[n]) ELSE h[n - 1]
    <3>1. n - 1 \in 0..N /\ n \in 0..N
      BY <1>1
    <3>2. g[n - 1] \in SS
      BY <1>4, <3>1 DEF Steps
    <3>3. g[n] = IF n \in places THEN Append(g[n - 1], list[n]) ELSE g[n - 1]
      BY <1>4, <3>2 DEF Steps
    <3> QED
      BY <3>1, <3>3
  <2>2. h[0] = <<>>
    BY <1>1, <1>4 DEF Steps
  <2>3. \A n \in 0..N : n = 0 \/ n \in 1..N
    BY <1>1
  <2>4. h = [n \in 0..N |-> h[n]]
    OBVIOUS
  <2> HIDE DEF h
  <2> QED
    BY <2>1, <2>2, <2>3, <2>4
<1>6. Defined(kept)
  BY <1>5
<1>7. Only(list, places) = kept[N]
  BY DEF Only, N
<1> HIDE DEF kept, G
<1>8. /\ kept[0] = <<>>
      /\ \A n \in 1..N : kept[n] = IF n \in places THEN Append(kept[n - 1], list[n]) ELSE kept[n - 1]
  <2>1. 0 \in 0..N /\ \A n \in 1..N : n \in 0..N /\ n # 0
    BY <1>1
  <2> QED
    BY <1>6, <2>1
<1>9. \A n \in 0..N : n \in {m \in 0..N : kept[m] \in SS}
  <2> DEFINE T == {m \in 0..N : kept[m] \in SS}
  <2>1. 0 \in T
    BY <1>1, <1>8
  <2>2. ASSUME NEW n \in 1..N, n - 1 \in T PROVE n \in T
    BY <1>1, <1>2, <1>8, <2>2
  <2>3. \A n \in 1..N : n - 1 \in T => n \in T
    BY <2>2
  <2> HIDE DEF T
  <2>4. \A n \in 0..N : n \in T
    BY <1>1, <2>1, <2>3, Reaches
  <2> QED
    BY <2>4 DEF T
<1>10. \A n \in 0..Len(list) : kept[n] \in Seq(S)
  BY <1>9 DEF SS, N
<1>11. \A n \in 1..Len(list) :
         kept[n] = IF n \in places THEN Append(kept[n - 1], list[n]) ELSE kept[n - 1]
  BY <1>8 DEF N
<1>12. kept[0] = <<>> /\ Only(list, places) = kept[Len(list)]
  BY <1>7, <1>8 DEF N
<1> HIDE DEF N, SS
<1>13. KeepsBySteps(kept, list, places, S)
  BY <1>10, <1>11, <1>12 DEF KeepsBySteps
<1> QED
  BY <1>13

(* What is kept of the first blocks of a list.                               *)
KeptOf(s, n, list, places) ==
  /\ \A a \in 1..Len(s) : \E i \in 1..n : i \in places /\ s[a] = list[i]
  /\ \A a, b \in 1..Len(s) : a < b => \E i, j \in 1..n : i < j /\ s[a] = list[i] /\ s[b] = list[j]
  /\ \A i \in 1..n : i \in places => \E a \in 1..Len(s) : s[a] = list[i]

LEMMA KeptMore ==
  ASSUME NEW S, NEW list \in Seq(S), NEW places, NEW n \in 1..Len(list), NEW s \in Seq(S),
         KeptOf(s, n - 1, list, places)
  PROVE  KeptOf(IF n \in places THEN Append(s, list[n]) ELSE s, n, list, places)
<1>1. n \in Nat /\ n - 1 \in Nat /\ \A i \in 1..n : i = n \/ i \in 1..n - 1
  OBVIOUS
<1>2. \A i \in 1..n - 1 : i \in 1..n /\ i < n
  OBVIOUS
<1>3. CASE n \notin places
  <2>1. \A a \in 1..Len(s) : \E i \in 1..n : i \in places /\ s[a] = list[i]
    BY <1>2 DEF KeptOf
  <2>2. \A a, b \in 1..Len(s) : a < b => \E i, j \in 1..n : i < j /\ s[a] = list[i] /\ s[b] = list[j]
    BY <1>2 DEF KeptOf
  <2>3. \A i \in 1..n : i \in places => \E a \in 1..Len(s) : s[a] = list[i]
    BY <1>1, <1>3 DEF KeptOf
  <2> QED
    BY <1>3, <2>1, <2>2, <2>3 DEF KeptOf
<1>4. CASE n \in places
  <2> DEFINE r == Append(s, list[n])
             m == Len(s)
  <2>1. /\ m \in Nat /\ Len(r) = m + 1 /\ r[m + 1] = list[n]
        /\ \A a \in 1..m : r[a] = s[a]
    OBVIOUS
  <2> HIDE DEF r, m
  <2>2. \A a \in 1..m + 1 : a = m + 1 \/ a \in 1..m
    BY <2>1
  <2>3. \A a \in 1..m : a \in 1..m + 1 /\ a < m + 1
    BY <2>1
  <2>4. ASSUME NEW a \in 1..m + 1 PROVE \E i \in 1..n : i \in places /\ r[a] = list[i]
    <3>1. CASE a = m + 1
      <4>1. n \in 1..n
        BY <1>1
      <4> QED
        BY <1>4, <2>1, <3>1, <4>1
    <3>2. CASE a \in 1..m
      <4>1. PICK i \in 1..n - 1 : i \in places /\ s[a] = list[i]
        BY <3>2 DEF KeptOf, m
      <4> QED
        BY <1>2, <2>1, <3>2, <4>1
    <3> QED
      BY <2>2, <3>1, <3>2
  <2>5. ASSUME NEW a \in 1..m + 1, NEW b \in 1..m + 1, a < b
        PROVE  \E i, j \in 1..n : i < j /\ r[a] = list[i] /\ r[b] = list[j]
    <3>1. a \in 1..m
      <4>1. a \in Int /\ b \in Int /\ 1 <= a /\ b <= m + 1
        BY <2>1
      <4> QED
        BY <2>1, <2>5, <4>1
    <3>2. CASE b \in 1..m
      <4>1. PICK i, j \in 1..n - 1 : i < j /\ s[a] = list[i] /\ s[b] = list[j]
        BY <2>5, <3>1, <3>2 DEF KeptOf, m
      <4> QED
        BY <1>2, <2>1, <3>1, <3>2, <4>1
    <3>3. CASE b = m + 1
      <4>1. PICK i \in 1..n - 1 : s[a] = list[i]
        BY <3>1 DEF KeptOf, m
      <4> QED
        BY <1>1, <1>2, <2>1, <3>1, <3>3, <4>1
    <3> QED
      BY <2>2, <3>2, <3>3
  <2>6. ASSUME NEW i \in 1..n, i \in places PROVE \E a \in 1..m + 1 : r[a] = list[i]
    <3>1. CASE i = n
      BY <2>1, <3>1
    <3>2. CASE i \in 1..n - 1
      <4>1. PICK a \in 1..m : s[a] = list[i]
        BY <2>6, <3>2 DEF KeptOf, m
      <4> QED
        BY <2>1, <2>3, <4>1
    <3> QED
      BY <1>1, <3>1, <3>2
  <2>7. KeptOf(r, n, list, places)
    <3>1. \A a \in 1..Len(r) : \E i \in 1..n : i \in places /\ r[a] = list[i]
      BY <2>1, <2>4
    <3>2. \A a, b \in 1..Len(r) : a < b => \E i, j \in 1..n : i < j /\ r[a] = list[i] /\ r[b] = list[j]
      <4> SUFFICES ASSUME NEW a \in 1..Len(r), NEW b \in 1..Len(r), a < b
                   PROVE  \E i, j \in 1..n : i < j /\ r[a] = list[i] /\ r[b] = list[j]
        OBVIOUS
      <4>1. a \in 1..m + 1 /\ b \in 1..m + 1
        BY <2>1
      <4> QED
        BY <2>5, <4>1
    <3>3. \A i \in 1..n : i \in places => \E a \in 1..Len(r) : r[a] = list[i]
      BY <2>1, <2>6
    <3> QED
      BY <3>1, <3>2, <3>3 DEF KeptOf
  <2> QED
    BY <1>4, <2>7 DEF r
<1> QED
  BY <1>3, <1>4

LEMMA OnlyKept ==
  ASSUME NEW S, NEW list \in Seq(S), NEW places
  PROVE  Only(list, places) \in Seq(S) /\ KeptOf(Only(list, places), Len(list), list, places)
<1> DEFINE N == Len(list)
<1>0. PICK kept : KeepsBySteps(kept, list, places, S)
  BY OnlySteps
<1>1. /\ kept[0] = <<>> /\ \A n \in 0..N : kept[n] \in Seq(S)
      /\ \A n \in 1..N :
           kept[n] = IF n \in places THEN Append(kept[n - 1], list[n]) ELSE kept[n - 1]
      /\ Only(list, places) = kept[N]
  BY <1>0 DEF KeepsBySteps
<1> DEFINE T == {n \in 0..N : KeptOf(kept[n], n, list, places)}
<1>2. N \in Nat /\ \A n \in 1..N : n \in 0..N /\ n - 1 \in 0..N
  OBVIOUS
<1>3. 0 \in T
  <2>1. Len(kept[0]) = 0 /\ 0 \in 0..N
    BY <1>1, <1>2
  <2>2. KeptOf(kept[0], 0, list, places)
    BY <2>1 DEF KeptOf
  <2> QED
    BY <2>1, <2>2
<1>4. ASSUME NEW n \in 1..N, n - 1 \in T PROVE n \in T
  <2>1. kept[n - 1] \in Seq(S) /\ KeptOf(kept[n - 1], n - 1, list, places)
    BY <1>1, <1>2, <1>4
  <2>2. KeptOf(IF n \in places THEN Append(kept[n - 1], list[n]) ELSE kept[n - 1], n, list, places)
    BY <2>1, KeptMore
  <2>3. KeptOf(kept[n], n, list, places)
    BY <1>1, <2>2
  <2> QED
    BY <1>2, <2>3
<1>5. N \in T
  <2>1. \A n \in 1..N : n - 1 \in T => n \in T
    BY <1>4
  <2>2. N \in 0..N /\ N \in Nat
    BY <1>2
  <2> HIDE DEF T, N
  <2> QED
    BY <1>3, <2>1, <2>2, Reaches
<1> QED
  BY <1>1, <1>2, <1>5

LEMMA OnlyParts ==
  ASSUME NEW list \in Seq(Blocks), OneEach(list), NEW places
  PROVE  LET s == Only(list, places) IN
         /\ s \in Seq(Blocks) /\ OneEach(s)
         /\ \A a \in 1..Len(s) : \E i \in 1..Len(list) : i \in places /\ s[a] = list[i]
         /\ \A i \in 1..Len(list) : i \in places => \E a \in 1..Len(s) : s[a] = list[i]
<1> DEFINE s == Only(list, places)
<1>1. s \in Seq(Blocks) /\ KeptOf(s, Len(list), list, places)
  BY OnlyKept
<1> HIDE DEF s
<1>2. Len(s) \in Nat /\ Len(list) \in Nat
  BY <1>1
<1>3. ASSUME NEW a \in 1..Len(s), NEW b \in 1..Len(s), a < b, s[a].key = s[b].key PROVE FALSE
  <2>1. PICK i, j \in 1..Len(list) : i < j /\ s[a] = list[i] /\ s[b] = list[j]
    BY <1>1, <1>3 DEF KeptOf
  <2>2. i = j
    BY <1>3, <2>1 DEF OneEach
  <2> QED
    BY <1>2, <2>1, <2>2
<1>4. ASSUME NEW a \in 1..Len(s), NEW b \in 1..Len(s), s[a].key = s[b].key PROVE a = b
  <2>1. ~ (a < b) /\ ~ (b < a)
    BY <1>3, <1>4
  <2> QED
    BY <1>2, <2>1
<1>5. OneEach(s)
  BY <1>4 DEF OneEach
<1> QED
  BY <1>1, <1>5 DEF KeptOf, s

(* Two lists without a block in common, one after the other.                  *)
Apart(s, t) == \A i \in 1..Len(s), j \in 1..Len(t) : s[i].key # t[j].key

LEMMA JoinedParts ==
  ASSUME NEW s \in Seq(Blocks), NEW t \in Seq(Blocks), OneEach(s), OneEach(t), Apart(s, t)
  PROVE  LET u == s \o t IN
         /\ u \in Seq(Blocks) /\ OneEach(u) /\ Len(u) = Len(s) + Len(t)
         /\ \A i \in 1..Len(s) : u[i] = s[i]
         /\ \A i \in 1..Len(t) : u[i + Len(s)] = t[i]
         /\ \A i \in 1..Len(u) : i \in 1..Len(s) \/ (i - Len(s) \in 1..Len(t) /\ u[i] = t[i - Len(s)])
         /\ \A key : Has(u, key) <=> Has(s, key) \/ Has(t, key)
         /\ \A key : TextOf(u, key) = IF Has(s, key) THEN TextOf(s, key) ELSE TextOf(t, key)
<1> DEFINE u == s \o t
           m == Len(s)
           n == Len(t)
<1>1. /\ u \in Seq(Blocks) /\ Len(u) = m + n /\ m \in Nat /\ n \in Nat
      /\ \A i \in 1..m : u[i] = s[i]
      /\ \A i \in 1..n : u[i + m] = t[i]
  OBVIOUS
<1> HIDE DEF u
<1>2. \A i \in 1..Len(u) : i \in 1..m \/ (i - m \in 1..n /\ (i - m) + m = i)
  BY <1>1
<1>3. \A i \in 1..Len(u) : i \in 1..m \/ (i - m \in 1..n /\ u[i] = t[i - m])
  <2> TAKE i \in 1..Len(u)
  <2>1. CASE i \in 1..m
    BY <2>1
  <2>2. CASE i - m \in 1..n /\ (i - m) + m = i
    <3>1. u[(i - m) + m] = t[i - m]
      BY <1>1, <2>2
    <3> QED
      BY <2>2, <3>1
  <2> QED
    BY <1>2, <2>1, <2>2
<1>4. /\ \A i \in 1..m : i \in 1..Len(u)
      /\ \A i \in 1..n : i + m \in 1..Len(u)
  BY <1>1
<1>5. ASSUME NEW i \in 1..Len(u), NEW j \in 1..Len(u), u[i].key = u[j].key PROVE i = j
  <2>1. CASE i \in 1..m /\ j \in 1..m
    BY <1>1, <1>5, <2>1 DEF OneEach
  <2>2. CASE i - m \in 1..n /\ u[i] = t[i - m] /\ j - m \in 1..n /\ u[j] = t[j - m]
    <3>1. i - m = j - m
      BY <1>5, <2>2 DEF OneEach
    <3> QED
      BY <1>1, <3>1
  <2>3. CASE i \in 1..m /\ j - m \in 1..n /\ u[j] = t[j - m]
    BY <1>1, <1>5, <2>3 DEF Apart
  <2>4. CASE j \in 1..m /\ i - m \in 1..n /\ u[i] = t[i - m]
    BY <1>1, <1>5, <2>4 DEF Apart
  <2> QED
    BY <1>3, <2>1, <2>2, <2>3, <2>4
<1>6. OneEach(u)
  BY <1>5 DEF OneEach
<1>7. ASSUME NEW key PROVE Has(u, key) <=> Has(s, key) \/ Has(t, key)
  <2>1. ASSUME Has(u, key) PROVE Has(s, key) \/ Has(t, key)
    <3>1. PICK i \in 1..Len(u) : u[i].key = key
      BY <2>1 DEF Has
    <3>2. CASE i \in 1..m
      <4>1. s[i].key = key
        BY <1>1, <3>1, <3>2
      <4> QED
        BY <3>2, <4>1 DEF Has
    <3>3. CASE i - m \in 1..n /\ u[i] = t[i - m]
      BY <3>1, <3>3 DEF Has
    <3> QED
      BY <1>3, <3>2, <3>3
  <2>2. ASSUME Has(s, key) PROVE Has(u, key)
    <3>1. PICK i \in 1..m : s[i].key = key
      BY <2>2 DEF Has
    <3>2. i \in 1..Len(u) /\ u[i].key = key
      BY <1>1, <1>4, <3>1
    <3> QED
      BY <3>2 DEF Has
  <2>3. ASSUME Has(t, key) PROVE Has(u, key)
    <3>1. PICK i \in 1..n : t[i].key = key
      BY <2>3 DEF Has
    <3>2. i + m \in 1..Len(u) /\ u[i + m].key = key
      BY <1>1, <1>4, <3>1
    <3> QED
      BY <3>2 DEF Has
  <2> QED
    BY <2>1, <2>2, <2>3
<1>8. ASSUME NEW key PROVE TextOf(u, key) = IF Has(s, key) THEN TextOf(s, key) ELSE TextOf(t, key)
  <2>1. CASE Has(s, key)
    <3>1. PICK i \in 1..m : s[i].key = key
      BY <2>1 DEF Has
    <3>2. TextOf(s, key) = s[i].text
      BY <3>1, TextAt
    <3>3. u[i].key = key /\ i \in 1..Len(u) /\ u[i].text = s[i].text
      BY <1>1, <1>4, <3>1
    <3>4. TextOf(u, key) = u[i].text
      BY <1>6, <3>3, TextAt
    <3> QED
      BY <2>1, <3>2, <3>3, <3>4
  <2>2. CASE ~ Has(s, key) /\ Has(t, key)
    <3>1. PICK i \in 1..n : t[i].key = key
      BY <2>2 DEF Has
    <3>2. TextOf(t, key) = t[i].text
      BY <3>1, TextAt
    <3>3. u[i + m].key = key /\ i + m \in 1..Len(u) /\ u[i + m].text = t[i].text
      BY <1>1, <1>4, <3>1
    <3>4. TextOf(u, key) = u[i + m].text
      BY <1>6, <3>3, TextAt
    <3> QED
      BY <2>2, <3>2, <3>3, <3>4
  <2>3. CASE ~ Has(s, key) /\ ~ Has(t, key)
    BY <1>7, <2>3, TextNone
  <2> QED
    BY <2>1, <2>2, <2>3
<1> QED
  BY <1>1, <1>3, <1>6, <1>7, <1>8 DEF u

-----------------------------------------------------------------------------
(* Texts that are put.                                                       *)
AllFull(list) == \A i \in 1..Len(list) : list[i].text # 0

LEMMA FullHas ==
  ASSUME NEW list \in Seq(Blocks), OneEach(list), AllFull(list), NEW key
  PROVE  Has(list, key) <=> TextOf(list, key) # 0
<1>1. CASE Has(list, key)
  <2>1. PICK i \in 1..Len(list) : list[i].key = key
    BY <1>1 DEF Has
  <2> QED
    BY <1>1, <2>1, TextAt DEF AllFull
<1> QED
  BY <1>1, TextNone

LEMMA OnlyText ==
  ASSUME NEW list \in Seq(Blocks), OneEach(list), NEW places, NEW i \in 1..Len(list)
  PROVE  LET s == Only(list, places) IN
         /\ i \in places => Has(s, list[i].key) /\ TextOf(s, list[i].key) = list[i].text
         /\ i \notin places => ~ Has(s, list[i].key)
<1> DEFINE s == Only(list, places)
<1>1. /\ s \in Seq(Blocks) /\ OneEach(s)
      /\ \A a \in 1..Len(s) : \E j \in 1..Len(list) : j \in places /\ s[a] = list[j]
      /\ \A j \in 1..Len(list) : j \in places => \E a \in 1..Len(s) : s[a] = list[j]
  BY OnlyParts
<1> HIDE DEF s
<1>2. ASSUME i \in places PROVE Has(s, list[i].key) /\ TextOf(s, list[i].key) = list[i].text
  <2>1. PICK a \in 1..Len(s) : s[a] = list[i]
    BY <1>1, <1>2
  <2> QED
    BY <1>1, <2>1, TextAt
<1>3. ASSUME Has(s, list[i].key) PROVE i \in places
  <2>1. PICK a \in 1..Len(s) : s[a].key = list[i].key
    BY <1>3 DEF Has
  <2>2. PICK j \in 1..Len(list) : j \in places /\ s[a] = list[j]
    BY <1>1
  <2>3. i = j
    BY <2>1, <2>2 DEF OneEach
  <2> QED
    BY <2>2, <2>3
<1> QED
  BY <1>2, <1>3 DEF s

LEMMA OnlyHas ==
  ASSUME NEW list \in Seq(Blocks), OneEach(list), NEW places, NEW key, ~ Has(list, key)
  PROVE  ~ Has(Only(list, places), key)
<1>1. \A a \in 1..Len(Only(list, places)) : \E j \in 1..Len(list) : Only(list, places)[a] = list[j]
  BY OnlyParts
<1> QED
  BY <1>1 DEF Has

LEMMA UpdatedParts ==
  ASSUME NEW list \in Seq(Blocks), OneEach(list), NEW texts \in Seq(Blocks), OneEach(texts)
  PROVE  LET u == Updated(list, texts) IN
         /\ u \in Seq(Blocks) /\ OneEach(u) /\ Len(u) = Len(list)
         /\ \A i \in 1..Len(list) :
              /\ u[i].key = list[i].key
              /\ u[i].text = IF Has(texts, list[i].key) THEN TextOf(texts, list[i].key)
                             ELSE list[i].text
<1> DEFINE u == Updated(list, texts)
           v(i) == IF Has(texts, list[i].key)
                   THEN Text(list[i].key, TextOf(texts, list[i].key)) ELSE list[i]
<1>1. ASSUME NEW i \in 1..Len(list)
      PROVE  /\ v(i) \in Blocks /\ v(i).key = list[i].key
             /\ v(i).text = IF Has(texts, list[i].key) THEN TextOf(texts, list[i].key)
                            ELSE list[i].text
  <2>1. list[i] \in Blocks
    OBVIOUS
  <2>2. list[i].key \in BlockKeys /\ TextOf(texts, list[i].key) \in Nat
    BY <2>1, BlockParts, TextNat
  <2> QED
    BY <2>1, <2>2, TextIs
<1>2. u = [i \in 1..Len(list) |-> v(i)]
  BY DEF Updated
<1> HIDE DEF u, v
<1>3. Len(list) \in Nat
  OBVIOUS
<1>4. u \in Seq(Blocks) /\ Len(u) = Len(list) /\ \A i \in 1..Len(list) : u[i] = v(i)
  BY <1>1, <1>2, <1>3
<1>5. OneEach(u)
  BY <1>1, <1>4 DEF OneEach
<1> QED
  BY <1>1, <1>4, <1>5 DEF u

LEMMA PutParts ==
  ASSUME NEW list \in Seq(Blocks), OneEach(list), AllFull(list),
         NEW texts \in Seq(Blocks), OneEach(texts)
  PROVE  LET p == Put(list, texts) IN
         /\ p \in Seq(Blocks) /\ OneEach(p) /\ AllFull(p)
         /\ \A key : TextOf(p, key) = IF Has(texts, key) THEN TextOf(texts, key)
                                      ELSE TextOf(list, key)
<1> DEFINE u == Updated(list, texts)
           news == {i \in Full(texts) : ~ Has(list, texts[i].key)}
           s == Only(u, Full(u))
           t == Only(texts, news)
           p == s \o t
<1>0. Put(list, texts) = p
  BY DEF Put, Added
<1>1. /\ u \in Seq(Blocks) /\ OneEach(u) /\ Len(u) = Len(list)
      /\ \A i \in 1..Len(list) :
           /\ u[i].key = list[i].key
           /\ u[i].text = IF Has(texts, list[i].key) THEN TextOf(texts, list[i].key) ELSE list[i].text
  BY UpdatedParts
<1>a. \A i \in 1..Len(u) : i \in Full(u) <=> u[i].text # 0
  BY DEF Full
<1>b. \A i \in 1..Len(texts) : i \in news <=> texts[i].text # 0 /\ ~ Has(list, texts[i].key)
  BY DEF Full
<1> HIDE DEF u, news
<1>2. /\ s \in Seq(Blocks) /\ OneEach(s)
      /\ \A a \in 1..Len(s) : \E i \in 1..Len(u) : i \in Full(u) /\ s[a] = u[i]
  BY <1>1, OnlyParts
<1>3. /\ t \in Seq(Blocks) /\ OneEach(t)
      /\ \A a \in 1..Len(t) : \E i \in 1..Len(texts) : i \in news /\ t[a] = texts[i]
  BY OnlyParts
<1>4. ASSUME NEW i \in 1..Len(u)
      PROVE  /\ u[i].text # 0 => Has(s, u[i].key) /\ TextOf(s, u[i].key) = u[i].text
             /\ u[i].text = 0 => ~ Has(s, u[i].key)
  <2>1. /\ i \in Full(u) => Has(s, u[i].key) /\ TextOf(s, u[i].key) = u[i].text
        /\ i \notin Full(u) => ~ Has(s, u[i].key)
    BY <1>1, OnlyText
  <2> QED
    BY <1>a, <2>1
<1>5. ASSUME NEW i \in 1..Len(texts)
      PROVE  /\ i \in news => Has(t, texts[i].key) /\ TextOf(t, texts[i].key) = texts[i].text
             /\ i \notin news => ~ Has(t, texts[i].key)
  BY OnlyText
<1>6. \A key : ~ Has(u, key) => ~ Has(s, key)
  BY <1>1, OnlyHas
<1>7. \A key : ~ Has(texts, key) => ~ Has(t, key)
  BY OnlyHas
<1>8. \A key : Has(u, key) <=> Has(list, key)
  BY <1>1 DEF Has
<1> HIDE DEF s, t
<1>9. ASSUME NEW i \in 1..Len(s) PROVE Has(list, s[i].key) /\ s[i].text # 0
  <2>1. PICK j \in 1..Len(u) : j \in Full(u) /\ s[i] = u[j]
    BY <1>2
  <2> QED
    BY <1>8, <1>a, <2>1 DEF Has
<1>10. ASSUME NEW i \in 1..Len(t) PROVE ~ Has(list, t[i].key) /\ t[i].text # 0
  <2>1. PICK j \in 1..Len(texts) : j \in news /\ t[i] = texts[j]
    BY <1>3
  <2> QED
    BY <1>b, <2>1
<1>11. Apart(s, t)
  BY <1>9, <1>10 DEF Apart
<1>12. /\ p \in Seq(Blocks) /\ OneEach(p)
       /\ \A i \in 1..Len(s) : p[i] = s[i]
       /\ \A i \in 1..Len(p) : i \in 1..Len(s) \/ (i - Len(s) \in 1..Len(t) /\ p[i] = t[i - Len(s)])
       /\ \A key : Has(p, key) <=> Has(s, key) \/ Has(t, key)
       /\ \A key : TextOf(p, key) = IF Has(s, key) THEN TextOf(s, key) ELSE TextOf(t, key)
  BY <1>2, <1>3, <1>11, JoinedParts
<1> HIDE DEF p
<1>13. AllFull(p)
  BY <1>9, <1>10, <1>12 DEF AllFull
<1>14. ASSUME NEW key
       PROVE  TextOf(p, key) = IF Has(texts, key) THEN TextOf(texts, key) ELSE TextOf(list, key)
  <2>1. CASE Has(list, key)
    <3>1. PICK i \in 1..Len(list) : list[i].key = key
      BY <2>1 DEF Has
    <3>2. i \in 1..Len(u) /\ u[i].key = key
      BY <1>1, <3>1
    <3>3. u[i].text = IF Has(texts, key) THEN TextOf(texts, key) ELSE TextOf(list, key)
      BY <1>1, <3>1, TextAt
    <3>4. CASE u[i].text # 0
      BY <1>4, <1>12, <3>2, <3>3, <3>4
    <3>5. CASE u[i].text = 0
      <4>1. ~ Has(t, key)
        <5>1. CASE Has(texts, key)
          <6>1. PICK k \in 1..Len(texts) : texts[k].key = key
            BY <5>1 DEF Has
          <6> QED
            BY <1>5, <1>b, <2>1, <6>1
        <5> QED
          BY <1>7, <5>1
      <4> QED
        BY <1>4, <1>12, <3>2, <3>3, <3>5, <4>1, TextNone
    <3> QED
      BY <3>4, <3>5
  <2>2. CASE ~ Has(list, key) /\ Has(texts, key)
    <3>1. PICK k \in 1..Len(texts) : texts[k].key = key
      BY <2>2 DEF Has
    <3>2. TextOf(texts, key) = texts[k].text
      BY <3>1, TextAt
    <3>3. ~ Has(s, key)
      BY <1>6, <1>8, <2>2
    <3>4. CASE texts[k].text # 0
      <4>1. k \in news
        BY <1>b, <2>2, <3>1, <3>4
      <4> QED
        BY <1>5, <1>12, <2>2, <3>1, <3>2, <3>3, <4>1
    <3>5. CASE texts[k].text = 0
      <4>1. k \notin news
        BY <1>b, <3>5
      <4> QED
        BY <1>5, <1>12, <2>2, <3>1, <3>2, <3>3, <3>5, <4>1, TextNone
    <3> QED
      BY <3>4, <3>5
  <2>3. CASE ~ Has(list, key) /\ ~ Has(texts, key)
    BY <1>6, <1>7, <1>8, <1>12, <2>3, TextNone
  <2> QED
    BY <2>1, <2>2, <2>3
<1> QED
  BY <1>0, <1>12, <1>13, <1>14

-----------------------------------------------------------------------------
(* The blocks by priority.                                                   *)
Priority(b) == Kinds[b.key].priority
Sorted(list) == \A i, j \in 1..Len(list) : i < j => Priority(list[i]) >= Priority(list[j])
Above(list, level) == \A i \in 1..Len(list) : Priority(list[i]) >= level
Below(list, level) == \A i \in 1..Len(list) : Priority(list[i]) <= level

Ordered(list) == list \in Seq(Blocks) /\ OneEach(list) /\ Sorted(list)

Level(list, level) == Only(list, {i \in 1..Len(list) : Kinds[list[i].key].priority = level})

LEMMA LevelParts ==
  ASSUME NEW list \in Seq(Blocks), OneEach(list), NEW level \in Nat
  PROVE  LET s == Level(list, level) IN
         /\ Ordered(s) /\ \A a \in 1..Len(s) : Priority(s[a]) = level
         /\ \A a \in 1..Len(s) : \E i \in 1..Len(list) : s[a] = list[i]
         /\ \A i \in 1..Len(list) : Priority(list[i]) = level => \E a \in 1..Len(s) : s[a] = list[i]
<1> DEFINE places == {i \in 1..Len(list) : Kinds[list[i].key].priority = level}
           s == Only(list, places)
<1>a. \A i \in 1..Len(list) : i \in places <=> Priority(list[i]) = level
  BY DEF Priority
<1>b. s = Level(list, level)
  BY DEF Level
<1> HIDE DEF places
<1>1. /\ s \in Seq(Blocks) /\ OneEach(s)
      /\ \A a \in 1..Len(s) : \E i \in 1..Len(list) : i \in places /\ s[a] = list[i]
      /\ \A i \in 1..Len(list) : i \in places => \E a \in 1..Len(s) : s[a] = list[i]
  BY OnlyParts
<1> HIDE DEF s
<1>2. \A a \in 1..Len(s) : Priority(s[a]) = level
  BY <1>1, <1>a
<1>3. Sorted(s)
  BY <1>2 DEF Sorted
<1> QED
  BY <1>1, <1>2, <1>3, <1>a, <1>b DEF Ordered

LEMMA LevelHas ==
  ASSUME NEW list \in Seq(Blocks), OneEach(list), NEW level \in Nat, NEW j \in 1..Len(list),
         Priority(list[j]) = level
  PROVE  \E i \in 1..Len(Level(list, level)) : Level(list, level)[i] = list[j]
  BY LevelParts, SMTT(30)

LEMMA OrderedJoined ==
  ASSUME NEW s, NEW t, Ordered(s), Ordered(t), NEW level \in Nat,
         Above(s, level + 1), Below(t, level)
  PROVE  Ordered(s \o t)
<1> DEFINE u == s \o t
<1>0. /\ s \in Seq(Blocks) /\ t \in Seq(Blocks)
      /\ \A i \in 1..Len(s) : s[i] \in Blocks /\ Priority(s[i]) \in Nat
      /\ \A i \in 1..Len(t) : t[i] \in Blocks /\ Priority(t[i]) \in Nat
  <2>1. s \in Seq(Blocks) /\ t \in Seq(Blocks)
    BY DEF Ordered
  <2>2. \A b \in Blocks : Priority(b) \in Nat
    BY BlockParts, KindIs DEF Priority, Priorities
  <2> QED
    BY <2>1, <2>2
<1>1. Apart(s, t)
  <2> SUFFICES ASSUME NEW i \in 1..Len(s), NEW j \in 1..Len(t), s[i].key = t[j].key PROVE FALSE
    BY DEF Apart
  <2>1. Priority(s[i]) >= level + 1 /\ Priority(t[j]) <= level
    BY DEF Above, Below
  <2>2. Priority(s[i]) = Priority(t[j])
    BY DEF Priority
  <2> QED
    BY <1>0, <2>1, <2>2
<1>2. /\ u \in Seq(Blocks) /\ OneEach(u) /\ Len(u) = Len(s) + Len(t)
      /\ \A i \in 1..Len(s) : u[i] = s[i]
      /\ \A i \in 1..Len(t) : u[i + Len(s)] = t[i]
      /\ \A i \in 1..Len(u) : i \in 1..Len(s) \/ (i - Len(s) \in 1..Len(t) /\ u[i] = t[i - Len(s)])
  BY <1>1, JoinedParts DEF Ordered
<1> HIDE DEF u
<1>3. ASSUME NEW i \in 1..Len(u), NEW j \in 1..Len(u), i < j
      PROVE  Priority(u[i]) >= Priority(u[j])
  <2>0. Len(s) \in Nat /\ Len(t) \in Nat /\ i \in Int /\ j \in Int
    BY <1>2 DEF Ordered
  <2>1. CASE i \in 1..Len(s) /\ j \in 1..Len(s)
    BY <1>2, <1>3, <2>1 DEF Ordered, Sorted
  <2>2. CASE i - Len(s) \in 1..Len(t) /\ u[i] = t[i - Len(s)] /\ j - Len(s) \in 1..Len(t) /\ u[j] = t[j - Len(s)]
    BY <1>3, <2>0, <2>2 DEF Ordered, Sorted
  <2>3. CASE i \in 1..Len(s) /\ j - Len(s) \in 1..Len(t) /\ u[j] = t[j - Len(s)]
    <3>1. Priority(u[i]) >= level + 1 /\ Priority(u[j]) <= level
      BY <1>2, <2>3 DEF Above, Below
    <3>2. Priority(u[i]) \in Nat /\ Priority(u[j]) \in Nat
      BY <1>0, <1>2, <2>3
    <3> QED
      BY <3>1, <3>2
  <2>4. CASE j \in 1..Len(s) /\ i - Len(s) \in 1..Len(t)
    BY <1>3, <2>0, <2>4
  <2> QED
    BY <1>2, <2>1, <2>2, <2>3, <2>4
<1> QED
  BY <1>2, <1>3 DEF u, Ordered, Sorted

LEMMA ConcatHas ==
  ASSUME NEW s \in Seq(Blocks), NEW t \in Seq(Blocks)
  PROVE  /\ \A i \in 1..Len(s \o t) :
              (\E k \in 1..Len(s) : (s \o t)[i] = s[k]) \/ \E k \in 1..Len(t) : (s \o t)[i] = t[k]
         /\ \A k \in 1..Len(s) : \E i \in 1..Len(s \o t) : (s \o t)[i] = s[k]
         /\ \A k \in 1..Len(t) : \E i \in 1..Len(s \o t) : (s \o t)[i] = t[k]
<1>1. Both(s \o t, s, t)
  BY ConcatParts
<1> QED
  BY <1>1 DEF Both

LEMMA ByPriorityParts ==
  ASSUME NEW list \in Seq(Blocks), OneEach(list)
  PROVE  LET p == ByPriority(list) IN
         /\ Ordered(p)
         /\ \A i \in 1..Len(p) : \E j \in 1..Len(list) : p[i] = list[j]
         /\ \A j \in 1..Len(list) : \E i \in 1..Len(p) : p[i] = list[j]
<1> DEFINE a == Level(list, 1000)
           b == Level(list, 800)
           c == Level(list, 500)
           d == Level(list, 200)
           Drawn(s) == \A i \in 1..Len(s) : \E j \in 1..Len(list) : s[i] = list[j]
           Finds(s, level) == \A j \in 1..Len(list) : Priority(list[j]) = level => \E i \in 1..Len(s) : s[i] = list[j]
<1>1a. Ordered(a) /\ Drawn(a) /\ Finds(a, 1000) /\ \A i \in 1..Len(a) : Priority(a[i]) = 1000
  BY LevelParts, SMTT(30)
<1>1b. Ordered(b) /\ Drawn(b) /\ Finds(b, 800) /\ \A i \in 1..Len(b) : Priority(b[i]) = 800
  BY LevelParts, SMTT(30)
<1>1c. Ordered(c) /\ Drawn(c) /\ Finds(c, 500) /\ \A i \in 1..Len(c) : Priority(c[i]) = 500
  BY LevelParts, SMTT(30)
<1>1d. Ordered(d) /\ Drawn(d) /\ Finds(d, 200) /\ \A i \in 1..Len(d) : Priority(d[i]) = 200
  BY LevelParts
<1>1. /\ Ordered(a) /\ Drawn(a) /\ Finds(a, 1000)
      /\ Ordered(b) /\ Drawn(b) /\ Finds(b, 800)
      /\ Ordered(c) /\ Drawn(c) /\ Finds(c, 500)
      /\ Ordered(d) /\ Drawn(d) /\ Finds(d, 200)
  BY <1>1a, <1>1b, <1>1c, <1>1d
<1>2. ByPriority(list) = ((a \o b) \o c) \o d
  BY DEF ByPriority, Level
<1> HIDE DEF a, b, c, d
<1> DEFINE ab == a \o b
           abc == ab \o c
           p == abc \o d
<1>3. /\ Above(a, 800 + 1) /\ Below(b, 800)
      /\ Below(c, 500) /\ Below(d, 200)
      /\ Above(a, 500 + 1) /\ Above(b, 500 + 1)
      /\ Above(a, 200 + 1) /\ Above(b, 200 + 1) /\ Above(c, 200 + 1)
  BY <1>1a, <1>1b, <1>1c, <1>1d, SMTT(30) DEF Above, Below
<1>4. Ordered(ab)
  BY <1>1, <1>3, OrderedJoined
<1>5. /\ a \in Seq(Blocks) /\ b \in Seq(Blocks) /\ c \in Seq(Blocks) /\ d \in Seq(Blocks)
      /\ ab \in Seq(Blocks)
  BY <1>1, <1>4 DEF Ordered
<1>6. /\ \A i \in 1..Len(ab) :
              (\E k \in 1..Len(a) : ab[i] = a[k]) \/ \E k \in 1..Len(b) : ab[i] = b[k]
      /\ \A k \in 1..Len(a) : \E i \in 1..Len(ab) : ab[i] = a[k]
      /\ \A k \in 1..Len(b) : \E i \in 1..Len(ab) : ab[i] = b[k]
  BY <1>5, ConcatHas
<1> HIDE DEF ab
<1>7. Above(ab, 500 + 1)
  BY <1>3, <1>6 DEF Above
<1>8. Ordered(abc)
  BY <1>1, <1>3, <1>4, <1>7, OrderedJoined
<1>9. abc \in Seq(Blocks)
  BY <1>8 DEF Ordered
<1>10. /\ \A i \in 1..Len(abc) :
              (\E k \in 1..Len(ab) : abc[i] = ab[k]) \/ \E k \in 1..Len(c) : abc[i] = c[k]
       /\ \A k \in 1..Len(ab) : \E i \in 1..Len(abc) : abc[i] = ab[k]
       /\ \A k \in 1..Len(c) : \E i \in 1..Len(abc) : abc[i] = c[k]
  BY <1>5, ConcatHas
<1> HIDE DEF abc
<1>11. Above(abc, 200 + 1)
  <2>1. Above(ab, 200 + 1)
    BY <1>3, <1>6 DEF Above
  <2> QED
    BY <1>3, <1>10, <2>1, SMTT(30) DEF Above
<1>12. Ordered(p)
  BY <1>1, <1>3, <1>8, <1>11, OrderedJoined
<1>13. /\ \A i \in 1..Len(p) :
              (\E k \in 1..Len(abc) : p[i] = abc[k]) \/ \E k \in 1..Len(d) : p[i] = d[k]
       /\ \A k \in 1..Len(abc) : \E i \in 1..Len(p) : p[i] = abc[k]
       /\ \A k \in 1..Len(d) : \E i \in 1..Len(p) : p[i] = d[k]
  BY <1>5, <1>9, ConcatHas
<1> HIDE DEF p
<1>14. Drawn(p)
  <2>1. Drawn(ab)
    <3> SUFFICES ASSUME NEW i \in 1..Len(ab) PROVE \E j \in 1..Len(list) : ab[i] = list[j]
      OBVIOUS
    <3>1. CASE \E k \in 1..Len(a) : ab[i] = a[k]
      BY <1>1a, <3>1
    <3>2. CASE \E k \in 1..Len(b) : ab[i] = b[k]
      BY <1>1b, <3>2
    <3> QED
      BY <1>6, <3>1, <3>2
  <2>2. Drawn(abc)
    <3> SUFFICES ASSUME NEW i \in 1..Len(abc) PROVE \E j \in 1..Len(list) : abc[i] = list[j]
      OBVIOUS
    <3>1. CASE \E k \in 1..Len(ab) : abc[i] = ab[k]
      BY <2>1, <3>1
    <3>2. CASE \E k \in 1..Len(c) : abc[i] = c[k]
      BY <1>1c, <3>2
    <3> QED
      BY <1>10, <3>1, <3>2
  <2>3. ASSUME NEW i \in 1..Len(p) PROVE \E j \in 1..Len(list) : p[i] = list[j]
    <3>1. CASE \E k \in 1..Len(abc) : p[i] = abc[k]
      BY <2>2, <3>1
    <3>2. CASE \E k \in 1..Len(d) : p[i] = d[k]
      BY <1>1d, <3>2
    <3> QED
      BY <1>13, <3>1, <3>2
  <2> QED
    BY <2>3
<1>15. ASSUME NEW j \in 1..Len(list) PROVE \E i \in 1..Len(p) : p[i] = list[j]
  <2>1. list[j] \in Blocks
    OBVIOUS
  <2>2. Priority(list[j]) \in Priorities
    BY <2>1, BlockParts, KindIs DEF Priority
  <2>3. \/ \E i \in 1..Len(a) : a[i] = list[j]
        \/ \E i \in 1..Len(b) : b[i] = list[j]
        \/ \E i \in 1..Len(c) : c[i] = list[j]
        \/ \E i \in 1..Len(d) : d[i] = list[j]
    <3>1. ASSUME Priority(list[j]) = 1000 PROVE \E i \in 1..Len(a) : a[i] = list[j]
      BY <3>1, LevelHas DEF a
    <3>2. ASSUME Priority(list[j]) = 800 PROVE \E i \in 1..Len(b) : b[i] = list[j]
      BY <3>2, LevelHas DEF b
    <3>3. ASSUME Priority(list[j]) = 500 PROVE \E i \in 1..Len(c) : c[i] = list[j]
      BY <3>3, LevelHas DEF c
    <3>4. ASSUME Priority(list[j]) = 200 PROVE \E i \in 1..Len(d) : d[i] = list[j]
      BY <3>4, LevelHas DEF d
    <3>5. \/ Priority(list[j]) = 1000 \/ Priority(list[j]) = 800
          \/ Priority(list[j]) = 500 \/ Priority(list[j]) = 200
      BY <2>2 DEF Priorities
    <3> QED
      BY <3>1, <3>2, <3>3, <3>4, <3>5, ZenonT(60)
  <2>4. (\E i \in 1..Len(a) : a[i] = list[j]) \/ (\E i \in 1..Len(b) : b[i] = list[j])
          => \E i \in 1..Len(ab) : ab[i] = list[j]
    BY <1>6
  <2>5. (\E i \in 1..Len(ab) : ab[i] = list[j]) \/ (\E i \in 1..Len(c) : c[i] = list[j])
          => \E i \in 1..Len(abc) : abc[i] = list[j]
    BY <1>10
  <2>6. (\E i \in 1..Len(abc) : abc[i] = list[j]) \/ (\E i \in 1..Len(d) : d[i] = list[j])
          => \E i \in 1..Len(p) : p[i] = list[j]
    BY <1>13
  <2> QED
    BY <2>3, <2>4, <2>5, <2>6
<1>16. ByPriority(list) = p
  BY <1>2 DEF p, abc, ab
<1> QED
  BY <1>12, <1>14, <1>15, <1>16

-----------------------------------------------------------------------------
(* The length of what is shown.                                              *)
Lengths(f, list) ==
  /\ f[0] = TitleText /\ \A n \in 0..Len(list) : f[n] \in Nat
  /\ \A n \in 1..Len(list) : f[n] = f[n - 1] + Heading(list[n].key) + list[n].text

LEMMA LengthSteps ==
  ASSUME NEW list \in Seq(Blocks)
  PROVE  \E f : Lengths(f, list) /\ LengthOf(list) = f[Len(list)]
<1> DEFINE N == Len(list)
           more(n) == Heading(list[n].key) + list[n].text
           Defined(f) == f = [n \in 0..N |-> IF n = 0 THEN TitleText
                                             ELSE f[n - 1] + Heading(list[n].key) + list[n].text]
           f == CHOOSE f : Defined(f)
           G == [d \in Nat |-> [n \in 1..N |-> d + Heading(list[n].key) + list[n].text]]
<1>1. N \in Nat /\ TitleText \in Nat
  BY DEF TitleText
<1>2. ASSUME NEW d \in Nat, NEW n \in 1..N
      PROVE  d + Heading(list[n].key) + list[n].text \in Nat
  <2>1. list[n] \in Blocks
    OBVIOUS
  <2>2. Heading(list[n].key) \in Nat /\ list[n].text \in Nat
    BY <2>1, BlockParts, KindIs
  <2> QED
    BY <2>2
<1> HIDE DEF N
<1>3. \A d \in Nat, n \in 1..N : G[d][n] \in Nat
  BY <1>2
<1>4. PICK g : Steps(g, N, Nat, TitleText, G)
  <2> HIDE DEF G
  <2> QED
    BY <1>1, <1>3, StepsExist
<1> DEFINE h == [n \in 0..N |-> g[n]]
<1>5. Defined(h)
  <2>1. ASSUME NEW n \in 1..N
        PROVE  h[n] = h[n - 1] + Heading(list[n].key) + list[n].text
    <3>1. n - 1 \in 0..N /\ n \in 0..N
      BY <1>1
    <3>2. g[n - 1] \in Nat
      BY <1>4, <3>1 DEF Steps
    <3>3. g[n] = g[n - 1] + Heading(list[n].key) + list[n].text
      BY <1>4, <3>2 DEF Steps
    <3> QED
      BY <3>1, <3>3
  <2>2. h[0] = TitleText
    BY <1>1, <1>4 DEF Steps
  <2>3. \A n \in 0..N : n = 0 \/ n \in 1..N
    BY <1>1
  <2>4. h = [n \in 0..N |-> h[n]]
    OBVIOUS
  <2> HIDE DEF h
  <2> QED
    BY <2>1, <2>2, <2>3, <2>4
<1>6. Defined(f)
  BY <1>5
<1>7. LengthOf(list) = f[N]
  BY DEF LengthOf, N
<1> HIDE DEF f, G
<1>8. f[0] = TitleText /\ \A n \in 1..N : f[n] = f[n - 1] + Heading(list[n].key) + list[n].text
  <2>1. 0 \in 0..N /\ \A n \in 1..N : n \in 0..N /\ n # 0
    BY <1>1
  <2> QED
    BY <1>6, <2>1
<1>9. \A n \in 0..N : f[n] \in Nat
  <2> DEFINE T == {m \in 0..N : f[m] \in Nat}
  <2>1. 0 \in T
    BY <1>1, <1>8
  <2>2. ASSUME NEW n \in 1..N, n - 1 \in T PROVE n \in T
    <3>1. f[n - 1] \in Nat /\ n \in 0..N
      BY <1>1, <2>2
    <3>2. f[n - 1] + Heading(list[n].key) + list[n].text \in Nat
      BY <1>2, <3>1
    <3> QED
      BY <1>8, <3>1, <3>2
  <2>3. \A n \in 1..N : n - 1 \in T => n \in T
    BY <2>2
  <2> HIDE DEF T
  <2>4. \A n \in 0..N : n \in T
    BY <1>1, <2>1, <2>3, Reaches
  <2> QED
    BY <2>4 DEF T
<1> QED
  BY <1>7, <1>8, <1>9 DEF N, Lengths

LEMMA LengthNone == LengthOf(<<>>) = TitleText
<1>1. <<>> \in Seq(Blocks) /\ Len(<<>>) = 0
  OBVIOUS
<1> QED
  BY <1>1, LengthSteps DEF Lengths

LEMMA LengthAppend ==
  ASSUME NEW s \in Seq(Blocks), NEW b \in Blocks
  PROVE  /\ LengthOf(s) \in Nat
         /\ LengthOf(Append(s, b)) = LengthOf(s) + Heading(b.key) + b.text
<1> DEFINE u == Append(s, b)
           m == Len(s)
<1>1. /\ u \in Seq(Blocks) /\ Len(u) = m + 1 /\ m \in Nat
      /\ \A i \in 1..m : u[i] = s[i]
      /\ u[m + 1] = b
  BY AppendParts
<1>2. PICK f : Lengths(f, s) /\ LengthOf(s) = f[m]
  BY LengthSteps
<1>3. PICK g : Lengths(g, u) /\ LengthOf(u) = g[m + 1]
  BY <1>1, LengthSteps
<1> HIDE DEF u, m
<1> DEFINE T == {n \in 0..m : g[n] = f[n]}
<1>4. 0 \in T
  BY <1>1, <1>2, <1>3 DEF Lengths
<1>5. ASSUME NEW n \in 1..m, n - 1 \in T PROVE n \in T
  <2>1. n \in 0..m /\ n \in 1..m + 1
    BY <1>1
  <2>2. f[n] = f[n - 1] + Heading(s[n].key) + s[n].text
    BY <1>2 DEF Lengths, m
  <2>3. g[n] = g[n - 1] + Heading(u[n].key) + u[n].text
    BY <1>1, <1>3, <2>1 DEF Lengths
  <2>4. u[n] = s[n] /\ g[n - 1] = f[n - 1]
    BY <1>1, <1>5
  <2> QED
    BY <2>1, <2>2, <2>3, <2>4
<1>6. m \in T
  <2>1. \A n \in 1..m : n - 1 \in T => n \in T
    BY <1>5
  <2>2. m \in 0..m
    BY <1>1
  <2> HIDE DEF T
  <2> QED
    BY <1>1, <1>4, <2>1, <2>2, Reaches
<1>7. g[m + 1] = g[m] + Heading(b.key) + b.text
  <2>1. m + 1 \in 1..m + 1 /\ (m + 1) - 1 = m
    BY <1>1
  <2> QED
    BY <1>1, <1>3, <2>1 DEF Lengths
<1>8. f[m] \in Nat
  <2>1. m \in 0..m
    BY <1>1
  <2> QED
    BY <1>2, <2>1 DEF Lengths, m
<1> QED
  BY <1>2, <1>3, <1>6, <1>7, <1>8 DEF u

(* One block more.                                                           *)
LEMMA OneMore ==
  ASSUME NEW s \in Seq(Blocks), OneEach(s), NEW b \in Blocks, ~ Has(s, b.key)
  PROVE  LET u == Append(s, b) IN
         /\ u \in Seq(Blocks) /\ OneEach(u) /\ Len(u) = Len(s) + 1 /\ u[Len(s) + 1] = b
         /\ \A i \in 1..Len(s) : u[i] = s[i]
         /\ \A key : Has(u, key) <=> Has(s, key) \/ key = b.key
         /\ \A key : TextOf(u, key) = IF key = b.key THEN b.text ELSE TextOf(s, key)
<1> DEFINE t == <<b>>
           u == s \o t
<1>1. t \in Seq(Blocks) /\ Len(t) = 1 /\ t[1] = b
  OBVIOUS
<1>2. u = Append(s, b)
  OBVIOUS
<1> HIDE DEF t
<1>3. OneEach(t)
  BY <1>1 DEF OneEach
<1>4. Apart(s, t)
  BY <1>1 DEF Apart, Has
<1>5. \A key : Has(t, key) <=> key = b.key
  BY <1>1 DEF Has
<1>6. TextOf(t, b.key) = b.text
  <2>1. 1 \in 1..Len(t) /\ t[1].key = b.key
    BY <1>1
  <2> QED
    BY <1>1, <1>3, <2>1, TextAt
<1>7. /\ u \in Seq(Blocks) /\ OneEach(u)
      /\ \A key : Has(u, key) <=> Has(s, key) \/ Has(t, key)
      /\ \A key : TextOf(u, key) = IF Has(s, key) THEN TextOf(s, key) ELSE TextOf(t, key)
  BY <1>1, <1>3, <1>4, JoinedParts
<1> HIDE DEF u
<1>8. ASSUME NEW key PROVE TextOf(u, key) = IF key = b.key THEN b.text ELSE TextOf(s, key)
  BY <1>5, <1>6, <1>7, TextNone
<1>9. /\ Len(Append(s, b)) = Len(s) + 1 /\ Append(s, b)[Len(s) + 1] = b
      /\ \A i \in 1..Len(s) : Append(s, b)[i] = s[i]
  OBVIOUS
<1> QED
  BY <1>2, <1>5, <1>7, <1>8, <1>9

(* What each block costs.                                                    *)
Cost(s, key) == IF Has(s, key) THEN Heading(key) + TextOf(s, key) ELSE 0

CriticalSum(s) == Cost(s, "schedule_guidance") + Cost(s, "cron_execution") + Cost(s, "tool_policy")
HighSum(s) ==
  Cost(s, "run_budget") + Cost(s, "skills") + Cost(s, "current_time") + Cost(s, "evidence_ledger")
LowSum(s) == Cost(s, "session_summary") + Cost(s, "active_memory")

SumOf(s) == TitleText + CriticalSum(s) + HighSum(s) + LowSum(s)

LEMMA CostNat ==
  ASSUME NEW s \in Seq(Blocks), OneEach(s), NEW key \in BlockKeys
  PROVE  Cost(s, key) \in Nat
<1>1. TextOf(s, key) \in Nat /\ Heading(key) \in Nat
  BY TextNat, KindIs
<1> QED
  BY <1>1 DEF Cost

LEMMA SumNat ==
  ASSUME NEW s \in Seq(Blocks), OneEach(s)
  PROVE  /\ Cost(s, "schedule_guidance") \in Nat /\ Cost(s, "cron_execution") \in Nat
         /\ Cost(s, "tool_policy") \in Nat
         /\ Cost(s, "run_budget") \in Nat /\ Cost(s, "skills") \in Nat
         /\ Cost(s, "current_time") \in Nat /\ Cost(s, "evidence_ledger") \in Nat
         /\ Cost(s, "session_summary") \in Nat /\ Cost(s, "active_memory") \in Nat
         /\ CriticalSum(s) \in Nat /\ HighSum(s) \in Nat /\ LowSum(s) \in Nat /\ SumOf(s) \in Nat
<1>1. \A key \in BlockKeys : Cost(s, key) \in Nat
  BY CostNat
<1>2. /\ Cost(s, "schedule_guidance") \in Nat /\ Cost(s, "cron_execution") \in Nat
      /\ Cost(s, "tool_policy") \in Nat
      /\ Cost(s, "run_budget") \in Nat /\ Cost(s, "skills") \in Nat
      /\ Cost(s, "current_time") \in Nat /\ Cost(s, "evidence_ledger") \in Nat
      /\ Cost(s, "session_summary") \in Nat /\ Cost(s, "active_memory") \in Nat
  BY <1>1 DEF BlockKeys
<1>3. CriticalSum(s) \in Nat
  BY <1>2 DEF CriticalSum
<1>4. HighSum(s) \in Nat
  BY <1>2 DEF HighSum
<1>5. LowSum(s) \in Nat
  BY <1>2 DEF LowSum
<1>6. SumOf(s) \in Nat
  BY <1>3, <1>4, <1>5 DEF SumOf, TitleText
<1> QED
  BY <1>2, <1>3, <1>4, <1>5, <1>6

LEMMA SumMore ==
  ASSUME NEW s \in Seq(Blocks), OneEach(s), NEW b \in Blocks, ~ Has(s, b.key)
  PROVE  SumOf(Append(s, b)) = SumOf(s) + Heading(b.key) + b.text
<1> DEFINE u == Append(s, b)
           H == Heading(b.key) + b.text
           more(key) == IF key = b.key THEN H ELSE 0
<1>1. /\ \A key : Has(u, key) <=> Has(s, key) \/ key = b.key
      /\ \A key : TextOf(u, key) = IF key = b.key THEN b.text ELSE TextOf(s, key)
  BY OneMore
<1> HIDE DEF u
<1>2. \A key : key # b.key => Cost(u, key) = Cost(s, key)
  BY <1>1 DEF Cost
<1>3. Cost(s, b.key) = 0 /\ Cost(u, b.key) = H
  BY <1>1 DEF Cost
<1>4. H \in Nat /\ b.key \in BlockKeys /\ Heading(b.key) \in Nat /\ b.text \in Nat
  BY BlockParts, KindIs
<1>5. \A key \in BlockKeys : Cost(u, key) = Cost(s, key) + more(key) /\ more(key) \in Nat
  BY <1>2, <1>3, <1>4, CostNat
<1> DEFINE c == more("schedule_guidance") + more("cron_execution") + more("tool_policy")
           h == more("run_budget") + more("skills") + more("current_time") + more("evidence_ledger")
           l == more("session_summary") + more("active_memory")
<1>6. c + h + l = H /\ c \in Nat /\ h \in Nat /\ l \in Nat
  <2> HIDE DEF H
  <2>1. CASE b.key \in {"schedule_guidance", "cron_execution", "tool_policy"}
    <3>1. c = H /\ h = 0 /\ l = 0
      BY <1>4, <2>1
    <3> QED
      BY <1>4, <3>1
  <2>2. CASE b.key \in {"run_budget", "skills", "current_time", "evidence_ledger"}
    <3>1. c = 0 /\ h = H /\ l = 0
      BY <1>4, <2>2
    <3> QED
      BY <1>4, <3>1
  <2>3. CASE b.key \in {"session_summary", "active_memory"}
    <3>1. c = 0 /\ h = 0 /\ l = H
      BY <1>4, <2>3
    <3> QED
      BY <1>4, <3>1
  <2> QED
    BY <1>4, <2>1, <2>2, <2>3 DEF BlockKeys
<1> HIDE DEF more, H
<1>7. CriticalSum(u) = CriticalSum(s) + c
  <2>1. /\ Cost(u, "schedule_guidance") = Cost(s, "schedule_guidance") + more("schedule_guidance")
        /\ more("schedule_guidance") \in Nat
        /\ Cost(u, "cron_execution") = Cost(s, "cron_execution") + more("cron_execution")
        /\ more("cron_execution") \in Nat
        /\ Cost(u, "tool_policy") = Cost(s, "tool_policy") + more("tool_policy")
        /\ more("tool_policy") \in Nat
    BY <1>5 DEF BlockKeys
  <2>2. Cost(s, "schedule_guidance") \in Nat /\ Cost(s, "cron_execution") \in Nat /\ Cost(s, "tool_policy") \in Nat
    BY SumNat
  <2> QED
    BY <2>1, <2>2 DEF CriticalSum
<1>8. HighSum(u) = HighSum(s) + h
  <2>1. /\ Cost(u, "run_budget") = Cost(s, "run_budget") + more("run_budget")
        /\ more("run_budget") \in Nat
        /\ Cost(u, "skills") = Cost(s, "skills") + more("skills") /\ more("skills") \in Nat
        /\ Cost(u, "current_time") = Cost(s, "current_time") + more("current_time")
        /\ more("current_time") \in Nat
        /\ Cost(u, "evidence_ledger") = Cost(s, "evidence_ledger") + more("evidence_ledger")
        /\ more("evidence_ledger") \in Nat
    BY <1>5 DEF BlockKeys
  <2>2. Cost(s, "run_budget") \in Nat /\ Cost(s, "skills") \in Nat /\ Cost(s, "current_time") \in Nat /\ Cost(s, "evidence_ledger") \in Nat
    BY SumNat
  <2> QED
    BY <2>1, <2>2, SMTT(60) DEF HighSum
<1>9. LowSum(u) = LowSum(s) + l
  <2>1. /\ Cost(u, "session_summary") = Cost(s, "session_summary") + more("session_summary")
        /\ more("session_summary") \in Nat
        /\ Cost(u, "active_memory") = Cost(s, "active_memory") + more("active_memory")
        /\ more("active_memory") \in Nat
    BY <1>5 DEF BlockKeys
  <2>2. Cost(s, "session_summary") \in Nat /\ Cost(s, "active_memory") \in Nat
    BY SumNat
  <2> QED
    BY <2>1, <2>2 DEF LowSum
<1> HIDE DEF c, h, l
<1>10. SumOf(u) = SumOf(s) + H
  <2>1. CriticalSum(s) \in Nat /\ HighSum(s) \in Nat /\ LowSum(s) \in Nat
    BY SumNat
  <2>2. /\ SumOf(u) = 17 + (CriticalSum(s) + c) + (HighSum(s) + h) + (LowSum(s) + l)
        /\ SumOf(s) = 17 + CriticalSum(s) + HighSum(s) + LowSum(s)
    BY <1>7, <1>8, <1>9 DEF SumOf, TitleText
  <2>3. c + h + l = H /\ c \in Nat /\ h \in Nat /\ l \in Nat
    BY <1>6
  <2> QED
    BY <2>1, <2>2, <2>3
<1>11. SumOf(s) \in Nat
  BY SumNat
<1> QED
  BY <1>4, <1>10, <1>11 DEF u, H

-----------------------------------------------------------------------------
(* What is shown.                                                            *)
LEMMA PrefixParts ==
  ASSUME NEW s \in Seq(Blocks), NEW n \in 0..Len(s)
  PROVE  /\ SubSeq(s, 1, n) \in Seq(Blocks) /\ Len(SubSeq(s, 1, n)) = n
         /\ \A k \in 1..n : SubSeq(s, 1, n)[k] = s[k]
<1>1. Len(s) \in Nat /\ n \in Nat
  OBVIOUS
<1>2. \A k \in 1..n : s[k] \in Blocks
  BY <1>1
<1>3. /\ SubSeq(s, 1, n) \in Seq(Blocks)
      /\ Len(SubSeq(s, 1, n)) = IF 1 <= n THEN n - 1 + 1 ELSE 0
      /\ \A k \in 1..n - 1 + 1 : SubSeq(s, 1, n)[k] = s[1 + k - 1]
  BY <1>1, <1>2, SubSeqProperties
<1> QED
  BY <1>1, <1>3

LEMMA SameSeq ==
  ASSUME NEW s \in Seq(Blocks), NEW t \in Seq(Blocks), Len(s) = Len(t),
         \A k \in 1..Len(s) : s[k] = t[k]
  PROVE  s = t
  OBVIOUS

LEMMA PrefixStays ==
  ASSUME NEW s \in Seq(Blocks), NEW b \in Blocks, NEW n \in 0..Len(s)
  PROVE  /\ SubSeq(Append(s, b), 1, n) = SubSeq(s, 1, n)
         /\ SubSeq(s, 1, Len(s)) = s
<1>1. /\ Append(s, b) \in Seq(Blocks) /\ Len(Append(s, b)) = Len(s) + 1 /\ Len(s) \in Nat
      /\ \A i \in 1..Len(s) : Append(s, b)[i] = s[i]
  BY AppendParts
<1>2. n \in 0..Len(Append(s, b)) /\ Len(s) \in 0..Len(s) /\ \A k \in 1..n : k \in 1..Len(s)
  BY <1>1
<1>3. /\ SubSeq(Append(s, b), 1, n) \in Seq(Blocks) /\ Len(SubSeq(Append(s, b), 1, n)) = n
      /\ \A k \in 1..n : SubSeq(Append(s, b), 1, n)[k] = Append(s, b)[k]
  BY <1>1, <1>2, PrefixParts
<1>4. /\ SubSeq(s, 1, n) \in Seq(Blocks) /\ Len(SubSeq(s, 1, n)) = n
      /\ \A k \in 1..n : SubSeq(s, 1, n)[k] = s[k]
  BY PrefixParts
<1>5. /\ SubSeq(s, 1, Len(s)) \in Seq(Blocks) /\ Len(SubSeq(s, 1, Len(s))) = Len(s)
      /\ \A k \in 1..Len(s) : SubSeq(s, 1, Len(s))[k] = s[k]
  BY <1>2, PrefixParts
<1>6. SubSeq(Append(s, b), 1, n) = SubSeq(s, 1, n)
  BY <1>1, <1>2, <1>3, <1>4, SameSeq
<1>7. SubSeq(s, 1, Len(s)) = s
  BY <1>5, SameSeq
<1> QED
  BY <1>6, <1>7

LEMMA TrimIs ==
  ASSUME NEW n \in Nat, NEW limit \in Nat \ {0}
  PROVE  /\ Trim(n, limit) \in Nat /\ Trim(n, limit) <= n /\ Trim(n, limit) <= limit
         /\ n # 0 => Trim(n, limit) # 0
         /\ n <= limit => Trim(n, limit) = n
         /\ \A m \in Nat : m <= n /\ m <= limit => m <= Trim(n, limit)
  BY DEF Trim

(* The text of a block as far as its own limit lets it through.               *)
Own(b) == Trim(b.text, Kinds[b.key].limit)

(* There is not a rune of room left for a block behind some that come before it. *)
NoRoom(s, b) ==
  \E n \in 0..Len(s) :
    /\ \A k \in 1..n : Priority(s[k]) >= Priority(b)
    /\ LengthOf(SubSeq(s, 1, n)) + Heading(b.key) >= ContextBudget

(* What is shown of the first blocks of a list.                               *)
ShownOf(s, n, p) ==
  /\ s \in Seq(Blocks) /\ OneEach(s) /\ AllFull(s)
  /\ LengthOf(s) = SumOf(s) /\ LengthOf(s) <= ContextBudget
  /\ \A k \in 1..Len(s) : \E i \in 1..n : s[k].key = p[i].key /\ s[k].text <= Own(p[i])
  /\ \A i \in 1..n : Critical(p[i].key) => TextOf(s, p[i].key) = Own(p[i])
  /\ \A i \in 1..n : p[i].key = "evidence_ledger" => TextOf(s, p[i].key) >= Trim(p[i].text, 4000)
  /\ \A i \in 1..n : ~ Has(s, p[i].key) => NoRoom(s, p[i])

(* The texts whose length is bounded by what they say, and the two that are never *)
(* there together.                                                          *)
Modest(list) ==
  /\ TextOf(list, "run_budget") <= 402 /\ TextOf(list, "current_time") <= 190
  /\ TextOf(list, "tool_policy") <= 111 /\ TextOf(list, "schedule_guidance") <= 975
  /\ ~ (Has(list, "schedule_guidance") /\ Has(list, "cron_execution"))

(* A block that is shown costs no more than it may, and none of lower priority is *)
(* there before its turn.                                                     *)
LEMMA CostBound ==
  ASSUME NEW p, Ordered(p), NEW n \in 1..Len(p), NEW s, ShownOf(s, n - 1, p), NEW key \in BlockKeys
  PROVE  /\ Cost(s, key) <= Heading(key) + Kinds[key].limit
         /\ Cost(s, key) <= Heading(key) + TextOf(p, key)
         /\ ~ Has(p, key) => Cost(s, key) = 0
         /\ Kinds[key].priority < Priority(p[n]) \/ key = p[n].key => Cost(s, key) = 0
         /\ Cost(s, key) \in Nat
<1>1. Heading(key) \in Nat /\ Kinds[key].limit \in Nat \ {0} /\ Kinds[key].priority \in Nat
  BY KindIs DEF Priorities
<1>2. p \in Seq(Blocks) /\ OneEach(p) /\ s \in Seq(Blocks) /\ OneEach(s)
  BY DEF Ordered, ShownOf
<1>3. TextOf(p, key) \in Nat
  BY <1>2, TextNat
<1>4. CASE ~ Has(s, key)
  BY <1>1, <1>3, <1>4 DEF Cost
<1>5. CASE Has(s, key)
  <2>1. PICK k \in 1..Len(s) : s[k].key = key
    BY <1>5 DEF Has
  <2>2. PICK i \in 1..n - 1 : s[k].key = p[i].key /\ s[k].text <= Own(p[i])
    BY DEF ShownOf
  <2>3. i \in 1..Len(p) /\ i < n /\ i # n
    BY <1>2
  <2>4. p[i] \in Blocks /\ p[n] \in Blocks /\ s[k] \in Blocks
    BY <1>2, <2>3
  <2>5. p[i].text \in Nat /\ s[k].text \in Nat
    BY <2>4, BlockParts
  <2>6. Own(p[i]) \in Nat /\ Own(p[i]) <= p[i].text /\ Own(p[i]) <= Kinds[key].limit
    <3>1. Own(p[i]) = Trim(p[i].text, Kinds[key].limit)
      BY <2>1, <2>2 DEF Own
    <3> DEFINE whole == p[i].text
               limit == Kinds[key].limit
    <3>2. whole \in Nat /\ limit \in Nat \ {0}
      BY <1>1, <2>5
    <3> HIDE DEF whole, limit
    <3>3. Trim(whole, limit) \in Nat /\ Trim(whole, limit) <= whole /\ Trim(whole, limit) <= limit
      BY <3>2, TrimIs
    <3> QED
      BY <3>1, <3>3 DEF whole, limit
  <2>7. TextOf(s, key) = s[k].text /\ TextOf(p, key) = p[i].text /\ Has(p, key)
    BY <1>2, <2>1, <2>2, <2>3, TextAt
  <2>8. Priority(p[i]) >= Priority(p[n]) /\ p[i].key # p[n].key
    BY <2>3 DEF Ordered, Sorted, OneEach
  <2>9. Priority(p[i]) = Kinds[key].priority /\ Priority(p[n]) \in Nat
    <3>1. p[n].key \in BlockKeys
      BY <2>4, BlockParts
    <3>2. Priority(p[n]) \in Nat
      BY <3>1, KindIs, SMTT(30) DEF Priority, Priorities
    <3>3. Priority(p[i]) = Kinds[key].priority
      BY <2>1, <2>2 DEF Priority
    <3> QED
      BY <3>2, <3>3
  <2>10. Cost(s, key) = Heading(key) + s[k].text
    BY <1>5, <2>7 DEF Cost
  <2>11. ~ (Kinds[key].priority < Priority(p[n])) /\ key # p[n].key
    <3>1. Kinds[key].priority >= Priority(p[n]) /\ Kinds[key].priority \in Nat /\ Priority(p[n]) \in Nat
      BY <1>1, <2>8, <2>9
    <3>2. key # p[n].key
      BY <2>1, <2>2, <2>8
    <3> QED
      BY <3>1, <3>2
  <2>12. s[k].text <= TextOf(p, key) /\ s[k].text <= Kinds[key].limit
    <3> DEFINE own == Own(p[i])
               text == s[k].text
               limit == Kinds[key].limit
    <3>1. own \in Nat /\ text \in Nat /\ limit \in Nat /\ text <= own /\ own <= limit /\ own <= p[i].text
      BY <1>1, <2>2, <2>5, <2>6
    <3>2. TextOf(p, key) = p[i].text /\ p[i].text \in Nat
      BY <2>5, <2>7
    <3> HIDE DEF own, text, limit
    <3>3. text <= p[i].text /\ text <= limit
      BY <3>1, <3>2
    <3> QED
      BY <3>2, <3>3 DEF text, limit
  <2>13. s[k].text \in Nat
    BY <2>5
  <2>14. Cost(s, key) <= Heading(key) + Kinds[key].limit
    BY <1>1, <2>10, <2>12, <2>13
  <2>15. Cost(s, key) <= Heading(key) + TextOf(p, key)
    BY <1>1, <1>3, <2>10, <2>12, <2>13
  <2>16. Cost(s, key) \in Nat
    BY <1>1, <2>10, <2>13
  <2> QED
    BY <2>7, <2>11, <2>14, <2>15, <2>16
<1> QED
  BY <1>4, <1>5

(* There is room for what is critical, and for 4000 runes of the ledger.         *)
LEMMA RoomFor ==
  ASSUME NEW p, Ordered(p), Modest(p), NEW n \in 1..Len(p), NEW s, ShownOf(s, n - 1, p)
  PROVE  /\ Critical(p[n].key) => LengthOf(s) + Heading(p[n].key) + Own(p[n]) <= ContextBudget
         /\ p[n].key = "evidence_ledger" =>
              LengthOf(s) + Heading("evidence_ledger") + 4000 <= ContextBudget
<1>1. /\ p \in Seq(Blocks)
      /\ OneEach(p)
      /\ s \in Seq(Blocks)
      /\ OneEach(s)
      /\ LengthOf(s) = SumOf(s)
  BY DEF Ordered, ShownOf
<1>2. p[n] \in Blocks /\ p[n].key \in BlockKeys /\ p[n].text \in Nat
  BY <1>1, BlockParts
<1>3. \A key \in BlockKeys :
        /\ Cost(s, key) \in Nat
        /\ Cost(s, key) <= Heading(key) + Kinds[key].limit
        /\ Cost(s, key) <= Heading(key) + TextOf(p, key)
        /\ ~ Has(p, key) => Cost(s, key) = 0
        /\ Kinds[key].priority < Priority(p[n]) \/ key = p[n].key => Cost(s, key) = 0
  BY CostBound
<1>4. TextOf(p, p[n].key) = p[n].text /\ \A key : TextOf(p, key) \in Nat
  BY <1>1, TextAt, TextNat
<1>5. Own(p[n]) \in Nat /\ Own(p[n]) <= p[n].text /\ Own(p[n]) <= Kinds[p[n].key].limit
  <2>1. Kinds[p[n].key].limit \in Nat \ {0}
    BY <1>2, KindIs
  <2> QED
    BY <1>2, <2>1, TrimIs DEF Own
<1>6. /\ Cost(s, "schedule_guidance") <= 23 + 975 /\ Cost(s, "schedule_guidance") \in Nat
      /\ Cost(s, "tool_policy") <= 17 + 111 /\ Cost(s, "tool_policy") \in Nat
      /\ Cost(s, "cron_execution") <= 20 + 3000 /\ Cost(s, "cron_execution") \in Nat
  <2>1. /\ Cost(s, "schedule_guidance") <= Heading("schedule_guidance") + TextOf(p, "schedule_guidance")
        /\ Cost(s, "tool_policy") <= Heading("tool_policy") + TextOf(p, "tool_policy")
        /\ Cost(s, "cron_execution") <= Heading("cron_execution") + Kinds["cron_execution"].limit
        /\ Cost(s, "schedule_guidance") \in Nat /\ Cost(s, "tool_policy") \in Nat
        /\ Cost(s, "cron_execution") \in Nat
    BY <1>3 DEF BlockKeys
  <2>2. /\ TextOf(p, "schedule_guidance") <= 975 /\ TextOf(p, "schedule_guidance") \in Nat
        /\ TextOf(p, "tool_policy") <= 111 /\ TextOf(p, "tool_policy") \in Nat
    BY <1>4 DEF Modest
  <2>3. /\ Heading("schedule_guidance") = 23 /\ Heading("tool_policy") = 17
        /\ Heading("cron_execution") = 20 /\ Kinds["cron_execution"].limit = 3000
    BY KindsAre
  <2>4. Cost(s, "schedule_guidance") <= 23 + 975
    BY <2>1, <2>2, <2>3
  <2>5. Cost(s, "tool_policy") <= 17 + 111
    BY <2>1, <2>2, <2>3
  <2>6. Cost(s, "cron_execution") <= 20 + 3000
    BY <2>1, <2>3
  <2> QED
    BY <2>1, <2>4, <2>5, <2>6
<1>7. /\ Cost(s, "run_budget") <= 16 + 402 /\ Cost(s, "run_budget") \in Nat
      /\ Cost(s, "current_time") <= 18 + 190 /\ Cost(s, "current_time") \in Nat
      /\ Cost(s, "skills") <= 20 + 4000 /\ Cost(s, "skills") \in Nat
  <2>1. /\ Cost(s, "run_budget") <= Heading("run_budget") + TextOf(p, "run_budget")
        /\ Cost(s, "current_time") <= Heading("current_time") + TextOf(p, "current_time")
        /\ Cost(s, "skills") <= Heading("skills") + Kinds["skills"].limit
        /\ Cost(s, "run_budget") \in Nat /\ Cost(s, "current_time") \in Nat
        /\ Cost(s, "skills") \in Nat
    BY <1>3 DEF BlockKeys
  <2>2. /\ TextOf(p, "run_budget") <= 402 /\ TextOf(p, "run_budget") \in Nat
        /\ TextOf(p, "current_time") <= 190 /\ TextOf(p, "current_time") \in Nat
    BY <1>4 DEF Modest
  <2>3. /\ Heading("run_budget") = 16 /\ Heading("current_time") = 18
        /\ Heading("skills") = 20 /\ Kinds["skills"].limit = 4000
    BY KindsAre
  <2>4. Cost(s, "run_budget") <= 16 + 402
    BY <2>1, <2>2, <2>3, SMTT(30)
  <2>5. Cost(s, "current_time") <= 18 + 190
    BY <2>1, <2>2, <2>3, SMTT(30)
  <2>6. Cost(s, "skills") <= 20 + 4000
    BY <2>1, <2>3
  <2> QED
    BY <2>1, <2>4, <2>5, <2>6
<1>8. /\ Kinds["session_summary"].priority = 200 /\ Kinds["active_memory"].priority = 500
      /\ Kinds["run_budget"].priority = 800 /\ Kinds["skills"].priority = 800
      /\ Kinds["current_time"].priority = 800 /\ Kinds["evidence_ledger"].priority = 800
  BY KindsAre
<1>9. ASSUME Priority(p[n]) >= 800 PROVE LowSum(s) = 0
  <2>1. Priority(p[n]) \in Nat
    BY <1>2, KindIs DEF Priority, Priorities
  <2>2. Cost(s, "session_summary") = 0 /\ Cost(s, "active_memory") = 0
    <3>1. 200 < Priority(p[n]) /\ 500 < Priority(p[n])
      BY <1>9, <2>1
    <3> QED
      BY <1>3, <1>8, <3>1 DEF BlockKeys
  <2> QED
    BY <2>2 DEF LowSum
<1>10. ASSUME Critical(p[n].key)
       PROVE  LengthOf(s) + Heading(p[n].key) + Own(p[n]) <= ContextBudget
  <2>1. Priority(p[n]) = 1000
    BY <1>10 DEF Critical, Priority
  <2>2. HighSum(s) = 0 /\ LowSum(s) = 0
    <3>1. /\ Cost(s, "run_budget") = 0 /\ Cost(s, "skills") = 0
          /\ Cost(s, "current_time") = 0 /\ Cost(s, "evidence_ledger") = 0
      <4>1. 800 < Priority(p[n])
        BY <2>1
      <4>2. \A key \in {"run_budget", "skills", "current_time", "evidence_ledger"} :
              key \in BlockKeys /\ Kinds[key].priority < Priority(p[n])
        BY <1>8, <4>1 DEF BlockKeys
      <4>3. \A key \in {"run_budget", "skills", "current_time", "evidence_ledger"} : Cost(s, key) = 0
        BY <1>3, <4>2
      <4> QED
        BY <4>3
    <3>2. Priority(p[n]) >= 800
      BY <2>1
    <3> QED
      BY <1>9, <3>1, <3>2 DEF HighSum
  <2>3. Heading(p[n].key) <= 23 /\ Heading(p[n].key) \in Nat /\ Own(p[n]) <= 4500
    <3>1. p[n].key \in {"schedule_guidance", "cron_execution", "tool_policy"}
      <4>1. \A key \in BlockKeys : Kinds[key].priority = 1000 =>
              key \in {"schedule_guidance", "cron_execution", "tool_policy"}
        BY KindsAre, SMTT(30) DEF BlockKeys
      <4> QED
        BY <1>2, <1>10, <4>1 DEF Critical
    <3>2. \A key \in {"schedule_guidance", "cron_execution", "tool_policy"} :
            /\ Heading(key) <= 23 /\ Heading(key) \in Nat
            /\ Kinds[key].limit <= 4500 /\ Kinds[key].limit \in Nat
      <4>1. /\ Heading("schedule_guidance") = 23 /\ Kinds["schedule_guidance"].limit = 4500
            /\ Heading("cron_execution") = 20 /\ Kinds["cron_execution"].limit = 3000
            /\ Heading("tool_policy") = 17 /\ Kinds["tool_policy"].limit = 2000
        BY KindsAre
      <4> QED
        BY <4>1
    <3>3. /\ Heading(p[n].key) <= 23 /\ Heading(p[n].key) \in Nat
          /\ Kinds[p[n].key].limit <= 4500 /\ Kinds[p[n].key].limit \in Nat
      BY <3>1, <3>2
    <3> DEFINE limit == Kinds[p[n].key].limit
    <3>4. Own(p[n]) \in Nat /\ Own(p[n]) <= limit
      BY <1>5
    <3>5. limit \in Nat /\ limit <= 4500
      BY <3>3
    <3> HIDE DEF limit
    <3> DEFINE own == Own(p[n])
    <3>6. own \in Nat /\ own <= limit
      BY <3>4
    <3> HIDE DEF own
    <3>7. own <= 4500
      BY <3>5, <3>6
    <3> QED
      BY <3>3, <3>7 DEF own
  <2>4. LengthOf(s) = 17 + Cost(s, "schedule_guidance") + Cost(s, "cron_execution") + Cost(s, "tool_policy")
    BY <1>1, <1>6, <2>2 DEF SumOf, TitleText, CriticalSum
  <2>5. LengthOf(s) <= 17 + 998 + 3020 + 128 /\ LengthOf(s) \in Nat
    BY <1>6, <2>4
  <2> QED
    BY <1>5, <2>3, <2>5 DEF ContextBudget
<1>11. ASSUME p[n].key = "evidence_ledger"
       PROVE  LengthOf(s) + Heading("evidence_ledger") + 4000 <= ContextBudget
  <2>1. Priority(p[n]) = 800
    BY <1>8, <1>11 DEF Priority
  <2>2. LowSum(s) = 0 /\ Cost(s, "evidence_ledger") = 0
    BY <1>2, <1>3, <1>9, <1>11, <2>1
  <2>3. HighSum(s) <= 4646 /\ HighSum(s) \in Nat
    BY <1>7, <2>2 DEF HighSum
  <2>4. CriticalSum(s) <= 3148 /\ CriticalSum(s) \in Nat
    <3>1. Cost(s, "schedule_guidance") = 0 \/ Cost(s, "cron_execution") = 0
      BY <1>3 DEF Modest, BlockKeys
    <3> QED
      BY <1>6, <3>1 DEF CriticalSum
  <2>5. LengthOf(s) = 17 + CriticalSum(s) + HighSum(s)
    BY <1>1, <2>2, <2>3, <2>4 DEF SumOf, TitleText
  <2>6. Heading("evidence_ledger") = 21
    BY KindsAre
  <2> QED
    BY <2>3, <2>4, <2>5, <2>6 DEF ContextBudget
<1> QED
  BY <1>10, <1>11

(* A block is added whose text fits.                                         *)
LEMMA AddKeeps ==
  ASSUME NEW p, Ordered(p), AllFull(p), NEW n \in 1..Len(p), NEW s, ShownOf(s, n - 1, p),
         NEW x \in Nat \ {0}, x <= Own(p[n]), LengthOf(s) + Heading(p[n].key) + x <= ContextBudget,
         Critical(p[n].key) => x = Own(p[n]),
         p[n].key = "evidence_ledger" => x >= Trim(p[n].text, 4000)
  PROVE  ShownOf(Append(s, Text(p[n].key, x)), n, p)
<1> DEFINE b == Text(p[n].key, x)
           u == Append(s, b)
<1>1. /\ p \in Seq(Blocks) /\ OneEach(p) /\ s \in Seq(Blocks) /\ OneEach(s) /\ AllFull(s)
      /\ LengthOf(s) = SumOf(s)
  BY DEF Ordered, ShownOf
<1>2. p[n].key \in BlockKeys /\ n \in Nat /\ Len(p) \in Nat /\ Len(s) \in Nat
  <2>1. p[n] \in Blocks
    BY <1>1
  <2> QED
    BY <1>1, <2>1, BlockParts
<1>3. b \in Blocks /\ b.key = p[n].key /\ b.text = x
  BY <1>2, TextIs
<1>4. \A i \in 1..n : i = n \/ i \in 1..n - 1
  BY <1>2
<1>5. \A i \in 1..n - 1 : i \in 1..n /\ i \in 1..Len(p) /\ i # n
  BY <1>2
<1>6. n \in 1..n
  BY <1>2
<1> HIDE DEF b
<1>7. ~ Has(s, b.key)
  <2> SUFFICES ASSUME NEW k \in 1..Len(s), s[k].key = b.key PROVE FALSE
    BY DEF Has
  <2>1. PICK i \in 1..n - 1 : s[k].key = p[i].key
    BY DEF ShownOf
  <2>2. i = n
    BY <1>1, <1>3, <1>5, <2>1 DEF OneEach
  <2> QED
    BY <1>5, <2>2
<1>8. /\ u \in Seq(Blocks) /\ OneEach(u) /\ Len(u) = Len(s) + 1 /\ u[Len(s) + 1] = b
      /\ \A i \in 1..Len(s) : u[i] = s[i]
      /\ \A key : Has(u, key) <=> Has(s, key) \/ key = b.key
      /\ \A key : TextOf(u, key) = IF key = b.key THEN b.text ELSE TextOf(s, key)
  BY <1>1, <1>3, <1>7, OneMore
<1>9. LengthOf(u) = LengthOf(s) + Heading(b.key) + b.text /\ SumOf(u) = SumOf(s) + Heading(b.key) + b.text
  BY <1>1, <1>3, <1>7, LengthAppend, SumMore
<1>10. \A k \in 0..Len(s) : SubSeq(u, 1, k) = SubSeq(s, 1, k) /\ k \in 0..Len(u)
  BY <1>1, <1>2, <1>3, <1>8, PrefixStays
<1> HIDE DEF u
<1>11. \A k \in 1..Len(u) : k = Len(s) + 1 \/ k \in 1..Len(s)
  BY <1>2, <1>8
<1>12. AllFull(u)
  BY <1>1, <1>3, <1>8, <1>11 DEF AllFull
<1>13. LengthOf(u) = SumOf(u) /\ LengthOf(u) <= ContextBudget
  BY <1>1, <1>3, <1>9
<1>14. \A k \in 1..Len(u) : \E i \in 1..n : u[k].key = p[i].key /\ u[k].text <= Own(p[i])
  <2> TAKE k \in 1..Len(u)
  <2>1. CASE k = Len(s) + 1
    BY <1>3, <1>6, <1>8, <2>1
  <2>2. CASE k \in 1..Len(s)
    <3>1. PICK i \in 1..n - 1 : s[k].key = p[i].key /\ s[k].text <= Own(p[i])
      BY <2>2, SMTT(30) DEF ShownOf
    <3> QED
      BY <1>5, <1>8, <2>2, <3>1
  <2> QED
    BY <1>11, <2>1, <2>2
<1>15. ASSUME NEW i \in 1..n - 1 PROVE p[i].key # b.key
  BY <1>1, <1>3, <1>5 DEF OneEach
<1>16. \A i \in 1..n : Critical(p[i].key) => TextOf(u, p[i].key) = Own(p[i])
  <2> SUFFICES ASSUME NEW i \in 1..n, Critical(p[i].key) PROVE TextOf(u, p[i].key) = Own(p[i])
    OBVIOUS
  <2>1. CASE i = n
    BY <1>3, <1>8, <2>1
  <2>2. CASE i \in 1..n - 1
    <3>1. TextOf(s, p[i].key) = Own(p[i])
      BY <2>2 DEF ShownOf
    <3> QED
      BY <1>8, <1>15, <2>2, <3>1
  <2> QED
    BY <1>4, <2>1, <2>2
<1>17. \A i \in 1..n : p[i].key = "evidence_ledger" => TextOf(u, p[i].key) >= Trim(p[i].text, 4000)
  <2> SUFFICES ASSUME NEW i \in 1..n, p[i].key = "evidence_ledger"
               PROVE  TextOf(u, p[i].key) >= Trim(p[i].text, 4000)
    OBVIOUS
  <2>1. CASE i = n
    BY <1>3, <1>8, <2>1
  <2>2. CASE i \in 1..n - 1
    <3>1. TextOf(s, p[i].key) >= Trim(p[i].text, 4000)
      BY <2>2 DEF ShownOf
    <3>2. TextOf(u, p[i].key) = TextOf(s, p[i].key)
      BY <1>8, <1>15, <2>2
    <3> QED
      BY <3>1, <3>2
  <2> QED
    BY <1>4, <2>1, <2>2
<1>18. \A i \in 1..n : ~ Has(u, p[i].key) => NoRoom(u, p[i])
  <2> SUFFICES ASSUME NEW i \in 1..n, ~ Has(u, p[i].key) PROVE NoRoom(u, p[i])
    OBVIOUS
  <2>1. i \in 1..n - 1 /\ ~ Has(s, p[i].key)
    BY <1>3, <1>4, <1>8
  <2>2. NoRoom(s, p[i])
    BY <2>1 DEF ShownOf
  <2>3. PICK m \in 0..Len(s) :
          /\ \A k \in 1..m : Priority(s[k]) >= Priority(p[i])
          /\ LengthOf(SubSeq(s, 1, m)) + Heading(p[i].key) >= ContextBudget
    BY <2>2 DEF NoRoom
  <2>4. \A k \in 1..m : k \in 1..Len(s)
    BY <1>2
  <2>5. \A k \in 1..m : Priority(u[k]) >= Priority(p[i])
    BY <1>8, <2>3, <2>4
  <2>6. m \in 0..Len(u) /\ SubSeq(u, 1, m) = SubSeq(s, 1, m)
    BY <1>10
  <2>7. LengthOf(SubSeq(u, 1, m)) + Heading(p[i].key) >= ContextBudget
    <3> DEFINE old == SubSeq(s, 1, m)
               new == SubSeq(u, 1, m)
    <3>1. LengthOf(old) + Heading(p[i].key) >= ContextBudget /\ new = old
      BY <2>3, <2>6
    <3> HIDE DEF old, new
    <3>2. LengthOf(new) + Heading(p[i].key) >= ContextBudget
      BY <3>1
    <3> QED
      BY <3>2 DEF new
  <2> QED
    BY <2>5, <2>6, <2>7 DEF NoRoom
<1>19. ShownOf(u, n, p)
  BY <1>8, <1>12, <1>13, <1>14, <1>16, <1>17, <1>18 DEF ShownOf
<1> QED
  BY <1>19 DEF u, b

LEMMA JoinKeeps ==
  ASSUME NEW p, Ordered(p), AllFull(p), Modest(p), NEW n \in 1..Len(p), NEW s, ShownOf(s, n - 1, p)
  PROVE  ShownOf(Join(s, p[n]), n, p)
<1> DEFINE b == p[n]
           length == LengthOf(s)
           text == Own(b)
           head == Heading(b.key)
<1>1. p \in Seq(Blocks) /\ s \in Seq(Blocks) /\ length <= ContextBudget /\ OneEach(p)
  BY DEF Ordered, ShownOf
<1>2. b \in Blocks /\ b.key \in BlockKeys /\ b.text \in Nat \ {0}
  <2>1. b \in Blocks /\ b.text # 0
    BY <1>1 DEF AllFull
  <2> QED
    BY <2>1, BlockParts
<1>3. length \in Nat
  BY <1>1, <1>2, LengthAppend
<1> DEFINE limit == Kinds[b.key].limit
<1>4. limit \in Nat \ {0} /\ head \in Nat
  <2> HIDE DEF b
  <2> QED
    BY <1>2, KindIs
<1>5. text \in Nat \ {0} /\ \A m \in Nat : m <= b.text /\ m <= limit => m <= text
  <2>1. text = Trim(b.text, limit)
    BY DEF Own
  <2> HIDE DEF b, limit, text
  <2>2. b.text \in Nat /\ b.text # 0
    BY <1>2
  <2>3. /\ Trim(b.text, limit) \in Nat /\ Trim(b.text, limit) # 0
        /\ \A m \in Nat : m <= b.text /\ m <= limit => m <= Trim(b.text, limit)
    BY <1>4, <2>2, TrimIs
  <2> QED
    BY <2>1, <2>3
<1>6. Trim(b.text, 4000) \in Nat /\ Trim(b.text, 4000) <= b.text /\ Trim(b.text, 4000) <= 4000
  <2>1. b.text \in Nat /\ 4000 \in Nat \ {0}
    BY <1>2
  <2> HIDE DEF b
  <2> QED
    BY <2>1, TrimIs, SMTT(30)
<1>7. /\ Critical(b.key) => length + head + text <= ContextBudget
      /\ b.key = "evidence_ledger" => length + head + 4000 <= ContextBudget
  BY RoomFor
<1>8. b.key = "evidence_ledger" => Trim(b.text, 4000) <= text
  <2>1. b.key = "evidence_ledger" => Kinds[b.key].limit = 6000
    BY KindsAre
  <2> QED
    BY <1>5, <1>6, <2>1 DEF limit
<1>9. Join(s, b) = IF length + head + text <= ContextBudget THEN Append(s, Text(b.key, text))
                   ELSE IF length + head < ContextBudget
                     THEN Append(s, Text(b.key, Trim(text, ContextBudget - length - head)))
                   ELSE IF Critical(b.key) THEN Append(s, Text(b.key, Trim(text, 1)))
                   ELSE s
  BY DEF Join, Own
<1> HIDE DEF length, text, head
<1>10. CASE length + head + text <= ContextBudget
  <2>1. ShownOf(Append(s, Text(b.key, text)), n, p)
    BY <1>5, <1>8, <1>10, AddKeeps DEF length, text, head
  <2> QED
    BY <1>9, <1>10, <2>1
<1>11. CASE ~ (length + head + text <= ContextBudget) /\ length + head < ContextBudget
  <2> DEFINE room == ContextBudget - length - head
             x == Trim(text, room)
  <2>1. room \in Nat \ {0} /\ length + head + room = ContextBudget
    BY <1>3, <1>4, <1>11 DEF ContextBudget
  <2> HIDE DEF room
  <2>2. x \in Nat \ {0} /\ x <= text /\ x <= room /\ \A m \in Nat : m <= text /\ m <= room => m <= x
    BY <1>5, <2>1, TrimIs
  <2>3. ~ Critical(b.key)
    BY <1>7, <1>11
  <2>4. b.key = "evidence_ledger" => Trim(b.text, 4000) <= x
    <3>1. b.key = "evidence_ledger" => 4000 <= room
      BY <1>3, <1>4, <1>7, <2>1
    <3> QED
      BY <1>6, <1>8, <2>1, <2>2, <3>1
  <2> HIDE DEF x
  <2>5. length + head + x <= ContextBudget
    BY <1>3, <1>4, <2>1, <2>2
  <2>6. ShownOf(Append(s, Text(b.key, x)), n, p)
    BY <2>2, <2>3, <2>4, <2>5, AddKeeps DEF length, text, head
  <2> QED
    BY <1>9, <1>11, <2>6 DEF x, room
<1>12. CASE ~ (length + head < ContextBudget)
  <2>1. ~ (length + head + text <= ContextBudget)
    BY <1>3, <1>4, <1>5, <1>12 DEF ContextBudget
  <2>2. ~ Critical(b.key) /\ b.key # "evidence_ledger"
    <3>1. b.key # "evidence_ledger"
      BY <1>3, <1>4, <1>7, <1>12 DEF ContextBudget
    <3> QED
      BY <1>7, <2>1, <3>1
  <2>3. Join(s, b) = s
    BY <1>9, <1>12, <2>1, <2>2
  <2>0. n \in Nat /\ Len(p) \in Nat /\ Len(s) \in Nat
    BY <1>1
  <2>4. \A i \in 1..n : i = n \/ i \in 1..n - 1
    BY <2>0
  <2>5. \A i \in 1..n - 1 : i \in 1..n
    BY <2>0
  <2>6. NoRoom(s, b)
    <3>1. \A k \in 1..Len(s) : Priority(s[k]) >= Priority(b)
      <4> TAKE k \in 1..Len(s)
      <4>1. PICK i \in 1..n - 1 : s[k].key = p[i].key
        BY DEF ShownOf
      <4>2. i \in 1..Len(p) /\ i < n
        BY <1>1
      <4>3. Priority(p[i]) >= Priority(b)
        BY <4>2 DEF Ordered, Sorted
      <4> QED
        BY <4>1, <4>3 DEF Priority
    <3>2. Len(s) \in 0..Len(s) /\ SubSeq(s, 1, Len(s)) = s
      <4>1. Len(s) \in 0..Len(s)
        BY <2>0
      <4> QED
        BY <1>1, <1>2, <4>1, PrefixStays
    <3>3. LengthOf(SubSeq(s, 1, Len(s))) + Heading(b.key) >= ContextBudget
      <4>1. length + head >= ContextBudget
        BY <1>3, <1>4, <1>12 DEF ContextBudget
      <4> QED
        BY <3>2, <4>1 DEF length, head
    <3> QED
      BY <3>1, <3>2, <3>3 DEF NoRoom
  <2>7. ShownOf(s, n, p)
    <3>1. \A k \in 1..Len(s) : \E i \in 1..n : s[k].key = p[i].key /\ s[k].text <= Own(p[i])
      <4> TAKE k \in 1..Len(s)
      <4>1. PICK i \in 1..n - 1 : s[k].key = p[i].key /\ s[k].text <= Own(p[i])
        BY DEF ShownOf
      <4> QED
        BY <2>5, <4>1
    <3>2. \A i \in 1..n : Critical(p[i].key) => TextOf(s, p[i].key) = Own(p[i])
      BY <2>2, <2>4 DEF ShownOf
    <3>3. \A i \in 1..n : p[i].key = "evidence_ledger" => TextOf(s, p[i].key) >= Trim(p[i].text, 4000)
      BY <2>2, <2>4 DEF ShownOf
    <3>4. \A i \in 1..n : ~ Has(s, p[i].key) => NoRoom(s, p[i])
      BY <2>4, <2>6 DEF ShownOf
    <3> QED
      BY <3>1, <3>2, <3>3, <3>4 DEF ShownOf
  <2> QED
    BY <2>3, <2>7
<1> QED
  BY <1>10, <1>11, <1>12

LEMMA JoinParts ==
  ASSUME NEW s \in Seq(Blocks), NEW b \in Blocks
  PROVE  Join(s, b) \in Seq(Blocks)
<1> DEFINE length == LengthOf(s)
           text == Trim(b.text, Kinds[b.key].limit)
           head == Heading(b.key)
<1>1. b.key \in BlockKeys /\ b.text \in Nat
  BY BlockParts
<1>2. length \in Nat /\ head \in Nat /\ Kinds[b.key].limit \in Nat
  BY <1>1, LengthAppend, KindIs
<1>3. text \in Nat /\ Trim(text, 1) \in Nat
  BY <1>1, <1>2 DEF Trim
<1>4. ASSUME NEW n \in Nat PROVE Append(s, Text(b.key, n)) \in Seq(Blocks)
  <2>1. Text(b.key, n) \in Blocks
    BY <1>1, TextIs
  <2> QED
    BY <2>1, AppendParts
<1>5. Join(s, b) = IF length + head + text <= ContextBudget THEN Append(s, Text(b.key, text))
                   ELSE IF length + head < ContextBudget
                     THEN Append(s, Text(b.key, Trim(text, ContextBudget - length - head)))
                   ELSE IF Critical(b.key) THEN Append(s, Text(b.key, Trim(text, 1)))
                   ELSE s
  BY DEF Join
<1> HIDE DEF length, text, head
<1>6. length + head < ContextBudget => Trim(text, ContextBudget - length - head) \in Nat
  BY <1>2, <1>3 DEF Trim, ContextBudget
<1> QED
  BY <1>3, <1>4, <1>5, <1>6

(* What is shown of the first blocks of a list comes from what is shown of one less. *)
Showings(f, list) ==
  /\ f[0] = <<>> /\ \A n \in 0..Len(list) : f[n] \in Seq(Blocks)
  /\ \A n \in 1..Len(list) : f[n] = Join(f[n - 1], list[n])

LEMMA RenderSteps ==
  ASSUME NEW list \in Seq(Blocks)
  PROVE  \E f : Showings(f, list) /\ Rendered(list) = f[Len(list)]
<1> DEFINE N == Len(list)
           Defined(f) == f = [n \in 0..N |-> IF n = 0 THEN <<>> ELSE Join(f[n - 1], list[n])]
           f == CHOOSE f : Defined(f)
           D == Seq(Blocks)
           G == [d \in D |-> [n \in 1..N |-> Join(d, list[n])]]
<1>1. N \in Nat /\ <<>> \in D
  OBVIOUS
<1>2. ASSUME NEW d \in D, NEW n \in 1..N PROVE Join(d, list[n]) \in D
  <2>1. list[n] \in Blocks
    OBVIOUS
  <2> QED
    BY <2>1, JoinParts
<1> HIDE DEF N, D
<1>3. \A d \in D, n \in 1..N : G[d][n] \in D
  BY <1>2
<1>4. PICK g : Steps(g, N, D, <<>>, G)
  <2> HIDE DEF G
  <2> QED
    BY <1>1, <1>3, StepsExist
<1> DEFINE h == [n \in 0..N |-> g[n]]
<1>5. Defined(h)
  <2>1. ASSUME NEW n \in 1..N PROVE h[n] = Join(h[n - 1], list[n])
    <3>1. n - 1 \in 0..N /\ n \in 0..N
      BY <1>1
    <3>2. g[n - 1] \in D
      BY <1>4, <3>1 DEF Steps
    <3>3. g[n] = Join(g[n - 1], list[n])
      BY <1>4, <3>2 DEF Steps
    <3> QED
      BY <3>1, <3>3
  <2>2. h[0] = <<>>
    BY <1>1, <1>4 DEF Steps
  <2>3. \A n \in 0..N : n = 0 \/ n \in 1..N
    BY <1>1
  <2>4. h = [n \in 0..N |-> h[n]]
    OBVIOUS
  <2> HIDE DEF h
  <2> QED
    BY <2>1, <2>2, <2>3, <2>4
<1>6. Defined(f)
  BY <1>5
<1>7. Rendered(list) = f[N]
  BY DEF Rendered, N
<1> HIDE DEF f, G
<1>8. f[0] = <<>> /\ \A n \in 1..N : f[n] = Join(f[n - 1], list[n])
  <2>1. 0 \in 0..N /\ \A n \in 1..N : n \in 0..N /\ n # 0
    BY <1>1
  <2> QED
    BY <1>6, <2>1
<1>9. \A n \in 0..N : f[n] \in D
  <2> DEFINE T == {m \in 0..N : f[m] \in D}
  <2>1. 0 \in T
    BY <1>1, <1>8
  <2>2. ASSUME NEW n \in 1..N, n - 1 \in T PROVE n \in T
    BY <1>1, <1>2, <1>8, <2>2
  <2>3. \A n \in 1..N : n - 1 \in T => n \in T
    BY <2>2
  <2> HIDE DEF T
  <2>4. \A n \in 0..N : n \in T
    BY <1>1, <2>1, <2>3, Reaches
  <2> QED
    BY <2>4 DEF T
<1> QED
  BY <1>7, <1>8, <1>9 DEF N, D, Showings

LEMMA NothingShown ==
  ASSUME NEW p, Ordered(p)
  PROVE  ShownOf(<<>>, 0, p)
<1>1. <<>> \in Seq(Blocks) /\ Len(<<>>) = 0 /\ 1..0 = {}
  OBVIOUS
<1> DEFINE s == <<>>
<1>2. \A key : ~ Has(s, key)
  BY <1>1 DEF Has
<1>3. \A key : Cost(s, key) = 0
  BY <1>2 DEF Cost
<1>4. LengthOf(s) = 17
  BY LengthNone DEF TitleText
<1> HIDE DEF s
<1>5. SumOf(s) = 17
  <2>1. CriticalSum(s) = 0 /\ HighSum(s) = 0 /\ LowSum(s) = 0
    BY <1>3 DEF CriticalSum, HighSum, LowSum
  <2> QED
    BY <2>1 DEF SumOf, TitleText
<1>6. OneEach(s) /\ AllFull(s) /\ s \in Seq(Blocks)
  BY <1>1 DEF s, OneEach, AllFull
<1>7. \A k \in 1..Len(s) : FALSE
  BY <1>1 DEF s
<1>8. LengthOf(s) <= ContextBudget
  BY <1>4 DEF ContextBudget
<1>9. ShownOf(s, 0, p)
  BY <1>1, <1>4, <1>5, <1>6, <1>7, <1>8 DEF ShownOf
<1> QED
  BY <1>9 DEF s

LEMMA RenderedShown ==
  ASSUME NEW p, Ordered(p), AllFull(p), Modest(p)
  PROVE  ShownOf(Rendered(p), Len(p), p)
<1> DEFINE N == Len(p)
<1>1. p \in Seq(Blocks) /\ N \in Nat
  BY DEF Ordered
<1>2. PICK f : Showings(f, p) /\ Rendered(p) = f[N]
  BY <1>1, RenderSteps
<1> DEFINE T == {m \in 0..N : ShownOf(f[m], m, p)}
<1>3. 0 \in T
  BY <1>1, <1>2, NothingShown DEF Showings
<1>4. ASSUME NEW n \in 1..N, n - 1 \in T PROVE n \in T
  <2>1. ShownOf(f[n - 1], n - 1, p)
    BY <1>4
  <2>2. ShownOf(Join(f[n - 1], p[n]), n, p)
    BY <2>1, JoinKeeps
  <2>3. f[n] = Join(f[n - 1], p[n]) /\ n \in 0..N
    BY <1>1, <1>2 DEF Showings
  <2> QED
    BY <2>2, <2>3
<1>5. \A n \in 1..N : n - 1 \in T => n \in T
  BY <1>4
<1> HIDE DEF T
<1>6. \A n \in 0..N : n \in T
  BY <1>1, <1>3, <1>5, Reaches
<1>7. N \in T
  BY <1>1, <1>6
<1> QED
  BY <1>2, <1>7 DEF T

-----------------------------------------------------------------------------
(* What is shown of blocks, whatever their order.                             *)
LEMMA OrderKeeps ==
  ASSUME NEW list \in Seq(Blocks), OneEach(list), AllFull(list), Modest(list)
  PROVE  LET p == ByPriority(list) IN
         /\ Ordered(p) /\ AllFull(p) /\ Modest(p)
         /\ \A j \in 1..Len(list) : \E i \in 1..Len(p) : p[i] = list[j]
<1> DEFINE p == ByPriority(list)
<1>1. /\ Ordered(p)
      /\ \A i \in 1..Len(p) : \E j \in 1..Len(list) : p[i] = list[j]
      /\ \A j \in 1..Len(list) : \E i \in 1..Len(p) : p[i] = list[j]
  BY ByPriorityParts
<1> HIDE DEF p
<1>2. p \in Seq(Blocks) /\ OneEach(p)
  BY <1>1 DEF Ordered
<1>3. AllFull(p)
  BY <1>1 DEF AllFull
<1>4. ASSUME NEW key PROVE (Has(p, key) <=> Has(list, key)) /\ TextOf(p, key) = TextOf(list, key)
  <2>1. Has(p, key) <=> Has(list, key)
    BY <1>1 DEF Has
  <2>2. CASE Has(p, key)
    <3>1. PICK i \in 1..Len(p) : p[i].key = key
      BY <2>2 DEF Has
    <3>2. PICK j \in 1..Len(list) : p[i] = list[j]
      BY <1>1
    <3>3. TextOf(p, key) = p[i].text
      BY <1>2, <3>1, TextAt
    <3>4. TextOf(list, key) = list[j].text
      BY <3>1, <3>2, TextAt
    <3> QED
      BY <2>1, <3>2, <3>3, <3>4
  <2>3. CASE ~ Has(p, key)
    BY <2>1, <2>3, TextNone
  <2> QED
    BY <2>2, <2>3
<1>5. Modest(p)
  BY <1>4 DEF Modest
<1> QED
  BY <1>1, <1>3, <1>5 DEF p

LEMMA RenderIs ==
  ASSUME NEW list \in Seq(Blocks), OneEach(list), AllFull(list), Modest(list)
  PROVE  LET s == Render(list) IN
         /\ LengthOf(s) <= ContextBudget
         /\ \A i \in 1..Len(list) :
              /\ Critical(list[i].key) => TextOf(s, list[i].key) = Own(list[i])
              /\ list[i].key = "evidence_ledger" =>
                   TextOf(s, list[i].key) >= Trim(list[i].text, 4000)
              /\ TextOf(s, list[i].key) = 0 => NoRoom(s, list[i])
         /\ \A key : TextOf(s, key) \in Nat
<1> DEFINE p == ByPriority(list)
           s == Render(list)
<1>1. /\ Ordered(p) /\ AllFull(p) /\ Modest(p)
      /\ \A j \in 1..Len(list) : \E i \in 1..Len(p) : p[i] = list[j]
  BY OrderKeeps
<1>2. s = Rendered(p)
  BY DEF Render
<1> HIDE DEF p, s
<1>3. ShownOf(s, Len(p), p)
  BY <1>1, <1>2, RenderedShown
<1>4. s \in Seq(Blocks) /\ OneEach(s) /\ AllFull(s) /\ LengthOf(s) <= ContextBudget
  BY <1>3 DEF ShownOf
<1>5. ASSUME NEW j \in 1..Len(list)
      PROVE  /\ Critical(list[j].key) => TextOf(s, list[j].key) = Own(list[j])
             /\ list[j].key = "evidence_ledger" =>
                  TextOf(s, list[j].key) >= Trim(list[j].text, 4000)
             /\ TextOf(s, list[j].key) = 0 => NoRoom(s, list[j])
  <2>1. PICK i \in 1..Len(p) : p[i] = list[j]
    BY <1>1
  <2>2. /\ Critical(p[i].key) => TextOf(s, p[i].key) = Own(p[i])
        /\ p[i].key = "evidence_ledger" => TextOf(s, p[i].key) >= Trim(p[i].text, 4000)
        /\ ~ Has(s, p[i].key) => NoRoom(s, p[i])
    BY <1>3 DEF ShownOf
  <2>3. TextOf(s, p[i].key) = 0 => ~ Has(s, p[i].key)
    BY <1>4, FullHas
  <2> QED
    BY <2>1, <2>2, <2>3
<1>6. \A key : TextOf(s, key) \in Nat
  BY <1>4, TextNat
<1> QED
  BY <1>4, <1>5, <1>6 DEF s

-----------------------------------------------------------------------------
(* The texts a call of the model is told.                                    *)
Texts(s, keys) == s \in Seq(Blocks) /\ OneEach(s) /\ \A key : Has(s, key) => key \in keys

LEMMA OneText ==
  ASSUME NEW key \in BlockKeys, NEW n \in Nat
  PROVE  LET s == <<Text(key, n)>> IN
         /\ Texts(s, {key}) /\ Has(s, key) /\ TextOf(s, key) = n
<1> DEFINE b == Text(key, n)
           s == <<b>>
<1>1. b \in Blocks /\ b.key = key /\ b.text = n
  BY TextIs
<1> HIDE DEF b
<1>2. s \in Seq(Blocks) /\ Len(s) = 1 /\ s[1] = b
  BY <1>1
<1> HIDE DEF s
<1>3. \A i \in 1..Len(s) : i = 1
  BY <1>2
<1>4. OneEach(s)
  BY <1>3 DEF OneEach
<1>5. 1 \in 1..Len(s)
  BY <1>2
<1>6. Has(s, key) /\ TextOf(s, key) = n
  BY <1>1, <1>2, <1>4, <1>5, TextAt
<1>7. \A k : Has(s, k) => k = key
  BY <1>1, <1>2, <1>3 DEF Has
<1> QED
  BY <1>2, <1>4, <1>6, <1>7 DEF s, b, Texts

(* The texts of a list, among others, and no other texts than of two.          *)
Holds(u, s) == \A key : Has(s, key) => Has(u, key) /\ TextOf(u, key) = TextOf(s, key)
Adds(u, s, t) == \A key : Has(u, key) => Has(s, key) \/ Has(t, key)

LEMMA JoinedTexts ==
  ASSUME NEW K, NEW L, K \cap L = {}, NEW s, Texts(s, K), NEW t, Texts(t, L)
  PROVE  /\ Texts(s \o t, K \cup L)
         /\ Holds(s \o t, s) /\ Holds(s \o t, t) /\ Adds(s \o t, s, t)
<1>1. s \in Seq(Blocks) /\ t \in Seq(Blocks) /\ OneEach(s) /\ OneEach(t)
  BY DEF Texts
<1>2. Apart(s, t)
  <2> SUFFICES ASSUME NEW i \in 1..Len(s), NEW j \in 1..Len(t), s[i].key = t[j].key PROVE FALSE
    BY DEF Apart
  <2>1. Has(s, s[i].key) /\ Has(t, s[i].key)
    BY DEF Has
  <2> QED
    BY <2>1 DEF Texts
<1> DEFINE u == s \o t
<1>3. /\ u \in Seq(Blocks) /\ OneEach(u)
      /\ \A key : Has(u, key) <=> Has(s, key) \/ Has(t, key)
      /\ \A key : TextOf(u, key) = IF Has(s, key) THEN TextOf(s, key) ELSE TextOf(t, key)
  BY <1>1, <1>2, JoinedParts
<1> HIDE DEF u
<1>4. \A key : ~ (Has(s, key) /\ Has(t, key))
  BY DEF Texts
<1>5. Texts(u, K \cup L)
  BY <1>3 DEF Texts
<1>6. Holds(u, s) /\ Holds(u, t)
  BY <1>3, <1>4 DEF Holds
<1>7. Adds(u, s, t)
  BY <1>3 DEF Adds
<1> QED
  BY <1>5, <1>6, <1>7 DEF u

LEMMA TwoTexts ==
  ASSUME NEW k \in BlockKeys, NEW l \in BlockKeys, k # l, NEW m \in Nat, NEW n \in Nat
  PROVE  LET s == <<Text(k, m), Text(l, n)>> IN
         /\ Texts(s, {k, l}) /\ Has(s, k) /\ TextOf(s, k) = m /\ Has(s, l) /\ TextOf(s, l) = n
<1> DEFINE a == <<Text(k, m)>>
           b == <<Text(l, n)>>
<1>1. /\ Texts(a, {k}) /\ Has(a, k) /\ TextOf(a, k) = m
      /\ Texts(b, {l}) /\ Has(b, l) /\ TextOf(b, l) = n
  BY OneText
<1>2. <<Text(k, m), Text(l, n)>> = a \o b
  OBVIOUS
<1> HIDE DEF a, b
<1>3. {k} \cap {l} = {} /\ {k} \cup {l} = {k, l}
  OBVIOUS
<1>4. /\ Texts(a \o b, {k} \cup {l})
      /\ Has(a \o b, k) /\ TextOf(a \o b, k) = m /\ Has(a \o b, l) /\ TextOf(a \o b, l) = n
  <2>1. Texts(a \o b, {k} \cup {l}) /\ Holds(a \o b, a) /\ Holds(a \o b, b)
    BY <1>1, <1>3, JoinedTexts
  <2> QED
    BY <1>1, <2>1 DEF Holds
<1> QED
  BY <1>2, <1>3, <1>4

LEMMA IfReadIs ==
  ASSUME NEW key \in BlockKeys, NEW n \in Nat \cup {Unread}
  PROVE  Texts(IfRead(key, n), {key})
<1>1. CASE n = Unread
  <2>1. <<>> \in Seq(Blocks) /\ Len(<<>>) = 0
    OBVIOUS
  <2>2. IfRead(key, n) = <<>>
    BY <1>1 DEF IfRead
  <2> QED
    BY <2>1, <2>2 DEF Texts, OneEach, Has
<1>2. CASE n # Unread
  <2>1. IfRead(key, n) = <<Text(key, n)>> /\ n \in Nat
    BY <1>2 DEF IfRead
  <2> QED
    BY <2>1, OneText
<1> QED
  BY <1>1, <1>2

BlocksTypes ==
  /\ intent \in {"chat", "weak", "vague", "cancel", "cancel_id", "strong", "due"}
  /\ skillText \in Nat /\ payload \in Nat /\ entries \in Nat
  /\ policy \in {"none", "one", "several"} /\ recall \in Nat \cup {Unread}

GuidanceLength == IF Guided THEN GuidanceText(intent) ELSE 0

LEMMA GuidanceIs ==
  ASSUME BlocksTypes
  PROVE  /\ Texts(Guidance, {"schedule_guidance", "cron_execution"})
         /\ Has(Guidance, "schedule_guidance")
         /\ TextOf(Guidance, "schedule_guidance") = GuidanceLength
         /\ intent # "due" => ~ Has(Guidance, "cron_execution")
         /\ GuidanceLength \in Nat /\ GuidanceLength <= 975
         /\ (GuidanceLength > 0 <=> Guided) /\ (intent = "due" => GuidanceLength = 0)
<1>1. /\ GuidanceLength \in Nat /\ GuidanceLength <= 975
      /\ (GuidanceLength > 0 <=> Guided) /\ (intent = "due" => GuidanceLength = 0)
  BY DEF BlocksTypes, GuidanceLength, GuidanceText, Guided
<1>2. "schedule_guidance" \in BlockKeys /\ "cron_execution" \in BlockKeys
  BY DEF BlockKeys
<1>3. CASE intent = "due"
  <2>1. DueText(payload) \in Nat
    BY DEF BlocksTypes, DueText
  <2>2. Guidance = <<Text("schedule_guidance", 0), Text("cron_execution", DueText(payload))>>
    BY <1>3 DEF Guidance
  <2>3. /\ Texts(Guidance, {"schedule_guidance", "cron_execution"})
        /\ Has(Guidance, "schedule_guidance") /\ TextOf(Guidance, "schedule_guidance") = 0
    BY <1>2, <2>1, <2>2, TwoTexts
  <2> QED
    BY <1>1, <1>3, <2>3
<1>4. CASE intent # "due"
  <2>1. Guidance = <<Text("schedule_guidance", GuidanceLength)>>
    BY <1>4 DEF Guidance, GuidanceLength
  <2>2. /\ Texts(Guidance, {"schedule_guidance"})
        /\ Has(Guidance, "schedule_guidance")
        /\ TextOf(Guidance, "schedule_guidance") = GuidanceLength
    BY <1>1, <1>2, <2>1, OneText
  <2> QED
    BY <1>1, <2>2 DEF Texts
<1> QED
  BY <1>3, <1>4

Told(summary, memory, tools) ==
  <<Text("run_budget", BudgetText), Text("skills", skillText)>>
    \o IfRead("session_summary", summary) \o IfRead("active_memory", memory)
    \o <<Text("current_time", TimeText)>> \o Guidance
    \o <<Text("evidence_ledger", LedgerText(entries)), Text("tool_policy", PolicyText(tools))>>

(* What there is in the texts of a call, with these tools required.             *)
ToldParts(t, tools) ==
  /\ t \in Seq(Blocks) /\ OneEach(t)
  /\ Has(t, "run_budget") /\ TextOf(t, "run_budget") = 402
  /\ Has(t, "current_time") /\ TextOf(t, "current_time") = 190
  /\ Has(t, "schedule_guidance") /\ TextOf(t, "schedule_guidance") = GuidanceLength
  /\ Has(t, "evidence_ledger") /\ TextOf(t, "evidence_ledger") = LedgerText(entries)
  /\ Has(t, "tool_policy") /\ TextOf(t, "tool_policy") = PolicyText(tools)
  /\ PolicyText(tools) <= 111
  /\ intent # "due" => ~ Has(t, "cron_execution")

LEMMA ToldIs ==
  ASSUME BlocksTypes, NEW summary \in Nat \cup {Unread}, NEW memory \in Nat \cup {Unread},
         NEW tools \in {"none", "one", "several"}
  PROVE  ToldParts(Told(summary, memory, tools), tools)
<1>1. /\ LedgerText(entries) \in Nat /\ PolicyText(tools) \in Nat /\ PolicyText(tools) <= 111
      /\ BudgetText = 402 /\ TimeText = 190 /\ skillText \in Nat
  <2>1. LedgerText(entries) \in Nat
    <3>1. entries * EntryText \in Nat
      <4>1. entries \in Nat /\ EntryText \in Nat
        BY RuntimeContextAssumption DEF BlocksTypes
      <4> QED
        BY <4>1
    <3> QED
      BY <3>1 DEF LedgerText
  <2> QED
    BY <2>1 DEF PolicyText, BudgetText, TimeText, BlocksTypes
<1> DEFINE a == <<Text("run_budget", BudgetText), Text("skills", skillText)>>
           b == IfRead("session_summary", summary)
           c == IfRead("active_memory", memory)
           d == <<Text("current_time", TimeText)>>
           e == Guidance
           f == <<Text("evidence_ledger", LedgerText(entries)), Text("tool_policy", PolicyText(tools))>>
           ab == a \o b
           abc == ab \o c
           abcd == abc \o d
           abcde == abcd \o e
           t == abcde \o f
           A == {"run_budget", "skills"}
           AB == A \cup {"session_summary"}
           ABC == AB \cup {"active_memory"}
           ABCD == ABC \cup {"current_time"}
           ABCDE == ABCD \cup {"schedule_guidance", "cron_execution"}
           F == {"evidence_ledger", "tool_policy"}
<1>2. /\ "run_budget" \in BlockKeys /\ "skills" \in BlockKeys /\ "session_summary" \in BlockKeys
      /\ "active_memory" \in BlockKeys /\ "current_time" \in BlockKeys
      /\ "evidence_ledger" \in BlockKeys /\ "tool_policy" \in BlockKeys
  BY DEF BlockKeys
<1>3. Texts(a, A) /\ Has(a, "run_budget") /\ TextOf(a, "run_budget") = 402
  <2>1. BudgetText \in Nat /\ BudgetText = 402 /\ skillText \in Nat /\ "run_budget" # "skills"
    BY <1>1
  <2>2. Texts(a, A) /\ Has(a, "run_budget") /\ TextOf(a, "run_budget") = BudgetText
    BY <1>2, <2>1, TwoTexts, SMTT(30)
  <2> QED
    BY <2>1, <2>2
<1>4. Texts(b, {"session_summary"}) /\ Texts(c, {"active_memory"})
  BY <1>2, IfReadIs
<1>5. Texts(d, {"current_time"}) /\ Has(d, "current_time") /\ TextOf(d, "current_time") = 190
  <2>1. TimeText \in Nat /\ TimeText = 190
    BY <1>1
  <2>2. Texts(d, {"current_time"}) /\ Has(d, "current_time") /\ TextOf(d, "current_time") = TimeText
    BY <1>2, <2>1, OneText
  <2> QED
    BY <2>1, <2>2
<1>6. /\ Texts(e, {"schedule_guidance", "cron_execution"})
      /\ Has(e, "schedule_guidance") /\ TextOf(e, "schedule_guidance") = GuidanceLength
      /\ intent # "due" => ~ Has(e, "cron_execution")
  BY GuidanceIs
<1>7. /\ Texts(f, F)
      /\ Has(f, "evidence_ledger")
      /\ TextOf(f, "evidence_ledger") = LedgerText(entries)
      /\ Has(f, "tool_policy") /\ TextOf(f, "tool_policy") = PolicyText(tools)
  BY <1>1, <1>2, TwoTexts
<1>8. Told(summary, memory, tools) = t
  BY DEF Told
<1> HIDE DEF a, b, c, d, e, f
<1>9. /\ A \cap {"session_summary"} = {} /\ AB \cap {"active_memory"} = {}
      /\ ABC \cap {"current_time"} = {} /\ ABCD \cap {"schedule_guidance", "cron_execution"} = {}
      /\ ABCDE \cap F = {} /\ "cron_execution" \notin ABCD /\ "cron_execution" \notin F
  OBVIOUS
<1> HIDE DEF A, AB, ABC, ABCD, ABCDE, F
<1>10. Texts(ab, AB) /\ Has(ab, "run_budget") /\ TextOf(ab, "run_budget") = 402
  <2>1. Texts(ab, AB) /\ Holds(ab, a)
    BY <1>3, <1>4, <1>9, JoinedTexts DEF AB
  <2> HIDE DEF ab
  <2> QED
    BY <1>3, <2>1 DEF Holds
<1> HIDE DEF ab
<1>11. Texts(abc, ABC) /\ Has(abc, "run_budget") /\ TextOf(abc, "run_budget") = 402
  <2>1. Texts(abc, ABC) /\ Holds(abc, ab)
    BY <1>4, <1>9, <1>10, JoinedTexts DEF ABC
  <2> HIDE DEF abc
  <2> QED
    BY <1>10, <2>1 DEF Holds
<1> HIDE DEF abc
<1>12. /\ Texts(abcd, ABCD) /\ Has(abcd, "run_budget") /\ TextOf(abcd, "run_budget") = 402
       /\ Has(abcd, "current_time") /\ TextOf(abcd, "current_time") = 190
  <2>1. Texts(abcd, ABCD) /\ Holds(abcd, abc) /\ Holds(abcd, d)
    BY <1>5, <1>9, <1>11, JoinedTexts DEF ABCD
  <2> HIDE DEF abcd
  <2> QED
    BY <1>5, <1>11, <2>1 DEF Holds
<1> HIDE DEF abcd
<1>13. /\ Texts(abcde, ABCDE) /\ Has(abcde, "run_budget") /\ TextOf(abcde, "run_budget") = 402
       /\ Has(abcde, "current_time") /\ TextOf(abcde, "current_time") = 190
       /\ Has(abcde, "schedule_guidance") /\ TextOf(abcde, "schedule_guidance") = GuidanceLength
       /\ intent # "due" => ~ Has(abcde, "cron_execution")
  <2>1. ~ Has(abcd, "cron_execution")
    BY <1>9, <1>12 DEF Texts
  <2>2. Texts(abcde, ABCDE) /\ Holds(abcde, abcd) /\ Holds(abcde, e) /\ Adds(abcde, abcd, e)
    BY <1>6, <1>9, <1>12, JoinedTexts DEF ABCDE
  <2> HIDE DEF abcde
  <2> QED
    BY <1>6, <1>12, <2>1, <2>2 DEF Holds, Adds
<1> HIDE DEF abcde
<1>14. /\ Texts(t, ABCDE \cup F) /\ Has(t, "run_budget") /\ TextOf(t, "run_budget") = 402
       /\ Has(t, "current_time") /\ TextOf(t, "current_time") = 190
       /\ Has(t, "schedule_guidance") /\ TextOf(t, "schedule_guidance") = GuidanceLength
       /\ Has(t, "evidence_ledger") /\ TextOf(t, "evidence_ledger") = LedgerText(entries)
       /\ Has(t, "tool_policy") /\ TextOf(t, "tool_policy") = PolicyText(tools)
       /\ intent # "due" => ~ Has(t, "cron_execution")
  <2>1. ~ Has(f, "cron_execution")
    BY <1>7, <1>9 DEF Texts
  <2>2. ABCDE \cap F = {} /\ Texts(abcde, ABCDE) /\ Texts(f, F)
    BY <1>7, <1>9, <1>13
  <2>3. Texts(t, ABCDE \cup F)
    BY <2>2, JoinedTexts
  <2>4. Holds(t, abcde) /\ Holds(t, f) /\ Adds(t, abcde, f)
    BY <2>2, JoinedTexts
  <2> HIDE DEF t
  <2>5. /\ Has(t, "run_budget") /\ TextOf(t, "run_budget") = 402
        /\ Has(t, "current_time") /\ TextOf(t, "current_time") = 190
        /\ Has(t, "schedule_guidance") /\ TextOf(t, "schedule_guidance") = GuidanceLength
    BY <1>13, <2>4 DEF Holds
  <2>6. /\ Has(t, "evidence_ledger") /\ TextOf(t, "evidence_ledger") = LedgerText(entries)
        /\ Has(t, "tool_policy") /\ TextOf(t, "tool_policy") = PolicyText(tools)
    BY <1>7, <2>4 DEF Holds
  <2>7. intent # "due" => ~ Has(t, "cron_execution")
    BY <1>13, <2>1, <2>4 DEF Adds
  <2> QED
    BY <2>3, <2>5, <2>6, <2>7
<1> HIDE DEF t
<1>15. t \in Seq(Blocks) /\ OneEach(t)
  BY <1>14 DEF Texts
<1>16. ToldParts(t, tools)
  BY <1>1, <1>14, <1>15 DEF ToldParts
<1> QED
  BY <1>8, <1>16

-----------------------------------------------------------------------------
(* The inductive invariant.  What a call is told stays until the next one tells *)
(* anew, so the texts that are never long are never long, and the guidance for   *)
(* schedules is not there when a job is due, nor the notice of it otherwise.     *)
Brief ==
  /\ TextOf(blocks, "run_budget") <= 402 /\ TextOf(blocks, "current_time") <= 190
  /\ TextOf(blocks, "tool_policy") <= 111 /\ TextOf(blocks, "schedule_guidance") <= 975
  /\ intent = "due" => TextOf(blocks, "schedule_guidance") = 0
  /\ intent # "due" => TextOf(blocks, "cron_execution") = 0

ToldNow ==
  awaits = "reply" =>
    /\ TextOf(blocks, "tool_policy") = PolicyText(policy)
    /\ TextOf(blocks, "evidence_ledger") = LedgerText(entries)
    /\ TextOf(blocks, "schedule_guidance") > 0 <=> Guided

BlocksIs ==
  /\ BlocksTypes
  /\ blocks \in Seq(Blocks) /\ OneEach(blocks) /\ AllFull(blocks)
  /\ Brief /\ ToldNow

LEMMA BlocksStart == BlocksInit => BlocksIs
<1> SUFFICES ASSUME BlocksInit PROVE BlocksIs
  OBVIOUS
<1>1. BlocksTypes
  BY RuntimeContextAssumption DEF BlocksInit, BlocksTypes
<1>2. blocks = <<>> /\ awaits = "call"
  BY DEF BlocksInit
<1>3. blocks \in Seq(Blocks) /\ Len(blocks) = 0
  BY <1>2
<1>4. OneEach(blocks) /\ AllFull(blocks) /\ \A key : ~ Has(blocks, key)
  BY <1>3 DEF OneEach, AllFull, Has
<1>5. \A key : TextOf(blocks, key) = 0
  BY <1>4, TextNone
<1>6. Brief /\ ToldNow
  BY <1>2, <1>5 DEF Brief, ToldNow
<1> QED
  BY <1>1, <1>3, <1>4, <1>6 DEF BlocksIs

LEMMA CallKeeps ==
  ASSUME BlocksIs, BeforeModelCall
  PROVE  BlocksIs'
<1>1. /\ BlocksTypes /\ blocks \in Seq(Blocks) /\ OneEach(blocks) /\ AllFull(blocks) /\ Brief
  BY DEF BlocksIs
<1>2. PICK summary \in SummaryTexts \cup {Unread}, memory \in MemoryTexts \cup {Unread} :
        /\ recall' = IF recall = Unread THEN memory ELSE recall
        /\ blocks' = Put(blocks, Told(summary, recall', policy'))
  BY DEF BeforeModelCall, Told
<1>3. /\ policy' = NextPolicy /\ UNCHANGED <<intent, skillText, payload, entries, called>>
  BY DEF BeforeModelCall
<1>4. summary \in Nat \cup {Unread} /\ recall' \in Nat \cup {Unread}
  BY <1>1, <1>2, RuntimeContextAssumption DEF BlocksTypes
<1>5. policy' \in {"none", "one", "several"}
  BY <1>1, <1>3 DEF NextPolicy, BlocksTypes
<1>6. BlocksTypes'
  BY <1>1, <1>3, <1>4, <1>5 DEF BlocksTypes
<1>0. PICK remembered, tools : remembered = recall' /\ tools = policy'
  OBVIOUS
<1> DEFINE t == Told(summary, remembered, tools)
<1>7. ToldParts(t, tools)
  <2>1. remembered \in Nat \cup {Unread} /\ tools \in {"none", "one", "several"}
    BY <1>0, <1>4, <1>5
  <2> QED
    BY <1>1, <1>4, <2>1, ToldIs
<1> HIDE DEF t
<1>8. /\ blocks' \in Seq(Blocks) /\ OneEach(blocks') /\ AllFull(blocks')
      /\ \A key : TextOf(blocks', key) = IF Has(t, key) THEN TextOf(t, key)
                                         ELSE TextOf(blocks, key)
  <2>1. blocks' = Put(blocks, t)
    BY <1>0, <1>2 DEF t
  <2> QED
    BY <1>1, <1>7, <2>1, PutParts DEF ToldParts
<1>9. /\ GuidanceLength <= 975 /\ (GuidanceLength > 0 <=> Guided)
      /\ (intent = "due" => GuidanceLength = 0)
  BY <1>1, GuidanceIs
<1>10. intent # "due" => TextOf(blocks, "cron_execution") = 0
  BY <1>1 DEF Brief
<1>11. /\ TextOf(blocks', "run_budget") = 402 /\ TextOf(blocks', "current_time") = 190
       /\ TextOf(blocks', "schedule_guidance") = GuidanceLength
       /\ TextOf(blocks', "evidence_ledger") = LedgerText(entries)
       /\ TextOf(blocks', "tool_policy") = PolicyText(tools)
       /\ intent # "due" => TextOf(blocks', "cron_execution") = 0
  BY <1>7, <1>8, <1>10 DEF ToldParts
<1>12. Brief'
  BY <1>3, <1>7, <1>9, <1>11 DEF Brief, ToldParts
<1>13. ToldNow'
  <2>1. PolicyText(policy)' = PolicyText(tools) /\ LedgerText(entries)' = LedgerText(entries)
        /\ (Guided' <=> Guided)
    BY <1>0, <1>3 DEF PolicyText, LedgerText, Guided
  <2>2. TextOf(blocks', "schedule_guidance") > 0 <=> Guided'
    BY <1>9, <1>11, <2>1
  <2> QED
    BY <1>11, <2>1, <2>2 DEF ToldNow
<1> QED
  BY <1>6, <1>8, <1>12, <1>13 DEF BlocksIs

LEMMA BlocksStep == BlocksIs /\ [BlocksNext]_blocksVars => BlocksIs'
<1> SUFFICES ASSUME BlocksIs, [BlocksNext]_blocksVars PROVE BlocksIs'
  OBVIOUS
<1>1. CASE BeforeModelCall
  BY <1>1, CallKeeps
<1>2. ASSUME UNCHANGED <<intent, blocks>>, awaits' # "reply", BlocksTypes'
      PROVE  BlocksIs'
  <2>1. blocks' \in Seq(Blocks) /\ OneEach(blocks') /\ AllFull(blocks')
    BY <1>2 DEF BlocksIs
  <2>2. Brief'
    BY <1>2 DEF BlocksIs, Brief
  <2>3. ToldNow'
    BY <1>2 DEF ToldNow
  <2> QED
    BY <1>2, <2>1, <2>2, <2>3 DEF BlocksIs
<1>3. BlocksTypes
  BY DEF BlocksIs
<1>4. CASE ReplyWithCalls
  <2>1. entries' \in Nat
    BY <1>3, <1>4, RuntimeContextAssumption DEF ReplyWithCalls, BlocksTypes
  <2>2. BlocksTypes' /\ UNCHANGED <<intent, blocks>> /\ awaits' # "reply"
    BY <1>3, <1>4, <2>1 DEF ReplyWithCalls, BlocksTypes
  <2> QED
    BY <1>2, <2>2
<1>5. CASE NudgeIgnored
  <2>1. BlocksTypes' /\ UNCHANGED <<intent, blocks>> /\ awaits' # "reply"
    BY <1>3, <1>5 DEF NudgeIgnored, BlocksTypes
  <2> QED
    BY <1>2, <2>1
<1>6. CASE NudgeFinal
  <2>1. BlocksTypes' /\ UNCHANGED <<intent, blocks>> /\ awaits' # "reply"
    BY <1>3, <1>6 DEF NudgeFinal, BlocksTypes
  <2> QED
    BY <1>2, <2>1
<1>7. CASE FinishReply
  <2>1. BlocksTypes' /\ UNCHANGED <<intent, blocks>> /\ awaits' # "reply"
    BY <1>3, <1>7 DEF FinishReply, BlocksTypes
  <2> QED
    BY <1>2, <2>1
<1>8. CASE UNCHANGED blocksVars
  <2>1. UNCHANGED <<intent, skillText, payload, blocks, policy, entries, recall, awaits>>
    BY <1>8 DEF blocksVars
  <2>2. BlocksTypes' /\ Brief' /\ ToldNow'
    BY <2>1 DEF BlocksIs, BlocksTypes, Brief, ToldNow, PolicyText, LedgerText, Guided
  <2> QED
    BY <2>1, <2>2 DEF BlocksIs
<1> QED
  BY <1>1, <1>4, <1>5, <1>6, <1>7, <1>8 DEF BlocksNext

LEMMA BlocksFollow == BlocksIs => BlocksInv
<1> SUFFICES ASSUME BlocksIs PROVE BlocksInv
  OBVIOUS
<1>1. blocks \in Seq(Blocks) /\ OneEach(blocks) /\ AllFull(blocks) /\ Brief /\ ToldNow
  BY DEF BlocksIs
<1>2. Modest(blocks)
  <2>1. ~ (Has(blocks, "schedule_guidance") /\ Has(blocks, "cron_execution"))
    BY <1>1, FullHas DEF Brief
  <2> QED
    BY <1>1, <2>1 DEF Brief, Modest
<1> DEFINE s == Render(blocks)
<1>3. /\ LengthOf(s) <= ContextBudget
      /\ \A i \in 1..Len(blocks) :
           /\ Critical(blocks[i].key) => TextOf(s, blocks[i].key) = Own(blocks[i])
           /\ blocks[i].key = "evidence_ledger" =>
                TextOf(s, blocks[i].key) >= Trim(blocks[i].text, 4000)
           /\ TextOf(s, blocks[i].key) = 0 => NoRoom(s, blocks[i])
      /\ \A key : TextOf(s, key) \in Nat
  BY <1>1, <1>2, RenderIs
<1>4. NothingStale
  BY <1>1 DEF NothingStale, OneEach, ToldNow
<1>5. CriticalWhole
  BY <1>3 DEF CriticalWhole, Own
<1>6. LedgerShown
  <2>1. CASE Has(blocks, "evidence_ledger")
    <3>1. PICK i \in 1..Len(blocks) : blocks[i].key = "evidence_ledger"
      BY <2>1 DEF Has
    <3>2. TextOf(blocks, "evidence_ledger") = blocks[i].text
      BY <1>1, <3>1, TextAt
    <3> QED
      BY <1>3, <3>1, <3>2 DEF LedgerShown
  <2>2. CASE ~ Has(blocks, "evidence_ledger")
    <3>1. TextOf(blocks, "evidence_ledger") = 0
      BY <2>2, TextNone
    <3>2. Trim(TextOf(blocks, "evidence_ledger"), 4000) = 0
      BY <3>1 DEF Trim
    <3>3. TextOf(s, "evidence_ledger") \in Nat
      BY <1>3
    <3> HIDE DEF s
    <3>4. TextOf(s, "evidence_ledger") >= 0
      BY <3>3
    <3> QED
      BY <3>2, <3>4 DEF LedgerShown, s
  <2> QED
    BY <2>1, <2>2
<1>7. WholeFits
  <2>1. ASSUME NEW i \in 1..Len(blocks), TextOf(s, blocks[i].key) = 0
        PROVE  \E n \in 0..Len(s) :
                 /\ \A k \in 1..n : Kinds[s[k].key].priority >= Kinds[blocks[i].key].priority
                 /\ LengthOf(SubSeq(s, 1, n)) + Heading(blocks[i].key) >= ContextBudget
    <3>1. NoRoom(s, blocks[i])
      BY <1>3, <2>1
    <3> QED
      BY <3>1 DEF NoRoom, Priority
  <2> HIDE DEF s
  <2> QED
    BY <1>3, <2>1 DEF WholeFits, s
<1> QED
  BY <1>4, <1>5, <1>6, <1>7 DEF BlocksInv

(* Before a call the model is told what is true now and nothing an earlier call  *)
(* was told, the tool it must call and the guidance for schedules uncut, the      *)
(* evidence it has, and what else there is as far as there is room; for any       *)
(* lengths of what varies, any ledger and any number of calls.                 *)
THEOREM BlocksAreTrue == BlocksSpec => []BlocksInv
<1>1. BlocksInit => BlocksIs
  BY BlocksStart
<1>2. BlocksIs /\ [BlocksNext]_blocksVars => BlocksIs'
  BY BlocksStep
<1>3. BlocksIs => BlocksInv
  BY BlocksFollow
<1> QED
  BY <1>1, <1>2, <1>3, PTL DEF BlocksSpec
=============================================================================
