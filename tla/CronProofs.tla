----------------------------- MODULE CronProofs -----------------------------
(***************************************************************************)
(* TLAPS proofs about CronScheduler, for any number of tool calls, failed  *)
(* saves, crashes and any times: the job that runs is the one that was     *)
(* claimed, no wake-up is lost, what was added stays and what was removed  *)
(* is gone, and a one-shot job runs once.                                  *)
(***************************************************************************)
EXTENDS CronScheduler, TLAPS

Places(s) == 1..Len(s)

(* What holds of the list in memory and of the one in the file.             *)
Listing(s) ==
  /\ s \in Seq(JobType)
  /\ \A i \in Places(s) : /\ s[i].enabled /\ s[i].next # 0
                          /\ s[i].kind = "at" <=> s[i].id \in OneShots
  /\ \A i, k \in Places(s) : s[i].id = s[k].id => i = k

(* No job stands before one that comes before it.                           *)
Ordered(s) == \A i, k \in Places(s) : i < k => ~ Before(s[k], s[i])

-----------------------------------------------------------------------------
(* The order of jobs.                                                      *)
LEMMA BeforeIsStrict ==
  ASSUME NEW a \in JobType, NEW b \in JobType, Before(a, b)
  PROVE  ~ Before(b, a)
  BY DEF Before, JobType

LEMMA PrecedesIsStrict ==
  ASSUME NEW s \in Seq(JobType), NEW i \in Places(s), NEW k \in Places(s), Precedes(s, i, k)
  PROVE  ~ Before(s[k], s[i]) /\ i # k
<1>1. s[i] \in JobType /\ s[k] \in JobType
  BY DEF Places
<1> QED
  BY <1>1, BeforeIsStrict DEF Precedes, Places

(* What sorting the jobs of s at the places in K gives.                     *)
Sorting(s, K, t, p) ==
  /\ Len(t) \in Nat
  /\ p \in [Places(t) -> K]
  /\ \A k \in K : \E a \in Places(t) : p[a] = k
  /\ \A a, b \in Places(t) : a < b => Precedes(s, p[a], p[b])
  /\ \A a \in Places(t) : t[a] = s[p[a]]

LEMMA SortedBy ==
  ASSUME NEW s \in Seq(JobType), NEW K \in SUBSET Places(s), NEW t \in SortJobs(s, K)
  PROVE  t \in Seq(JobType) /\ \E p : Sorting(s, K, t, p)
<1>1. PICK n \in 0..Len(s) :
        t \in {[a \in 1..n |-> s[p[a]]] : p \in
                 {p \in [1..n -> K] :
                    /\ K = {p[a] : a \in 1..n}
                    /\ \A a, b \in 1..n : a < b => Precedes(s, p[a], p[b])}}
  BY DEF SortJobs
<1>2. PICK p \in [1..n -> K] :
        /\ K = {p[a] : a \in 1..n}
        /\ \A a, b \in 1..n : a < b => Precedes(s, p[a], p[b])
        /\ t = [a \in 1..n |-> s[p[a]]]
  BY <1>1
<1>3. n \in Nat
  BY <1>1
<1>4. \A a \in 1..n : s[p[a]] \in JobType
  <2> SUFFICES ASSUME NEW a \in 1..n PROVE s[p[a]] \in JobType
    OBVIOUS
  <2>1. p[a] \in K
    BY <1>3
  <2>2. p[a] \in 1..Len(s)
    BY <2>1 DEF Places
  <2> QED
    BY <2>2
<1>5. t \in [1..n -> JobType]
  BY <1>2, <1>4
<1>6. t \in Seq(JobType) /\ Len(t) = n
  BY <1>3, <1>5
<1>7. Sorting(s, K, t, p)
  BY <1>2, <1>3, <1>6 DEF Sorting, Places
<1> QED
  BY <1>6, <1>7

LEMMA SortedList ==
  ASSUME NEW s \in Seq(JobType), NEW K \in SUBSET Places(s), NEW t \in SortJobs(s, K)
  PROVE  /\ t \in Seq(JobType)
         /\ \A a \in Places(t) : \E k \in K : t[a] = s[k]
         /\ \A k \in K : \E a \in Places(t) : t[a] = s[k]
         /\ Ordered(t)
         /\ (\A i, k \in Places(s) : s[i].id = s[k].id => i = k) =>
              \A a, b \in Places(t) : t[a].id = t[b].id => a = b
<1>1. t \in Seq(JobType)
  BY SortedBy
<1>2. PICK p : Sorting(s, K, t, p)
  BY SortedBy
<1>3. \A a \in Places(t) : p[a] \in K /\ p[a] \in Places(s)
  BY <1>2 DEF Sorting
<1>4. \A a, b \in Places(t) : a < b => ~ Before(s[p[b]], s[p[a]]) /\ p[a] # p[b]
  <2> SUFFICES ASSUME NEW a \in Places(t), NEW b \in Places(t), a < b
               PROVE  ~ Before(s[p[b]], s[p[a]]) /\ p[a] # p[b]
    OBVIOUS
  <2>1. Precedes(s, p[a], p[b])
    BY <1>2 DEF Sorting
  <2> QED
    BY <2>1, <1>3, PrecedesIsStrict
<1>5. Ordered(t)
  BY <1>2, <1>4 DEF Ordered, Sorting
<1>6. \A a, b \in Places(t) : p[a] = p[b] => a = b
  <2> SUFFICES ASSUME NEW a \in Places(t), NEW b \in Places(t), p[a] = p[b], a # b
               PROVE  FALSE
    OBVIOUS
  <2>1. a < b \/ b < a
    BY DEF Places
  <2> QED
    BY <2>1, <1>4
<1>7. \A k \in K : \E a \in Places(t) : t[a] = s[k]
  BY <1>2 DEF Sorting
<1>8. \A a \in Places(t) : \E k \in K : t[a] = s[k]
  BY <1>2, <1>3 DEF Sorting
<1>9. ASSUME \A i, k \in Places(s) : s[i].id = s[k].id => i = k,
             NEW a \in Places(t), NEW b \in Places(t), t[a].id = t[b].id
      PROVE  a = b
  <2>1. t[a] = s[p[a]] /\ t[b] = s[p[b]]
    BY <1>2 DEF Sorting
  <2> QED
    BY <2>1, <1>3, <1>6, <1>9
<1> QED
  BY <1>1, <1>5, <1>7, <1>8, <1>9

(* A job that no other comes before stays the first.                        *)
LEMMA SortedFirst ==
  ASSUME NEW s \in Seq(JobType), NEW t \in SortJobs(s, Places(s)), Len(s) > 0,
         \A k \in Places(s) : k # 1 => ~ Before(s[k], s[1])
  PROVE  1 \in Places(t) /\ t[1] = s[1]
<1>1. PICK p : Sorting(s, Places(s), t, p)
  BY SortedBy
<1>2. 1 \in Places(s)
  BY DEF Places
<1>3. PICK a \in Places(t) : p[a] = 1
  BY <1>1, <1>2 DEF Sorting
<1>4. Len(t) \in Nat /\ 1 \in Places(t) /\ a \in Nat /\ a >= 1
  BY <1>1 DEF Sorting, Places
<1>5. a = 1
  <2> SUFFICES ASSUME 1 < a PROVE FALSE
    BY <1>4
  <2>1. p[1] \in Places(s)
    BY <1>1, <1>4 DEF Sorting
  <2>2. Precedes(s, p[1], 1)
    BY <1>1, <1>3, <1>4 DEF Sorting
  <2>3. p[1] # 1
    BY <1>2, <2>1, <2>2, PrecedesIsStrict
  <2>4. ~ (p[1] < 1)
    BY <2>1 DEF Places
  <2>5. Before(s[p[1]], s[1])
    BY <2>2, <2>4 DEF Precedes
  <2> QED
    BY <2>1, <2>3, <2>5
<1>6. t[a] = s[p[a]]
  BY <1>1 DEF Sorting
<1> QED
  BY <1>3, <1>4, <1>5, <1>6
-----------------------------------------------------------------------------
(* Lists and the identifiers in them.                                      *)
LEMMA IdsOf ==
  ASSUME NEW s \in Seq(JobType)
  PROVE  DOMAIN s = Places(s) /\ Ids(s) = {s[i].id : i \in Places(s)}
  BY DEF Ids, Places

LEMMA SortedListing ==
  ASSUME NEW s, Listing(s), NEW K \in SUBSET Places(s), NEW t \in SortJobs(s, K)
  PROVE  /\ Listing(t) /\ Ordered(t)
         /\ \A a \in Places(t) : \E k \in K : t[a] = s[k]
         /\ \A k \in K : \E a \in Places(t) : t[a] = s[k]
         /\ Ids(t) = {s[k].id : k \in K}
<1>1. s \in Seq(JobType)
  BY DEF Listing
<1>2. /\ t \in Seq(JobType)
      /\ \A a \in Places(t) : \E k \in K : t[a] = s[k]
      /\ \A k \in K : \E a \in Places(t) : t[a] = s[k]
      /\ Ordered(t)
      /\ \A a, b \in Places(t) : t[a].id = t[b].id => a = b
  BY <1>1, SortedList DEF Listing
<1>3. Listing(t)
  BY <1>2 DEF Listing
<1>4. Ids(t) = {s[k].id : k \in K}
  BY <1>2, IdsOf
<1> QED
  BY <1>2, <1>3, <1>4

(* A change of the jobs of a list that keeps what they are.                 *)
LEMMA SameJobs ==
  ASSUME NEW s, Listing(s), NEW u \in Seq(JobType), Len(u) = Len(s),
         \A i \in Places(s) : /\ u[i].id = s[i].id /\ u[i].kind = s[i].kind
                              /\ u[i].enabled = s[i].enabled /\ u[i].next # 0
  PROVE  Listing(u) /\ Ids(u) = Ids(s) /\ Places(u) = Places(s)
<1>1. Places(u) = Places(s) /\ s \in Seq(JobType)
  BY DEF Places, Listing
<1>2. Listing(u)
  BY <1>1 DEF Listing
<1>3. Ids(u) = {u[i].id : i \in Places(s)} /\ Ids(s) = {s[i].id : i \in Places(s)}
  <2>1. Ids(u) = {u[i].id : i \in Places(u)} /\ Ids(s) = {s[i].id : i \in Places(s)}
    BY <1>1, IdsOf
  <2> QED
    BY <1>1, <2>1
<1>4. Ids(u) = Ids(s)
  BY <1>3
<1> QED
  BY <1>1, <1>2, <1>4

(* ... and their order.                                                    *)
LEMMA SameOrder ==
  ASSUME NEW s, Listing(s), Ordered(s), NEW u \in Seq(JobType), Len(u) = Len(s),
         \A i \in Places(s) : /\ u[i].enabled = s[i].enabled
                              /\ u[i].next = s[i].next /\ u[i].created = s[i].created
  PROVE  Ordered(u)
  BY DEF Ordered, Places, Before

LEMMA NormalList ==
  ASSUME NEW s, Listing(s), NEW now \in Nat
  PROVE  LET u == Normalise(s, now) IN
         /\ Listing(u) /\ Ids(u) = Ids(s) /\ Places(u) = Places(s)
         /\ \A i \in Places(s) : u[i] = [s[i] EXCEPT !.running = FALSE]
         /\ Ordered(s) => Ordered(u)
<1> DEFINE u == Normalise(s, now)
<1>1. s \in Seq(JobType) /\ DOMAIN s = 1..Len(s) /\ Len(s) \in Nat
  BY DEF Listing
<1>2. \A i \in 1..Len(s) : s[i] \in JobType /\ s[i].next # 0
  BY <1>1 DEF Listing, Places
<1>3. u = [i \in 1..Len(s) |-> [s[i] EXCEPT !.running = FALSE]]
  <2>1. \A i \in 1..Len(s) :
          [s[i] EXCEPT !.running = FALSE,
                       !.next = IF s[i].enabled /\ s[i].next = 0
                                THEN ComputeNextRun(s[i], now) ELSE s[i].next]
          = [s[i] EXCEPT !.running = FALSE]
    BY <1>2 DEF JobType
  <2> QED
    BY <1>1, <2>1 DEF Normalise
<1>4. \A i \in 1..Len(s) : [s[i] EXCEPT !.running = FALSE] \in JobType
  BY <1>2 DEF JobType
<1>5. u \in [1..Len(s) -> JobType]
  BY <1>3, <1>4
<1>6. u \in Seq(JobType) /\ Len(u) = Len(s)
  BY <1>1, <1>5
<1>7. \A i \in Places(s) :
        /\ u[i] = [s[i] EXCEPT !.running = FALSE]
        /\ u[i].id = s[i].id /\ u[i].kind = s[i].kind /\ u[i].enabled = s[i].enabled
        /\ u[i].next = s[i].next /\ u[i].created = s[i].created /\ u[i].next # 0
  BY <1>2, <1>3 DEF Places, JobType
<1> HIDE DEF u
<1>8. Listing(u) /\ Ids(u) = Ids(s) /\ Places(u) = Places(s)
  BY <1>6, <1>7, SameJobs
<1>9. ASSUME Ordered(s) PROVE Ordered(u)
  <2>1. \A i \in Places(s) : /\ u[i].enabled = s[i].enabled
                             /\ u[i].next = s[i].next /\ u[i].created = s[i].created
    BY <1>7
  <2> QED
    BY <1>6, <1>9, <2>1, SameOrder
<1> QED
  BY <1>7, <1>8, <1>9 DEF u

-----------------------------------------------------------------------------
(* What each action makes of the two lists.                                *)
ListInv == Listing(jobs) /\ Listing(disk) /\ Ordered(jobs)

Numbers == clock \in Nat /\ clock > 0 /\ faults \in Nat /\ crashes \in Nat

(* What a save leaves, written or not.                                     *)
LEMMA SavedList ==
  ASSUME NEW s, Listing(s), NEW K \in SUBSET Places(s), Save(s, K) \/ SaveFails(s, K)
  PROVE  /\ Listing(jobs') /\ Ordered(jobs')
         /\ Ids(jobs') = {s[k].id : k \in K}
         /\ \A a \in Places(jobs') : \E k \in K : jobs'[a] = s[k]
         /\ Save(s, K) => disk' = jobs'
         /\ SaveFails(s, K) => disk' = disk
<1>1. jobs' \in SortJobs(s, K)
  BY DEF Save, SaveFails
<1>2. Save(s, K) => disk' = jobs'
  BY DEF Save
<1>3. SaveFails(s, K) => disk' = disk
  BY DEF SaveFails
<1> QED
  BY <1>1, <1>2, <1>3, SortedListing

LEMMA AddList ==
  ASSUME Numbers, ListInv, NEW t \in Adders, t \notin Ids(jobs), Add(t)
  PROVE  /\ Listing(jobs') /\ Ordered(jobs')
         /\ Ids(jobs') = Ids(jobs) \cup {t}
         /\ \A a \in Places(jobs') : \/ \E i \in Places(jobs) : jobs'[a] = jobs[i]
                                     \/ jobs'[a].id = t /\ ~ jobs'[a].running
         /\ \/ disk' = jobs' /\ tool' = [tool EXCEPT ![t] = "saved"]
            \/ disk' = disk /\ tool' = [tool EXCEPT ![t] = "failed"]
<1>1. PICK delay \in Delays :
        LET s == Append(jobs, NewJob(t, delay))
        IN \/ Save(s, DOMAIN s) /\ tool' = [tool EXCEPT ![t] = "saved"]
           \/ SaveFails(s, DOMAIN s) /\ tool' = [tool EXCEPT ![t] = "failed"]
  BY DEF Add
<1> DEFINE new == NewJob(t, delay)
           s   == Append(jobs, new)
<1>2. new \in JobType /\ new.id = t /\ ~ new.running /\ new.enabled /\ new.next # 0
      /\ (new.kind = "at" <=> t \in OneShots)
  BY CronAssumption DEF Numbers, NewJob, JobType
<1> HIDE DEF new
<1>3. jobs \in Seq(JobType) /\ Len(jobs) \in Nat
  BY DEF ListInv, Listing
<1>4. /\ s \in Seq(JobType) /\ Len(s) = Len(jobs) + 1
      /\ \A i \in 1..Len(jobs) : s[i] = jobs[i]
      /\ s[Len(jobs) + 1] = new
  BY <1>2, <1>3
<1> HIDE DEF s
<1>5. /\ \A i \in Places(s) : i \in Places(jobs) \/ i = Len(jobs) + 1
      /\ Places(jobs) \subseteq Places(s) /\ Len(jobs) + 1 \in Places(s)
      /\ DOMAIN s = Places(s)
      /\ \A i \in Places(jobs) : s[i] = jobs[i]
  BY <1>3, <1>4 DEF Places
<1>6. \A i \in Places(jobs) : jobs[i].id # t
  BY <1>3, IdsOf
<1>7. Listing(s)
  <2>1. \A i \in Places(s) : s[i].enabled /\ s[i].next # 0
                             /\ (s[i].kind = "at" <=> s[i].id \in OneShots)
    BY <1>2, <1>4, <1>5 DEF ListInv, Listing
  <2>2. ASSUME NEW i \in Places(s), NEW k \in Places(s), s[i].id = s[k].id PROVE i = k
    BY <2>2, <1>2, <1>4, <1>5, <1>6 DEF ListInv, Listing
  <2> QED
    BY <1>4, <2>1, <2>2 DEF Listing
<1>8. {s[i].id : i \in Places(s)} = Ids(jobs) \cup {t}
  <2>1. Ids(jobs) = {jobs[i].id : i \in Places(jobs)}
    BY <1>3, IdsOf
  <2> QED
    BY <2>1, <1>2, <1>4, <1>5
<1>9. \/ Save(s, Places(s)) /\ tool' = [tool EXCEPT ![t] = "saved"]
      \/ SaveFails(s, Places(s)) /\ tool' = [tool EXCEPT ![t] = "failed"]
  BY <1>1, <1>5 DEF s, new
<1>10. /\ Listing(jobs') /\ Ordered(jobs')
       /\ Ids(jobs') = {s[i].id : i \in Places(s)}
       /\ \A a \in Places(jobs') : \E i \in Places(s) : jobs'[a] = s[i]
       /\ Save(s, Places(s)) => disk' = jobs'
       /\ SaveFails(s, Places(s)) => disk' = disk
  BY <1>7, <1>9, SavedList
<1>11. \A a \in Places(jobs') : \/ \E i \in Places(jobs) : jobs'[a] = jobs[i]
                                \/ jobs'[a].id = t /\ ~ jobs'[a].running
  BY <1>2, <1>4, <1>5, <1>10
<1> QED
  BY <1>8, <1>9, <1>10, <1>11

LEMMA RemoveList ==
  ASSUME ListInv, NEW t \in Removers, Remove(t)
  PROVE  \E r \in Ids(jobs) :
         /\ Listing(jobs') /\ Ordered(jobs')
         /\ Ids(jobs') = Ids(jobs) \ {r}
         /\ \A i \in Places(jobs) : jobs[i].id = r => ~ jobs[i].running
         /\ \A a \in Places(jobs') : \E i \in Places(jobs) : jobs'[a] = jobs[i]
         /\ target' = [target EXCEPT ![t] = r]
         /\ \/ disk' = jobs' /\ tool' = [tool EXCEPT ![t] = "saved"]
            \/ disk' = disk /\ tool' = [tool EXCEPT ![t] = "failed"]
<1>1. jobs \in Seq(JobType) /\ DOMAIN jobs = Places(jobs)
      /\ Ids(jobs) = {jobs[i].id : i \in Places(jobs)}
  BY IdsOf DEF ListInv, Listing
<1>2. PICK i \in Places(jobs) :
        /\ ~ jobs[i].running
        /\ target' = [target EXCEPT ![t] = jobs[i].id]
        /\ \/ Save(jobs, Without(jobs, jobs[i].id)) /\ tool' = [tool EXCEPT ![t] = "saved"]
           \/ SaveFails(jobs, Without(jobs, jobs[i].id)) /\ tool' = [tool EXCEPT ![t] = "failed"]
  BY <1>1 DEF Remove
<1> DEFINE r == jobs[i].id
           K == Without(jobs, r)
<1>3. r \in Ids(jobs)
  BY <1>1
<1>4. K = {k \in Places(jobs) : jobs[k].id # r}
  BY <1>1 DEF Without
<1>5. {jobs[k].id : k \in K} = Ids(jobs) \ {r}
  BY <1>1, <1>4
<1>6. \A k \in Places(jobs) : jobs[k].id = r => ~ jobs[k].running
  BY <1>2 DEF ListInv, Listing
<1> HIDE DEF K
<1>7. K \in SUBSET Places(jobs) /\ (Save(jobs, K) \/ SaveFails(jobs, K))
  BY <1>2, <1>4 DEF K
<1>8. /\ Listing(jobs') /\ Ordered(jobs')
      /\ Ids(jobs') = {jobs[k].id : k \in K}
      /\ \A a \in Places(jobs') : \E k \in K : jobs'[a] = jobs[k]
      /\ Save(jobs, K) => disk' = jobs'
      /\ SaveFails(jobs, K) => disk' = disk
  BY <1>7, SavedList DEF ListInv
<1>9. \/ disk' = jobs' /\ tool' = [tool EXCEPT ![t] = "saved"]
      \/ disk' = disk /\ tool' = [tool EXCEPT ![t] = "failed"]
  BY <1>2, <1>8 DEF K
<1>10. \A a \in Places(jobs') : \E k \in Places(jobs) : jobs'[a] = jobs[k]
  BY <1>7, <1>8
<1> QED
  BY <1>2, <1>3, <1>5, <1>6, <1>8, <1>9, <1>10

(* The job ClaimDue picks is the first one of the list, so it is still at   *)
(* its index after the save.                                               *)
LEMMA BestIsFirst ==
  ASSUME clock \in Nat, NEW s, Listing(s), Ordered(s),
         \A k \in Places(s) : ~ s[k].running,
         NEW i \in Places(s), Best(s, i)
  PROVE  i = 1 /\ Len(s) > 0
<1>1. s \in Seq(JobType) /\ DOMAIN s = Places(s)
  BY IdsOf DEF Listing
<1>2. Len(s) > 0 /\ 1 \in Places(s) /\ i >= 1 /\ i \in Nat
  BY <1>1 DEF Places
<1>3. s[1] \in JobType /\ s[i] \in JobType
  BY <1>1, <1>2 DEF Places
<1>4. s[1].enabled /\ s[1].next # 0 /\ s[1].next \in Nat /\ s[i].enabled /\ s[i].next # 0
      /\ s[i].next \in Nat
  BY <1>2, <1>3 DEF Listing, JobType
<1>5. s[i].next <= clock
  BY DEF Best, Due
<1>6. s[1].next <= s[i].next
  <2> SUFFICES ASSUME 1 < i PROVE s[1].next <= s[i].next
    BY <1>2, <1>4
  <2>1. ~ Before(s[i], s[1])
    BY <1>2 DEF Ordered
  <2> QED
    BY <2>1, <1>4 DEF Before
<1>7. Due(s, 1)
  BY <1>2, <1>4, <1>5, <1>6 DEF Due
<1>8. s[i].next < s[1].next \/ i <= 1
  BY <1>1, <1>2, <1>7 DEF Best
<1> QED
  BY <1>2, <1>4, <1>6, <1>8

LEMMA ClaimList ==
  ASSUME Numbers, ListInv, Claim
  PROVE  /\ Listing(jobs') /\ Ordered(jobs')
         /\ Ids(jobs') = Ids(jobs)
         /\ disk' = jobs' \/ disk' = disk
         /\ \/ /\ runner' = "fire" /\ claimed' \in Ids(jobs')
               /\ \A a \in Places(jobs') : jobs'[a].running <=> jobs'[a].id = claimed'
            \/ runner' = "plan" /\ claimed' = claimed
<1> DEFINE s == Normalise(jobs, clock)
<1>1. /\ Listing(s) /\ Ids(s) = Ids(jobs) /\ Places(s) = Places(jobs) /\ Ordered(s)
      /\ \A i \in Places(jobs) : s[i] = [jobs[i] EXCEPT !.running = FALSE]
  BY NormalList DEF Numbers, ListInv
<1>2. jobs \in Seq(JobType) /\ s \in Seq(JobType) /\ DOMAIN s = Places(s)
  BY <1>1, IdsOf DEF ListInv, Listing
<1>3. PICK i \in Places(s) :
        LET marked == [s EXCEPT ![i].running = TRUE] IN
        /\ Best(s, i)
        /\ \/ Save(marked, DOMAIN marked) /\ claimed' = jobs'[i].id /\ runner' = "fire"
           \/ SaveFails(marked, DOMAIN marked) /\ runner' = "plan" /\ claimed' = claimed
  BY <1>2 DEF Claim
<1>4. \A k \in Places(s) : ~ s[k].running
  <2> SUFFICES ASSUME NEW k \in Places(jobs) PROVE ~ s[k].running
    BY <1>1
  <2>1. jobs[k] \in JobType /\ s[k] = [jobs[k] EXCEPT !.running = FALSE]
    BY <1>1, <1>2 DEF Places
  <2> QED
    BY <2>1 DEF JobType
<1> HIDE DEF s
<1> DEFINE m == [s EXCEPT ![i].running = TRUE]
<1>5. i = 1 /\ Len(s) > 0
  BY <1>1, <1>3, <1>4, BestIsFirst DEF Numbers
<1>6. \A k \in Places(s) : s[k] \in JobType
  BY <1>2 DEF Places
<1>7. m \in Seq(JobType) /\ Len(m) = Len(s) /\ DOMAIN m = Places(s)
  <2>1. [s[i] EXCEPT !.running = TRUE] \in JobType
    BY <1>6 DEF JobType
  <2> QED
    BY <2>1, <1>2 DEF Places
<1>8. \A k \in Places(s) :
        /\ m[k].id = s[k].id /\ m[k].kind = s[k].kind /\ m[k].enabled = s[k].enabled
        /\ m[k].next = s[k].next /\ m[k].created = s[k].created
        /\ m[k].running <=> k = i
  BY <1>2, <1>4, <1>6 DEF JobType
<1> HIDE DEF m
<1>9. \A k \in Places(s) : m[k].next # 0
  BY <1>1, <1>8 DEF Listing
<1>10. Listing(m) /\ Ids(m) = Ids(s) /\ Places(m) = Places(s)
  <2>1. \A k \in Places(s) : /\ m[k].id = s[k].id /\ m[k].kind = s[k].kind
                             /\ m[k].enabled = s[k].enabled /\ m[k].next # 0
    BY <1>8, <1>9
  <2> QED
    BY <1>1, <1>7, <2>1, SameJobs
<1>11. Ordered(m)
  <2>1. \A k \in Places(s) : /\ m[k].enabled = s[k].enabled
                             /\ m[k].next = s[k].next /\ m[k].created = s[k].created
    BY <1>8
  <2> QED
    BY <1>1, <1>7, <2>1, SameOrder
<1>12. \/ Save(m, Places(m)) /\ claimed' = jobs'[i].id /\ runner' = "fire"
       \/ SaveFails(m, Places(m)) /\ runner' = "plan" /\ claimed' = claimed
  BY <1>3, <1>7, <1>10 DEF m
<1>13. /\ Listing(jobs') /\ Ordered(jobs')
       /\ Ids(jobs') = {m[k].id : k \in Places(m)}
       /\ \A a \in Places(jobs') : \E k \in Places(m) : jobs'[a] = m[k]
       /\ Save(m, Places(m)) => disk' = jobs'
       /\ SaveFails(m, Places(m)) => disk' = disk
  BY <1>10, <1>12, SavedList
<1>14. Ids(jobs') = Ids(jobs)
  BY <1>1, <1>7, <1>10, <1>13, IdsOf
<1>15. ASSUME runner' = "fire"
       PROVE  /\ claimed' \in Ids(jobs')
              /\ \A a \in Places(jobs') : jobs'[a].running <=> jobs'[a].id = claimed'
  <2>1. \A k \in Places(m) : k # 1 => ~ Before(m[k], m[1])
    BY <1>5, <1>7, <1>10, <1>11 DEF Ordered, Places
  <2>2. jobs' \in SortJobs(m, Places(m))
    BY <1>12 DEF Save, SaveFails
  <2>3. 1 \in Places(jobs') /\ jobs'[1] = m[1]
    BY <1>5, <1>7, <2>1, <2>2, SortedFirst
  <2>4. claimed' = m[1].id
    BY <1>5, <1>12, <1>15, <2>3
  <2>5. claimed' \in Ids(jobs')
    BY <1>13, <2>3, <2>4, IdsOf DEF Listing
  <2>6. ASSUME NEW a \in Places(jobs')
        PROVE  jobs'[a].running <=> jobs'[a].id = claimed'
    <3>1. PICK k \in Places(m) : jobs'[a] = m[k]
      BY <1>13
    <3>2. m[k].running <=> k = 1
      BY <1>5, <1>8, <1>10
    <3>3. m[k].id = m[1].id <=> k = 1
      BY <1>5, <1>10 DEF Listing
    <3> QED
      BY <3>1, <3>2, <3>3, <2>4
  <2> QED
    BY <2>5, <2>6
<1> QED
  BY <1>12, <1>13, <1>14, <1>15

(* Saves of a normalised list: ClaimDue with nothing due, and Load.         *)
LEMMA NormalSaved ==
  ASSUME Numbers, NEW s, Listing(s),
         LET u == Normalise(s, clock) IN Save(u, DOMAIN u) \/ SaveFails(u, DOMAIN u)
  PROVE  /\ Listing(jobs') /\ Ordered(jobs')
         /\ Ids(jobs') = Ids(s)
         /\ disk' = jobs' \/ disk' = disk
<1> DEFINE u == Normalise(s, clock)
<1>1. Listing(u) /\ Ids(u) = Ids(s)
  BY NormalList DEF Numbers
<1>2. u \in Seq(JobType) /\ DOMAIN u = Places(u) /\ Ids(u) = {u[k].id : k \in Places(u)}
  BY <1>1, IdsOf DEF Listing
<1>3. Save(u, Places(u)) \/ SaveFails(u, Places(u))
  BY <1>2
<1> HIDE DEF u
<1> QED
  BY <1>1, <1>2, <1>3, SavedList

LEMMA ClaimNoneList ==
  ASSUME Numbers, ListInv, ClaimNone
  PROVE  /\ Listing(jobs') /\ Ordered(jobs')
         /\ Ids(jobs') = Ids(jobs)
         /\ disk' = jobs' \/ disk' = disk
<1>1. LET u == Normalise(jobs, clock) IN Save(u, DOMAIN u) \/ SaveFails(u, DOMAIN u)
  BY DEF ClaimNone
<1> QED
  BY <1>1, NormalSaved DEF ListInv

LEMMA RestartList ==
  ASSUME Numbers, ListInv, Restart
  PROVE  /\ Listing(jobs') /\ Ordered(jobs')
         /\ Ids(jobs') = Ids(disk)
         /\ disk' = jobs' \/ disk' = disk
<1>1. LET u == Normalise(disk, clock) IN Save(u, DOMAIN u) \/ SaveFails(u, DOMAIN u)
  BY DEF Restart
<1> QED
  BY <1>1, NormalSaved DEF ListInv

LEMMA RecordList ==
  ASSUME Numbers, ListInv, Record
  PROVE  /\ Listing(jobs') /\ Ordered(jobs')
         /\ disk' = jobs' \/ disk' = disk
         /\ Ids(jobs') \subseteq Ids(jobs)
         /\ Ids(jobs) \subseteq Ids(jobs') \cup {claimed}
         /\ claimed \in OneShots => claimed \notin Ids(jobs')
<1> DEFINE s == Completed(jobs, claimed, clock)
           K == Kept(jobs, claimed)
<1>1. jobs \in Seq(JobType) /\ DOMAIN jobs = Places(jobs) /\ Len(jobs) \in Nat
      /\ Ids(jobs) = {jobs[i].id : i \in Places(jobs)}
  BY IdsOf DEF ListInv, Listing
<1>2. CASE claimed \notin Ids(jobs)
  <2>1. jobs' = jobs /\ disk' = disk
    BY <1>2 DEF Record, storeVars
  <2> QED
    BY <2>1, <1>2 DEF ListInv
<1>3. CASE claimed \in Ids(jobs)
  <2>1. \A k \in Places(jobs) : jobs[k] \in JobType
    BY <1>1 DEF Places
  <2>2. \A k \in Places(jobs) :
          /\ s[k] \in JobType
          /\ s[k].id = jobs[k].id /\ s[k].kind = jobs[k].kind
          /\ s[k].enabled = jobs[k].enabled /\ s[k].next # 0
    <3> SUFFICES ASSUME NEW k \in Places(jobs)
                 PROVE  /\ s[k] \in JobType
                        /\ s[k].id = jobs[k].id /\ s[k].kind = jobs[k].kind
                        /\ s[k].enabled = jobs[k].enabled /\ s[k].next # 0
      OBVIOUS
    <3>1. jobs[k] \in JobType /\ jobs[k].next # 0 /\ jobs[k].time \in Nat
      BY <2>1 DEF ListInv, Listing, JobType
    <3>2. CASE jobs[k].id # claimed \/ jobs[k].kind = "at"
      BY <1>1, <3>1, <3>2 DEF Completed
    <3>3. CASE ~ (jobs[k].id # claimed \/ jobs[k].kind = "at")
      <4>1. s[k] = [jobs[k] EXCEPT !.running = FALSE, !.next = clock + jobs[k].time]
        BY <1>1, <3>3 DEF Completed, ComputeNextRun
      <4>2. clock + jobs[k].time \in Nat /\ clock + jobs[k].time # 0
        BY <3>1 DEF Numbers
      <4> QED
        BY <3>1, <4>1, <4>2 DEF JobType
    <3> QED
      BY <3>2, <3>3
  <2>3. s \in Seq(JobType) /\ Len(s) = Len(jobs)
    <3>1. s = [k \in 1..Len(jobs) |-> s[k]]
      BY <1>1 DEF Completed, Places
    <3>2. \A k \in 1..Len(jobs) : s[k] \in JobType
      BY <2>2 DEF Places
    <3> HIDE DEF s
    <3>3. s \in [1..Len(jobs) -> JobType]
      BY <3>1, <3>2
    <3> QED
      BY <1>1, <3>3
  <2>4. K = {k \in Places(jobs) : jobs[k].id # claimed \/ jobs[k].kind # "at"}
    BY <1>1 DEF Kept
  <2>5. Save(s, K) \/ SaveFails(s, K)
    BY <1>3 DEF Record
  <2> HIDE DEF s, K
  <2>6. Listing(s) /\ Ids(s) = Ids(jobs) /\ Places(s) = Places(jobs)
    <3>1. \A k \in Places(jobs) : /\ s[k].id = jobs[k].id /\ s[k].kind = jobs[k].kind
                                  /\ s[k].enabled = jobs[k].enabled /\ s[k].next # 0
      BY <2>2
    <3> QED
      BY <2>3, <3>1, SameJobs DEF ListInv
  <2>7. /\ Listing(jobs') /\ Ordered(jobs')
        /\ Ids(jobs') = {s[k].id : k \in K}
        /\ Save(s, K) => disk' = jobs'
        /\ SaveFails(s, K) => disk' = disk
    <3>1. K \in SUBSET Places(s)
      BY <2>4, <2>6
    <3> QED
      BY <2>5, <2>6, <3>1, SavedList
  <2>8. Ids(jobs') = {jobs[k].id : k \in K}
    BY <2>2, <2>4, <2>7
  <2>9. claimed \in OneShots => claimed \notin Ids(jobs')
    BY <2>4, <2>8 DEF ListInv, Listing
  <2>10. Ids(jobs') \subseteq Ids(jobs) /\ Ids(jobs) \subseteq Ids(jobs') \cup {claimed}
    BY <1>1, <2>4, <2>8
  <2> QED
    BY <2>5, <2>7, <2>9, <2>10
<1> QED
  BY <1>2, <1>3

-----------------------------------------------------------------------------
(* The parts of the inductive invariant.                                   *)

(* A job that is in a list, was removed or was run has been added, and a    *)
(* tool call that was not started has removed none.                        *)
Used ==
  /\ \A j \in Ids(jobs) \cup Ids(disk) : tool[j] # "idle"
  /\ \A t \in Removers : target[t] \in Adders => tool[target[t]] # "idle"
  /\ \A t \in Removers : tool[t] = "idle" => target[t] = NoJob
  /\ \A j \in Adders : tool[j] = "idle" => fired[j] = 0

(* The claimed job is in the list, and it alone is marked.                  *)
Held ==
  runner \in {"fire", "ran"} =>
    /\ claimed \in Ids(jobs)
    /\ \A i \in Places(jobs) : jobs[i].running <=> jobs[i].id = claimed

(* NoLostWakeup, from the moment the timer is set.                          *)
Timer ==
  runner \in {"armed", "sleep"} /\ ~ token /\ (\A t \in Tools : tool[t] # "saved") =>
    \A i \in Places(jobs) :
      ~ jobs[i].running /\ tool[jobs[i].id] # "failed" =>
        deadline <= jobs[i].next \/ deadline <= clock

(* A one-shot job in the list has been run no more often than the server    *)
(* crashed, the run in progress apart.                                     *)
Runs ==
  /\ OneShotOnce
  /\ \A j \in OneShots : j \in Ids(jobs) /\ ~ (runner = "ran" /\ claimed = j)
                         => fired[j] <= crashes
  /\ runner = "down" => \A j \in OneShots : fired[j] <= crashes

Durable == AddedIsDurable /\ (runner = "ran" => fired[claimed] > 0)

-----------------------------------------------------------------------------
LEMMA IdsAreAdders ==
  ASSUME NEW s, Listing(s)
  PROVE  Ids(s) \subseteq Adders
<1>1. s \in Seq(JobType)
  BY DEF Listing
<1>2. \A i \in Places(s) : s[i] \in JobType
  BY <1>1 DEF Places
<1>3. \A j \in JobType : j.id \in Adders
  BY DEF JobType
<1> QED
  BY <1>1, <1>2, <1>3, IdsOf

LEMMA ClockIsPositive ==
  ASSUME TypeOK
  PROVE  Numbers
  BY CronAssumption DEF TypeOK, Numbers

(* A tool call that was started stays started.                             *)
LEMMA ToolsStart ==
  ASSUME TypeOK, [Next]_vars, NEW u \in Tools, tool[u] # "idle"
  PROVE  tool'[u] # "idle"
<1>1. tool \in [Tools -> {"idle", "saved", "failed", "lost", "done"}]
  BY DEF TypeOK
<1>2. ASSUME NEW t \in Adders, Add(t) PROVE tool'[u] # "idle"
  <2>1. \/ tool' = [tool EXCEPT ![t] = "saved"]
        \/ tool' = [tool EXCEPT ![t] = "failed"]
    BY <1>2 DEF Add
  <2> QED
    BY <1>1, <2>1
<1>3. ASSUME NEW t \in Removers, Remove(t) PROVE tool'[u] # "idle"
  <2>1. \/ tool' = [tool EXCEPT ![t] = "saved"]
        \/ tool' = [tool EXCEPT ![t] = "failed"]
    BY <1>3 DEF Remove
  <2> QED
    BY <1>1, <2>1
<1>4. ASSUME NEW t \in Tools, Wake(t) PROVE tool'[u] # "idle"
  BY <1>1, <1>4 DEF Wake
<1>5. CASE Crash
  BY <1>1, <1>5 DEF Crash
<1>6. CASE tool' = tool
  BY <1>6
<1>7. RunnerStep \/ Tick \/ Restart \/ UNCHANGED vars => tool' = tool
  BY DEF RunnerStep, Claim, ClaimNone, Fire, Record, Plan, Select, WakeUp, Tick, Restart,
         vars, toolVars
<1> QED
  BY <1>2, <1>3, <1>4, <1>5, <1>6, <1>7 DEF Next

LEMMA ListStep ==
  ASSUME TypeOK, ListInv, Used, [Next]_vars
  PROVE  Listing(jobs') /\ Listing(disk') /\ Ordered(jobs')
<1>1. Numbers
  BY ClockIsPositive
<1>2. ASSUME NEW t \in Adders, Add(t)
      PROVE  Listing(jobs') /\ Listing(disk') /\ Ordered(jobs')
  <2>1. t \notin Ids(jobs)
    BY <1>2 DEF Add, Used
  <2> QED
    BY <1>1, <1>2, <2>1, AddList DEF ListInv
<1>3. ASSUME NEW t \in Removers, Remove(t)
      PROVE  Listing(jobs') /\ Listing(disk') /\ Ordered(jobs')
  BY <1>3, RemoveList DEF ListInv
<1>4. CASE Claim
  BY <1>1, <1>4, ClaimList DEF ListInv
<1>5. CASE ClaimNone
  BY <1>1, <1>5, ClaimNoneList DEF ListInv
<1>6. CASE Record
  BY <1>1, <1>6, RecordList DEF ListInv
<1>7. CASE Restart
  BY <1>1, <1>7, RestartList DEF ListInv
<1>8. CASE Crash
  <2>1. jobs' = <<>> /\ disk' = disk
    BY <1>8 DEF Crash
  <2> QED
    BY <2>1 DEF ListInv, Listing, Ordered, Places
<1>9. CASE jobs' = jobs /\ disk' = disk
  BY <1>9 DEF ListInv
<1>10. (\E t \in Tools : Wake(t)) \/ Fire \/ Plan \/ Select \/ WakeUp \/ Tick \/ UNCHANGED vars
         => jobs' = jobs /\ disk' = disk
  BY DEF Wake, Fire, Plan, Select, WakeUp, Tick, vars, storeVars
<1> QED
  BY <1>2, <1>3, <1>4, <1>5, <1>6, <1>7, <1>8, <1>9, <1>10 DEF Next, RunnerStep

LEMMA HeldStep ==
  ASSUME TypeOK, ListInv, Used, Held, [Next]_vars
  PROVE  runner' \in {"fire", "ran"} =>
           /\ claimed' \in Ids(jobs')
           /\ \A i \in Places(jobs') : jobs'[i].running <=> jobs'[i].id = claimed'
<1> DEFINE Goal == /\ claimed' \in Ids(jobs')
                   /\ \A i \in Places(jobs') : jobs'[i].running <=> jobs'[i].id = claimed'
<1> SUFFICES ASSUME runner' \in {"fire", "ran"} PROVE Goal
  OBVIOUS
<1>1. Numbers
  BY ClockIsPositive
<1>2. ASSUME NEW t \in Adders, Add(t) PROVE Goal
  <2>1. t \notin Ids(jobs)
    BY <1>2 DEF Add, Used
  <2>2. runner' = runner /\ claimed' = claimed
    BY <1>2 DEF Add, runnerVars
  <2>3. /\ Ids(jobs') = Ids(jobs) \cup {t}
        /\ \A a \in Places(jobs') : \/ \E i \in Places(jobs) : jobs'[a] = jobs[i]
                                    \/ jobs'[a].id = t /\ ~ jobs'[a].running
    BY <1>1, <1>2, <2>1, AddList
  <2> QED
    BY <2>1, <2>2, <2>3 DEF Held
<1>3. ASSUME NEW t \in Removers, Remove(t) PROVE Goal
  <2>1. runner' = runner /\ claimed' = claimed
    BY <1>3 DEF Remove, runnerVars
  <2>2. PICK r \in Ids(jobs) :
          /\ Ids(jobs') = Ids(jobs) \ {r}
          /\ \A i \in Places(jobs) : jobs[i].id = r => ~ jobs[i].running
          /\ \A a \in Places(jobs') : \E i \in Places(jobs) : jobs'[a] = jobs[i]
    BY <1>3, RemoveList
  <2>3. PICK i \in Places(jobs) : jobs[i].id = r
    BY <2>2, IdsOf DEF ListInv, Listing
  <2>4. r # claimed
    BY <2>1, <2>2, <2>3 DEF Held
  <2> QED
    BY <2>1, <2>2, <2>4 DEF Held
<1>4. CASE Claim
  BY <1>1, <1>4, ClaimList
<1>5. CASE Fire \/ (\E t \in Tools : Wake(t)) \/ Tick \/ UNCHANGED vars
  <2>1. jobs' = jobs /\ claimed' = claimed /\ runner \in {"fire", "ran"}
    BY <1>5 DEF Fire, Wake, Tick, vars, storeVars, runnerVars
  <2> QED
    BY <2>1 DEF Held
<1>6. ~ (ClaimNone \/ Record \/ Plan \/ Select \/ WakeUp \/ Crash \/ Restart)
  BY DEF ClaimNone, Record, Plan, Select, WakeUp, Crash, Restart
<1> QED
  BY <1>2, <1>3, <1>4, <1>5, <1>6 DEF Next, RunnerStep

LEMMA UsedStep ==
  ASSUME TypeOK, ListInv, Used, Held, [Next]_vars
  PROVE  Used'
<1>1. Numbers
  BY ClockIsPositive
<1>2. Ids(jobs) \subseteq Adders /\ Ids(disk) \subseteq Adders
  BY IdsAreAdders DEF ListInv
<1>3. \A u \in Tools : tool[u] # "idle" => tool'[u] # "idle"
  BY ToolsStart
<1>4. tool \in [Tools -> {"idle", "saved", "failed", "lost", "done"}]
      /\ target \in [Removers -> Adders \cup {NoJob}] /\ Adders \subseteq Tools
  BY DEF TypeOK, Tools
<1>5. ASSUME NEW t \in Adders, Add(t) PROVE Used'
  <2>1. t \notin Ids(jobs)
    BY <1>5 DEF Add, Used
  <2>2. /\ Ids(jobs') = Ids(jobs) \cup {t}
        /\ disk' = jobs' \/ disk' = disk
        /\ tool'[t] # "idle"
    BY <1>1, <1>4, <1>5, <2>1, AddList
  <2>3. target' = target /\ fired' = fired
    BY <1>5 DEF Add
  <2>4. \A j \in Ids(jobs') \cup Ids(disk') : tool'[j] # "idle"
    BY <1>2, <1>3, <1>4, <2>2 DEF Used
  <2>5. \A u \in Removers : tool'[u] = "idle" => target'[u] = NoJob
    BY <1>3, <1>4, <2>3 DEF Used, Tools
  <2>6. \A u \in Removers : target'[u] \in Adders => tool'[target'[u]] # "idle"
    BY <1>3, <1>4, <2>3 DEF Used
  <2> QED
    BY <1>3, <1>4, <2>3, <2>4, <2>5, <2>6 DEF Used
<1>6. ASSUME NEW t \in Removers, Remove(t) PROVE Used'
  <2>1. PICK r \in Ids(jobs) :
          /\ Ids(jobs') = Ids(jobs) \ {r}
          /\ target' = [target EXCEPT ![t] = r]
          /\ disk' = jobs' \/ disk' = disk
          /\ tool'[t] # "idle"
    BY <1>4, <1>6, RemoveList DEF Tools
  <2>2. fired' = fired
    BY <1>6 DEF Remove
  <2>3. \A j \in Ids(jobs') \cup Ids(disk') : tool'[j] # "idle"
    BY <1>2, <1>3, <1>4, <2>1 DEF Used
  <2>4. ASSUME NEW u \in Removers, target'[u] \in Adders PROVE tool'[target'[u]] # "idle"
    BY <2>4, <1>2, <1>3, <1>4, <2>1 DEF Used
  <2>5. \A u \in Removers : tool'[u] = "idle" => target'[u] = NoJob
    BY <1>3, <1>4, <2>1 DEF Used, Tools
  <2> QED
    BY <1>3, <1>4, <2>2, <2>3, <2>4, <2>5 DEF Used
<1>7. CASE Fire
  <2>1. /\ jobs' = jobs /\ disk' = disk /\ tool' = tool /\ target' = target
        /\ fired' = [fired EXCEPT ![claimed] = @ + 1] /\ claimed \in Ids(jobs)
    BY <1>7 DEF Fire, storeVars, toolVars, Held
  <2>2. fired \in [Adders -> Nat] /\ tool[claimed] # "idle"
    BY <2>1 DEF TypeOK, Used
  <2> QED
    BY <2>1, <2>2 DEF Used
<1>8. ASSUME target' = target, fired' = fired,
             Ids(jobs') \cup Ids(disk') \subseteq Ids(jobs) \cup Ids(disk)
      PROVE  Used'
  <2>1. \A j \in Ids(jobs') \cup Ids(disk') : tool'[j] # "idle"
    BY <1>2, <1>3, <1>4, <1>8 DEF Used
  <2>2. \A u \in Removers : tool'[u] = "idle" => target'[u] = NoJob
    BY <1>3, <1>8 DEF Used, Tools
  <2>3. \A u \in Removers : target'[u] \in Adders => tool'[target'[u]] # "idle"
    BY <1>3, <1>4, <1>8 DEF Used
  <2> QED
    BY <1>3, <1>4, <1>8, <2>1, <2>2, <2>3 DEF Used
<1>9. CASE Claim
  <2>1. Ids(jobs') = Ids(jobs) /\ (disk' = jobs' \/ disk' = disk)
    BY <1>1, <1>9, ClaimList
  <2> QED
    BY <1>8, <1>9, <2>1 DEF Claim, toolVars
<1>10. CASE ClaimNone
  <2>1. Ids(jobs') = Ids(jobs) /\ (disk' = jobs' \/ disk' = disk)
    BY <1>1, <1>10, ClaimNoneList
  <2> QED
    BY <1>8, <1>10, <2>1 DEF ClaimNone, toolVars
<1>11. CASE Record
  <2>1. Ids(jobs') \subseteq Ids(jobs) /\ (disk' = jobs' \/ disk' = disk)
    BY <1>1, <1>11, RecordList
  <2> QED
    BY <1>8, <1>11, <2>1 DEF Record, toolVars
<1>12. CASE Restart
  <2>1. Ids(jobs') = Ids(disk) /\ (disk' = jobs' \/ disk' = disk)
    BY <1>1, <1>12, RestartList
  <2> QED
    BY <1>8, <1>12, <2>1 DEF Restart, toolVars
<1>13. CASE Crash
  <2>1. Ids(jobs') = {} /\ disk' = disk
    BY <1>13 DEF Crash, Ids
  <2> QED
    BY <1>8, <1>13, <2>1 DEF Crash
<1>14. CASE (\E t \in Tools : Wake(t)) \/ Plan \/ Select \/ WakeUp \/ Tick \/ UNCHANGED vars
  <2>1. jobs' = jobs /\ disk' = disk /\ target' = target /\ fired' = fired
    BY <1>14 DEF Wake, Plan, Select, WakeUp, Tick, vars, storeVars, toolVars
  <2> QED
    BY <1>8, <2>1
<1> QED
  BY <1>5, <1>6, <1>7, <1>9, <1>10, <1>11, <1>12, <1>13, <1>14 DEF Next, RunnerStep

LEMMA RemovedStep ==
  ASSUME TypeOK, ListInv, Used, RemovedIsGone, [Next]_vars
  PROVE  RemovedIsGone'
<1> DEFINE Gone(u) == target[u] \notin Ids(jobs) \cup Ids(disk)
           Ok(u)   == tool[u] \in {"saved", "done", "lost"}
<1>1. Numbers
  BY ClockIsPositive
<1>2. Ids(jobs) \subseteq Adders /\ Ids(disk) \subseteq Adders
  BY IdsAreAdders DEF ListInv
<1>3. tool \in [Tools -> {"idle", "saved", "failed", "lost", "done"}]
      /\ target \in [Removers -> Adders \cup {NoJob}] /\ Tools = Adders \cup Removers
      /\ Adders \cap Removers = {}
  BY CronAssumption DEF TypeOK, Tools
<1>4. \A u \in Removers : Ok(u) => Gone(u)
  BY DEF RemovedIsGone
<1>5. ASSUME NEW t \in Adders, Add(t) PROVE RemovedIsGone'
  <2>1. tool[t] = "idle" /\ t \notin Ids(jobs) /\ target' = target
    BY <1>5 DEF Add, Used
  <2>2. /\ Ids(jobs') = Ids(jobs) \cup {t}
        /\ disk' = jobs' \/ disk' = disk
        /\ \A u \in Removers : tool'[u] = tool[u]
    BY <1>1, <1>3, <1>5, <2>1, AddList
  <2>3. \A u \in Removers : target[u] # t
    BY <2>1 DEF Used
  <2> QED
    BY <1>4, <2>1, <2>2, <2>3 DEF RemovedIsGone
<1>6. ASSUME NEW t \in Removers, Remove(t) PROVE RemovedIsGone'
  <2>1. PICK r \in Ids(jobs) :
          /\ Ids(jobs') = Ids(jobs) \ {r}
          /\ target' = [target EXCEPT ![t] = r]
          /\ \/ disk' = jobs' /\ tool' = [tool EXCEPT ![t] = "saved"]
             \/ disk' = disk /\ tool' = [tool EXCEPT ![t] = "failed"]
    BY <1>6, RemoveList
  <2>2. \A u \in Removers : u # t => tool'[u] = tool[u] /\ target'[u] = target[u]
    BY <1>3, <2>1
  <2>3. target'[t] = r /\ (disk' = jobs' \/ tool'[t] = "failed")
    BY <1>3, <2>1
  <2>4. ASSUME NEW u \in Removers, tool'[u] \in {"saved", "done", "lost"}
        PROVE  target'[u] \notin Ids(jobs') \cup Ids(disk')
    BY <1>4, <2>1, <2>2, <2>3, <2>4
  <2> QED
    BY <2>4 DEF RemovedIsGone
<1>7. ASSUME target' = target,
             \A u \in Removers : tool'[u] \in {"saved", "done", "lost"} => Ok(u),
             Ids(jobs') \cup Ids(disk') \subseteq Ids(jobs) \cup Ids(disk)
      PROVE  RemovedIsGone'
  BY <1>4, <1>7 DEF RemovedIsGone
<1> HIDE DEF Gone
<1>8. CASE Claim
  <2>1. Ids(jobs') = Ids(jobs) /\ (disk' = jobs' \/ disk' = disk)
    BY <1>1, <1>8, ClaimList
  <2> QED
    BY <1>7, <1>8, <2>1 DEF Claim, toolVars
<1>9. CASE ClaimNone
  <2>1. Ids(jobs') = Ids(jobs) /\ (disk' = jobs' \/ disk' = disk)
    BY <1>1, <1>9, ClaimNoneList
  <2> QED
    BY <1>7, <1>9, <2>1 DEF ClaimNone, toolVars
<1>10. CASE Record
  <2>1. Ids(jobs') \subseteq Ids(jobs) /\ (disk' = jobs' \/ disk' = disk)
    BY <1>1, <1>10, RecordList
  <2> QED
    BY <1>7, <1>10, <2>1 DEF Record, toolVars
<1>11. CASE Restart
  <2>1. Ids(jobs') = Ids(disk) /\ (disk' = jobs' \/ disk' = disk)
    BY <1>1, <1>11, RestartList
  <2> QED
    BY <1>7, <1>11, <2>1 DEF Restart, toolVars
<1>12. CASE Crash
  <2>1. Ids(jobs') = {} /\ disk' = disk
    BY <1>12 DEF Crash, Ids
  <2>2. target' = target /\ \A u \in Removers : tool'[u] \in {"saved", "done", "lost"} => Ok(u)
    BY <1>3, <1>12 DEF Crash
  <2> QED
    BY <1>7, <2>1, <2>2
<1>13. CASE (\E t \in Tools : Wake(t)) \/ Fire \/ Plan \/ Select \/ WakeUp \/ Tick \/ UNCHANGED vars
  <2>1. jobs' = jobs /\ disk' = disk /\ target' = target
    BY <1>13 DEF Wake, Fire, Plan, Select, WakeUp, Tick, vars, storeVars, toolVars
  <2>2. \A u \in Removers : tool'[u] \in {"saved", "done", "lost"} => Ok(u)
    BY <1>3, <1>13 DEF Wake, Fire, Plan, Select, WakeUp, Tick, vars, toolVars
  <2> QED
    BY <1>7, <2>1, <2>2
<1> QED
  BY <1>5, <1>6, <1>8, <1>9, <1>10, <1>11, <1>12, <1>13 DEF Next, RunnerStep

LEMMA RunsStep ==
  ASSUME TypeOK, ListInv, Used, Held, Runs, [Next]_vars
  PROVE  Runs'
<1> DEFINE Once(j)    == fired[j] <= 1 + crashes
           Listed(j)  == j \in Ids(jobs) /\ ~ (runner = "ran" /\ claimed = j)
           Spare(j)   == fired[j] <= crashes
<1>1. Numbers
  BY ClockIsPositive
<1>2. fired \in [Adders -> Nat] /\ crashes \in Nat /\ OneShots \subseteq Adders
  BY CronAssumption DEF TypeOK
<1>3. \A j \in OneShots : Once(j) /\ (Listed(j) \/ runner = "down" => Spare(j))
  BY DEF Runs, OneShotOnce
<1>4. ASSUME fired' = fired, crashes' = crashes,
             \A j \in OneShots : (j \in Ids(jobs') /\ ~ (runner' = "ran" /\ claimed' = j))
                                 \/ runner' = "down" => Listed(j) \/ runner = "down" \/ Spare(j)
      PROVE  Runs'
  BY <1>3, <1>4 DEF Runs, OneShotOnce
<1>5. ASSUME NEW t \in Adders, Add(t) PROVE Runs'
  <2>1. /\ tool[t] = "idle" /\ t \notin Ids(jobs)
        /\ fired' = fired /\ crashes' = crashes /\ runner' = runner /\ claimed' = claimed
    BY <1>5 DEF Add, Used, runnerVars
  <2>2. Ids(jobs') = Ids(jobs) \cup {t}
    BY <1>1, <1>5, <2>1, AddList
  <2>3. Spare(t)
    BY <1>2, <2>1 DEF Used
  <2> QED
    BY <1>4, <2>1, <2>2, <2>3
<1>6. ASSUME NEW t \in Removers, Remove(t) PROVE Runs'
  <2>1. Ids(jobs') \subseteq Ids(jobs)
    BY <1>6, RemoveList
  <2>2. fired' = fired /\ crashes' = crashes /\ runner' = runner /\ claimed' = claimed
    BY <1>6 DEF Remove, runnerVars
  <2> QED
    BY <1>4, <2>1, <2>2
<1>7. CASE Claim
  <2>1. Ids(jobs') = Ids(jobs) /\ runner = "claim" /\ runner' # "down"
        /\ fired' = fired /\ crashes' = crashes
    BY <1>1, <1>7, ClaimList DEF Claim
  <2> QED
    BY <1>4, <2>1
<1>8. CASE ClaimNone
  <2>1. Ids(jobs') = Ids(jobs) /\ runner = "claim" /\ runner' # "down"
        /\ fired' = fired /\ crashes' = crashes
    BY <1>1, <1>8, ClaimNoneList DEF ClaimNone
  <2> QED
    BY <1>4, <2>1
<1>9. CASE Fire
  <2>1. /\ runner = "fire" /\ runner' = "ran" /\ claimed' = claimed /\ claimed \in Ids(jobs)
        /\ jobs' = jobs /\ crashes' = crashes /\ fired' = [fired EXCEPT ![claimed] = @ + 1]
    BY <1>9 DEF Fire, storeVars, boundVars, Held
  <2>2. \A j \in OneShots : j # claimed => fired'[j] = fired[j]
    BY <1>2, <2>1
  <2>3. claimed \in OneShots => Spare(claimed) /\ fired'[claimed] = fired[claimed] + 1
    BY <1>2, <1>3, <2>1
  <2>4. \A j \in OneShots : fired'[j] <= 1 + crashes'
    BY <1>2, <1>3, <2>1, <2>2, <2>3
  <2>5. \A j \in OneShots : j \in Ids(jobs') /\ j # claimed => fired'[j] <= crashes'
    BY <1>3, <2>1, <2>2
  <2> QED
    BY <2>1, <2>4, <2>5 DEF Runs, OneShotOnce
<1>10. CASE Record
  <2>1. /\ Ids(jobs') \subseteq Ids(jobs)
        /\ claimed \in OneShots => claimed \notin Ids(jobs')
    BY <1>1, <1>10, RecordList
  <2>2. runner = "ran" /\ runner' = "claim" /\ fired' = fired /\ crashes' = crashes
    BY <1>10 DEF Record
  <2> QED
    BY <1>4, <2>1, <2>2
<1>11. CASE Restart
  <2>1. runner = "down" /\ runner' = "claim" /\ fired' = fired /\ crashes' = crashes
    BY <1>11 DEF Restart
  <2> QED
    BY <1>4, <2>1
<1>12. CASE Crash
  <2>1. crashes' = crashes + 1 /\ fired' = fired
    BY <1>12 DEF Crash
  <2>2. \A j \in OneShots : fired'[j] <= crashes' /\ fired'[j] <= 1 + crashes'
    BY <1>2, <1>3, <2>1
  <2> QED
    BY <2>2 DEF Runs, OneShotOnce
<1>13. CASE Plan \/ Select \/ WakeUp
  <2>1. /\ jobs' = jobs /\ fired' = fired /\ crashes' = crashes
        /\ runner # "ran" /\ runner' # "down"
    BY <1>13 DEF Plan, Select, WakeUp, storeVars, boundVars
  <2> QED
    BY <1>4, <2>1
<1>14. CASE (\E t \in Tools : Wake(t)) \/ Tick \/ UNCHANGED vars
  <2>1. /\ jobs' = jobs /\ fired' = fired /\ crashes' = crashes
        /\ runner' = runner /\ claimed' = claimed
    BY <1>14 DEF Wake, Tick, vars, storeVars, runnerVars, boundVars
  <2> QED
    BY <1>4, <2>1
<1> QED
  BY <1>5, <1>6, <1>7, <1>8, <1>9, <1>10, <1>11, <1>12, <1>13, <1>14 DEF Next, RunnerStep

LEMMA DurableStep ==
  ASSUME TypeOK, ListInv, Used, Held, Durable, [Next]_vars
  PROVE  Durable'
<1> DEFINE Owed(j) == /\ tool[j] \in {"saved", "done", "lost"}
                      /\ fired[j] = 0
                      /\ \A t \in Removers : target[t] # j
           InPlace(j) == j \in Ids(disk) /\ (runner # "down" => j \in Ids(jobs))
           OwedNext(j) == /\ tool'[j] \in {"saved", "done", "lost"}
                          /\ fired'[j] = 0
                          /\ \A t \in Removers : target'[t] # j
           KeptNext(j) == j \in Ids(disk') /\ (runner' # "down" => j \in Ids(jobs'))
<1>1. Numbers
  BY ClockIsPositive
<1>2. /\ tool \in [Tools -> {"idle", "saved", "failed", "lost", "done"}]
      /\ target \in [Removers -> Adders \cup {NoJob}] /\ Tools = Adders \cup Removers
      /\ fired \in [Adders -> Nat] /\ Adders \cap Removers = {} /\ NoJob \notin Adders
      /\ Ids(jobs) \subseteq Adders
  BY CronAssumption, IdsAreAdders DEF TypeOK, Tools, ListInv
<1>3. \A j \in Adders : Owed(j) => InPlace(j)
  BY DEF Durable, AddedIsDurable, Up
<1>4. ASSUME runner' = "ran" => fired'[claimed'] > 0,
             \A j \in Adders : OwedNext(j) => KeptNext(j)
      PROVE  Durable'
  BY <1>4 DEF Durable, AddedIsDurable, Up
<1>5. ASSUME NEW t \in Adders, Add(t) PROVE Durable'
  <2>1. /\ runner # "down" /\ t \notin Ids(jobs) /\ target' = target
        /\ fired' = fired /\ runner' = runner /\ claimed' = claimed
    BY <1>5 DEF Add, Used, Up, runnerVars
  <2>2. /\ Ids(jobs') = Ids(jobs) \cup {t}
        /\ \/ disk' = jobs' /\ tool' = [tool EXCEPT ![t] = "saved"]
           \/ disk' = disk /\ tool' = [tool EXCEPT ![t] = "failed"]
    BY <1>1, <1>5, <2>1, AddList
  <2>3. ASSUME NEW j \in Adders, OwedNext(j) PROVE KeptNext(j)
    <3>1. CASE j = t
      BY <1>2, <2>2, <2>3, <3>1
    <3>2. CASE j # t
      <4>1. Owed(j)
        BY <1>2, <2>1, <2>2, <2>3, <3>2
      <4> QED
        BY <1>3, <2>1, <2>2, <4>1
    <3> QED
      BY <3>1, <3>2
  <2> QED
    BY <1>4, <2>1, <2>3 DEF Durable
<1>6. ASSUME NEW t \in Removers, Remove(t) PROVE Durable'
  <2>1. /\ tool[t] = "idle" /\ runner # "down" /\ fired' = fired
        /\ runner' = runner /\ claimed' = claimed
    BY <1>6 DEF Remove, Up, runnerVars
  <2>2. PICK r \in Ids(jobs) :
          /\ Ids(jobs') = Ids(jobs) \ {r}
          /\ target' = [target EXCEPT ![t] = r]
          /\ \/ disk' = jobs' /\ tool' = [tool EXCEPT ![t] = "saved"]
             \/ disk' = disk /\ tool' = [tool EXCEPT ![t] = "failed"]
    BY <1>6, RemoveList
  <2>3. ASSUME NEW j \in Adders, OwedNext(j) PROVE KeptNext(j)
    <3>1. j # r /\ tool'[j] = tool[j]
      BY <1>2, <2>2, <2>3
    <3>2. \A u \in Removers : target[u] # j
      BY <1>2, <2>1, <2>2, <2>3 DEF Used
    <3>3. Owed(j)
      BY <2>1, <2>3, <3>1, <3>2
    <3> QED
      BY <1>3, <2>1, <2>2, <3>1, <3>3
  <2> QED
    BY <1>4, <2>1, <2>3 DEF Durable
<1>7. CASE Fire
  <2>1. /\ runner = "fire" /\ claimed' = claimed /\ claimed \in Adders
        /\ jobs' = jobs /\ disk' = disk /\ tool' = tool /\ target' = target
        /\ fired' = [fired EXCEPT ![claimed] = @ + 1]
    BY <1>2, <1>7 DEF Fire, storeVars, toolVars, Held
  <2>2. fired'[claimed'] > 0
    BY <1>2, <2>1
  <2>3. \A j \in Adders : fired'[j] = 0 => fired[j] = 0
    BY <1>2, <2>1
  <2> QED
    BY <1>3, <1>4, <2>1, <2>2, <2>3
<1>8. CASE Record
  <2>1. /\ Ids(jobs) \subseteq Ids(jobs') \cup {claimed}
        /\ disk' = jobs' \/ disk' = disk
    BY <1>1, <1>8, RecordList
  <2>2. /\ runner = "ran" /\ runner' = "claim" /\ fired[claimed] > 0
        /\ tool' = tool /\ target' = target /\ fired' = fired
    BY <1>8 DEF Record, toolVars, Durable
  <2> QED
    BY <1>3, <1>4, <2>1, <2>2
<1>9. CASE Restart
  <2>1. Ids(jobs') = Ids(disk) /\ (disk' = jobs' \/ disk' = disk)
    BY <1>1, <1>9, RestartList
  <2>2. runner' = "claim" /\ tool' = tool /\ target' = target /\ fired' = fired
    BY <1>9 DEF Restart, toolVars
  <2> QED
    BY <1>3, <1>4, <2>1, <2>2
<1>10. CASE Crash
  <2>1. runner' = "down" /\ disk' = disk /\ target' = target /\ fired' = fired
    BY <1>10 DEF Crash
  <2>2. \A j \in Adders : tool'[j] \in {"saved", "done", "lost"} =>
                            tool[j] \in {"saved", "done", "lost"}
    BY <1>2, <1>10 DEF Crash
  <2> QED
    BY <1>3, <1>4, <2>1, <2>2
<1>11. CASE Claim \/ ClaimNone
  <2>1. Ids(jobs') = Ids(jobs) /\ (disk' = jobs' \/ disk' = disk)
    BY <1>1, <1>11, ClaimList, ClaimNoneList
  <2>2. /\ runner = "claim" /\ runner' # "ran"
        /\ tool' = tool /\ target' = target /\ fired' = fired
    BY <1>11 DEF Claim, ClaimNone, toolVars
  <2> QED
    BY <1>3, <1>4, <2>1, <2>2
<1>12. CASE Plan \/ Select \/ WakeUp
  <2>1. /\ runner # "down" /\ runner' # "ran" /\ jobs' = jobs /\ disk' = disk
        /\ tool' = tool /\ target' = target /\ fired' = fired
    BY <1>12 DEF Plan, Select, WakeUp, storeVars, toolVars
  <2> QED
    BY <1>3, <1>4, <2>1
<1>13. CASE (\E t \in Tools : Wake(t)) \/ Tick \/ UNCHANGED vars
  <2>1. /\ jobs' = jobs /\ disk' = disk /\ target' = target /\ fired' = fired
        /\ runner' = runner /\ claimed' = claimed
    BY <1>13 DEF Wake, Tick, vars, storeVars, runnerVars, toolVars
  <2>2. \A j \in Adders : tool'[j] \in {"saved", "done", "lost"} =>
                            tool[j] \in {"saved", "done", "lost"}
    BY <1>2, <1>13 DEF Wake, Tick, vars, toolVars
  <2> QED
    BY <1>3, <1>4, <2>1, <2>2 DEF Durable
<1> QED
  BY <1>5, <1>6, <1>7, <1>8, <1>9, <1>10, <1>11, <1>12, <1>13 DEF Next, RunnerStep

(* Plan sets the timer no later than any job that is not marked.            *)
LEMMA PlanCovers ==
  ASSUME Numbers, ListInv, Plan, NEW i \in Places(jobs), ~ jobs[i].running
  PROVE  deadline' <= jobs[i].next \/ deadline' <= clock
<1>1. jobs \in Seq(JobType) /\ DOMAIN jobs = Places(jobs)
  BY IdsOf DEF ListInv, Listing
<1>2. jobs[i].enabled /\ jobs[i].next # 0
  BY DEF ListInv, Listing
<1>3. jobs[i].next \in Waking
  BY <1>1, <1>2 DEF Waking
<1>4. deadline' <= IF jobs[i].next < clock THEN clock ELSE jobs[i].next
  BY <1>3 DEF Plan
<1> QED
  BY <1>4

LEMMA TimerStep ==
  ASSUME TypeOK, ListInv, Used, Timer, [Next]_vars
  PROVE  Timer'
<1> DEFINE Quiet == ~ token /\ \A t \in Tools : tool[t] # "saved"
           Covered(j) == deadline <= j.next \/ deadline <= clock
<1>1. Numbers
  BY ClockIsPositive
<1>2. /\ tool \in [Tools -> {"idle", "saved", "failed", "lost", "done"}]
      /\ Adders \subseteq Tools /\ Removers \subseteq Tools
      /\ Ids(jobs) \subseteq Adders
      /\ \A i \in Places(jobs) : jobs[i].id \in Ids(jobs)
  BY IdsAreAdders, IdsOf DEF TypeOK, Tools, ListInv, Listing
<1>3. ASSUME NEW t \in Adders, Add(t) PROVE Timer'
  <2>1. /\ t \notin Ids(jobs) /\ token' = token /\ clock' = clock
        /\ runner' = runner /\ deadline' = deadline
    BY <1>3 DEF Add, Used, runnerVars
  <2>2. /\ \A a \in Places(jobs') : \/ \E i \in Places(jobs) : jobs'[a] = jobs[i]
                                    \/ jobs'[a].id = t /\ ~ jobs'[a].running
        /\ \/ tool' = [tool EXCEPT ![t] = "saved"]
           \/ tool' = [tool EXCEPT ![t] = "failed"]
    BY <1>1, <1>3, <2>1, AddList
  <2>3. CASE tool' = [tool EXCEPT ![t] = "saved"]
    BY <1>2, <2>3 DEF Timer
  <2>4. CASE tool' = [tool EXCEPT ![t] = "failed"]
    <3>1. \A u \in Tools : u # t => tool'[u] = tool[u]
      BY <1>2, <2>4
    <3>2. tool[t] # "saved" /\ tool'[t] = "failed"
      BY <1>2, <1>3, <2>4 DEF Add
    <3> QED
      BY <1>2, <2>1, <2>2, <3>1, <3>2 DEF Timer
  <2> QED
    BY <2>2, <2>3, <2>4
<1>4. ASSUME NEW t \in Removers, Remove(t) PROVE Timer'
  <2>1. token' = token /\ clock' = clock /\ runner' = runner /\ deadline' = deadline
    BY <1>4 DEF Remove, runnerVars
  <2>2. /\ \A a \in Places(jobs') : \E i \in Places(jobs) : jobs'[a] = jobs[i]
        /\ \/ tool' = [tool EXCEPT ![t] = "saved"]
           \/ tool' = [tool EXCEPT ![t] = "failed"]
    BY <1>4, RemoveList
  <2>3. CASE tool' = [tool EXCEPT ![t] = "saved"]
    BY <1>2, <2>3 DEF Timer
  <2>4. CASE tool' = [tool EXCEPT ![t] = "failed"]
    <3>1. /\ \A u \in Tools : u # t => tool'[u] = tool[u]
          /\ \A j \in Adders : j # t
      BY <1>2, <2>4, CronAssumption
    <3>2. tool[t] # "saved"
      BY <1>4 DEF Remove
    <3> QED
      BY <1>2, <2>1, <2>2, <3>1, <3>2 DEF Timer
  <2> QED
    BY <2>2, <2>3, <2>4
<1>5. CASE \E t \in Tools : Wake(t)
  BY <1>5 DEF Wake, Timer
<1>6. CASE Plan
  <2>1. jobs' = jobs /\ clock' = clock
    BY <1>6 DEF Plan, storeVars
  <2>2. \A i \in Places(jobs) :
          ~ jobs[i].running => deadline' <= jobs[i].next \/ deadline' <= clock
    BY <1>1, <1>6, PlanCovers
  <2> QED
    BY <2>1, <2>2 DEF Timer
<1>7. CASE Select \/ UNCHANGED vars
  <2>1. /\ jobs' = jobs /\ clock' = clock /\ token' = token /\ tool' = tool
        /\ deadline' = deadline
        /\ runner' \in {"armed", "sleep"} => runner \in {"armed", "sleep"}
    BY <1>7 DEF Select, vars, storeVars, toolVars, runnerVars
  <2> QED
    BY <2>1 DEF Timer
<1>8. CASE Tick
  <2>1. /\ jobs' = jobs /\ clock' = clock + 1 /\ token' = token /\ tool' = tool
        /\ deadline' = deadline /\ runner' = runner
    BY <1>8 DEF Tick, storeVars, toolVars, runnerVars
  <2>2. clock \in Nat /\ deadline \in Nat
    BY <1>1 DEF Numbers, TypeOK
  <2>3. deadline <= clock => deadline <= clock + 1
    BY <2>2
  <2> QED
    BY <2>1, <2>3 DEF Timer
<1>9. CASE Claim \/ ClaimNone \/ Fire \/ Record \/ WakeUp \/ Crash \/ Restart
  <2>1. runner' \notin {"armed", "sleep"}
    BY <1>9 DEF Claim, ClaimNone, Fire, Record, WakeUp, Crash, Restart
  <2> QED
    BY <2>1 DEF Timer
<1> QED
  BY <1>3, <1>4, <1>5, <1>6, <1>7, <1>8, <1>9 DEF Next, RunnerStep

LEMMA TypeStep ==
  ASSUME TypeOK, ListInv, Used, Held, [Next]_vars
  PROVE  TypeOK'
<1> USE CronAssumption
<1>1. Numbers
  BY ClockIsPositive
<1>2. Listing(jobs') /\ Listing(disk')
  BY ListStep
<1>3. jobs' \in Seq(JobType) /\ disk' \in Seq(JobType)
  BY <1>2 DEF Listing
<1>4. Ids(jobs) \subseteq Adders /\ Ids(jobs') \subseteq Adders
  BY <1>2, IdsAreAdders DEF ListInv
<1>5. Tools = Adders \cup Removers
  BY DEF Tools
<1> DEFINE Rest == /\ clock' \in 1 .. MaxTime /\ token' \in BOOLEAN
                   /\ runner' \in {"claim", "fire", "ran", "plan", "armed", "sleep", "down"}
                   /\ claimed' \in Adders \cup {NoJob} /\ deadline' \in Nat
                   /\ tool' \in [Tools -> {"idle", "saved", "failed", "lost", "done"}]
                   /\ target' \in [Removers -> Adders \cup {NoJob}]
                   /\ fired' \in [Adders -> Nat]
                   /\ faults' \in 0 .. MaxFaults /\ crashes' \in 0 .. MaxCrashes
<1> SUFFICES Rest
  BY <1>3 DEF TypeOK
<1>6. \A s, K : Save(s, K) \/ SaveFails(s, K) => faults' \in 0 .. MaxFaults
  BY DEF Save, SaveFails, TypeOK
<1>7. ASSUME NEW t \in Adders, Add(t) PROVE Rest
  <2>1. t \notin Ids(jobs)
    BY <1>7 DEF Add, Used
  <2>2. \/ tool' = [tool EXCEPT ![t] = "saved"]
        \/ tool' = [tool EXCEPT ![t] = "failed"]
    BY <1>1, <1>7, <2>1, AddList
  <2>3. faults' \in 0 .. MaxFaults
    BY <1>6, <1>7 DEF Add
  <2>4. UNCHANGED <<clock, token, runner, claimed, deadline, target, fired, crashes>>
    BY <1>7 DEF Add, runnerVars
  <2> QED
    BY <1>5, <2>2, <2>3, <2>4 DEF TypeOK
<1>8. ASSUME NEW t \in Removers, Remove(t) PROVE Rest
  <2>1. PICK r \in Ids(jobs) :
          /\ target' = [target EXCEPT ![t] = r]
          /\ \/ tool' = [tool EXCEPT ![t] = "saved"]
             \/ tool' = [tool EXCEPT ![t] = "failed"]
    BY <1>8, RemoveList
  <2>2. faults' \in 0 .. MaxFaults
    BY <1>6, <1>8 DEF Remove
  <2>3. UNCHANGED <<clock, token, runner, claimed, deadline, fired, crashes>>
    BY <1>8 DEF Remove, runnerVars
  <2> QED
    BY <1>4, <1>5, <2>1, <2>2, <2>3 DEF TypeOK
<1>9. ASSUME NEW t \in Tools, Wake(t) PROVE Rest
  BY <1>9 DEF Wake, TypeOK, storeVars, runnerVars, boundVars
<1>10. CASE Claim
  <2>1. runner' \in {"fire", "plan"} /\ claimed' \in Adders \cup {NoJob}
    BY <1>1, <1>4, <1>10, ClaimList DEF TypeOK
  <2>2. faults' \in 0 .. MaxFaults
    BY <1>6, <1>10 DEF Claim
  <2>3. UNCHANGED <<clock, token, deadline, tool, target, fired, crashes>>
    BY <1>10 DEF Claim, toolVars
  <2> QED
    BY <2>1, <2>2, <2>3 DEF TypeOK
<1>11. CASE ClaimNone
  <2>1. faults' \in 0 .. MaxFaults
    BY <1>6, <1>11 DEF ClaimNone
  <2> QED
    BY <1>11, <2>1 DEF ClaimNone, TypeOK, toolVars
<1>12. CASE Fire
  BY <1>4, <1>12 DEF Fire, TypeOK, Held, storeVars, toolVars, boundVars
<1>13. CASE Record
  <2>1. faults' \in 0 .. MaxFaults
    BY <1>6, <1>13 DEF Record, TypeOK
  <2> QED
    BY <1>13, <2>1 DEF Record, TypeOK, toolVars
<1>14. CASE Plan
  <2>1. \A n \in Waking : n \in Nat
    <3> SUFFICES ASSUME NEW i \in DOMAIN jobs PROVE jobs[i].next \in Nat
      BY DEF Waking
    <3>1. jobs[i] \in JobType
      BY DEF TypeOK
    <3> QED
      BY <3>1 DEF JobType
  <2>2. deadline' \in Nat
    BY <1>1, <1>14, <2>1 DEF Plan, Numbers
  <2> QED
    BY <1>14, <2>2 DEF Plan, TypeOK, storeVars, toolVars, boundVars
<1>15. CASE Select
  BY <1>15 DEF Select, TypeOK, storeVars, toolVars, boundVars
<1>16. CASE WakeUp
  BY <1>16 DEF WakeUp, TypeOK, storeVars, toolVars, boundVars
<1>17. CASE Tick
  BY <1>17 DEF Tick, TypeOK, storeVars, runnerVars, toolVars, boundVars
<1>18. CASE Crash
  <2>1. tool' \in [Tools -> {"idle", "saved", "failed", "lost", "done"}]
    BY <1>18 DEF Crash, TypeOK
  <2>2. crashes' \in 0 .. MaxCrashes
    BY <1>18 DEF Crash, TypeOK
  <2>3. /\ runner' = "down" /\ claimed' = NoJob /\ token' = FALSE
        /\ UNCHANGED <<clock, deadline, target, fired, faults>>
    BY <1>18 DEF Crash
  <2> QED
    BY <2>1, <2>2, <2>3 DEF TypeOK
<1>19. CASE Restart
  <2>1. faults' \in 0 .. MaxFaults
    BY <1>6, <1>19 DEF Restart
  <2> QED
    BY <1>19, <2>1 DEF Restart, TypeOK, toolVars
<1>20. CASE UNCHANGED vars
  BY <1>20 DEF vars, TypeOK, storeVars, runnerVars, toolVars, boundVars
<1> QED
  BY <1>7, <1>8, <1>9, <1>10, <1>11, <1>12, <1>13, <1>14, <1>15, <1>16, <1>17, <1>18, <1>19,
     <1>20 DEF Next, RunnerStep

-----------------------------------------------------------------------------
IInv == TypeOK /\ ListInv /\ Used /\ Held /\ Timer /\ Runs /\ Durable /\ RemovedIsGone

LEMMA InitIInv ==
  ASSUME Init
  PROVE  IInv
<1> USE CronAssumption
<1>1. TypeOK
  <2>1. <<>> \in Seq(JobType)
    OBVIOUS
  <2>2. jobs \in Seq(JobType) /\ disk \in Seq(JobType)
    BY <2>1 DEF Init
  <2>3. clock \in 1 .. MaxTime /\ faults \in 0 .. MaxFaults /\ crashes \in 0 .. MaxCrashes
    BY DEF Init
  <2> QED
    BY <2>2, <2>3 DEF Init, TypeOK
<1>2. ListInv
  BY DEF Init, ListInv, Listing, Ordered, Places
<1>3. Ids(jobs) = {} /\ Ids(disk) = {}
  BY DEF Init, Ids
<1>4. Used /\ Durable /\ RemovedIsGone
  BY <1>3 DEF Init, Used, Durable, AddedIsDurable, RemovedIsGone, Tools
<1>5. Held /\ Timer
  BY DEF Init, Held, Timer
<1>6. Runs
  BY <1>3 DEF Init, Runs, OneShotOnce
<1> QED
  BY <1>1, <1>2, <1>4, <1>5, <1>6 DEF IInv

LEMMA StepIInv ==
  ASSUME IInv, [Next]_vars
  PROVE  IInv'
<1> USE DEF IInv
<1>1. TypeOK'
  BY TypeStep
<1>2. ListInv'
  BY ListStep DEF ListInv
<1>3. Used'
  BY UsedStep
<1>4. Held'
  BY HeldStep DEF Held
<1>5. Timer'
  BY TimerStep
<1>6. Runs'
  BY RunsStep
<1>7. Durable'
  BY DurableStep
<1>8. RemovedIsGone'
  BY RemovedStep
<1> QED
  BY <1>1, <1>2, <1>3, <1>4, <1>5, <1>6, <1>7, <1>8

LEMMA IInvImpliesCronInv ==
  ASSUME IInv
  PROVE  CronInv
<1>1. jobs \in Seq(JobType) /\ DOMAIN jobs = Places(jobs)
  BY IdsOf DEF IInv, ListInv, Listing
<1>2. ClaimHeld
  BY <1>1 DEF IInv, Held, ClaimHeld
<1>3. NoLostWakeup
  BY <1>1 DEF IInv, Timer, NoLostWakeup
<1> QED
  BY <1>2, <1>3 DEF IInv, CronInv

LEMMA AlwaysIInv == Spec => []IInv
<1>1. Init => IInv
  BY InitIInv
<1>2. IInv /\ [Next]_vars => IInv'
  BY StepIInv
<1> QED
  BY <1>1, <1>2, PTL DEF Spec

(* What runs is what ClaimDue marked, until it is recorded, and a sleeping  *)
(* runner with no wake-up on its way has its timer set for every job.       *)
THEOREM RunnerServesJobs == Spec => []CronInv
<1>1. IInv => CronInv
  BY IInvImpliesCronInv
<1> QED
  BY <1>1, AlwaysIInv, PTL

(* A job whose Add succeeded is in jobs.json until it was run or removed.   *)
THEOREM AddedStays == Spec => []AddedIsDurable
<1>1. IInv => AddedIsDurable
  BY DEF IInv, Durable
<1> QED
  BY <1>1, AlwaysIInv, PTL

(* A job whose Remove succeeded comes back neither in memory nor on disk.   *)
THEOREM RemovedStaysGone == Spec => []RemovedIsGone
<1>1. IInv => RemovedIsGone
  BY DEF IInv
<1> QED
  BY <1>1, AlwaysIInv, PTL

(* A one-shot job runs again only after a crash.                            *)
THEOREM OneShotRunsOnce == Spec => []OneShotOnce
<1>1. IInv => OneShotOnce
  BY DEF IInv, Runs
<1> QED
  BY <1>1, AlwaysIInv, PTL
=============================================================================
