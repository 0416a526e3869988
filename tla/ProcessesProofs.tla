-------------------------- MODULE ProcessesProofs ---------------------------
(***************************************************************************)
(* Process families, for every number of processes and everything their    *)
(* programs may do: who is to be reaped can be, by one parent; no two      *)
(* processes have one pid; a wait for a pid is never taken in by a later   *)
(* process with it; and the pids of plain programs come back.              *)
(***************************************************************************)
EXTENDS Processes, WellFoundedInduction, TLAPS

(* The time a prover has for a step, where the step does not say.          *)
USE SMTT(30)

(* The inductive invariant.  The three properties need one another: reaping *)
(* goes by pid, so lists stay right because pids are unique; pids are       *)
(* unique because a pid is freed only with its PCB; and that a PCB still in *)
(* use is not freed is what the Arcs in lists, table and calls are for.     *)
Waiting == [op : {"wait"}, who : [target : Int, group : Int], meant : SUBSET PCBs, holds : SUBSET PCBs]
Vforking == [op : {"vfork"}, child : PCBs, holds : SUBSET PCBs]
Calls == {Absent, User} \cup Waiting \cup Vforking

Types ==
  /\ state \in [PCBs -> {"none", "live", "zombie"}]
  /\ parent \in [PCBs -> PCBs \cup {Nobody}]
  /\ children \in [PCBs -> Seq(PCBs)]
  /\ pid \in [PCBs -> Nat] /\ pgid \in [PCBs -> Nat]
  /\ killed \in [PCBs -> BOOLEAN] /\ tkilled \in [PCBs -> SUBSET Tids]
  /\ call \in [PCBs -> [Tids -> Calls]]
  /\ table \subseteq PCBs /\ leaked \subseteq PCBs
  /\ fresh \in Nat /\ recycled \subseteq 1 .. fresh - 1
  /\ uses \in Repertoires

(* INITPROC is never killed.                                               *)
InitLives ==
  /\ state[INITPROC] = "live" /\ INITPROC \in table /\ pid[INITPROC] = 1
  /\ ~killed[INITPROC] /\ tkilled[INITPROC] = {}

Existing == {p \in PCBs : Exists(p)}

(* What an Arc refers to exists, and only live processes make calls.       *)
Refers ==
  /\ Referred \subseteq Existing
  /\ \A p \in PCBs : state[p] = "live" => p \in table
  /\ \A p \in PCBs, t \in Tids : state[p] # "live" => call[p][t] = Absent

Pids == PidsUnique /\ \A p \in PCBs : Exists(p) => pid[p] \in 1 .. fresh - 1

Distinct(s) == \A i, j \in DOMAIN s : s[i] = s[j] => i = j

(* The children lists are the inverse of parent, on the processes that can *)
(* still be reaped.                                                        *)
ListsOf(lists, tab) ==
  /\ \A p \in PCBs : Distinct(lists[p])
  /\ \A p \in PCBs : \A c \in Range(lists[p]) : c \in tab \ {INITPROC} /\ parent[c] = p
  /\ \A c \in tab \ {INITPROC} :
       parent[c] \in PCBs /\ state[parent[c]] = "live" /\ c \in Range(lists[parent[c]])
Lists == ListsOf(children, table)

(* A wait for one pid holds an Arc of the child it is for.                 *)
KnowsChild(c) == (c.op = "wait" /\ c.who.target > 0) =>
  /\ c.meant = {q \in PCBs : Exists(q) /\ pid[q] = c.who.target}
  /\ c.meant # {} /\ c.meant \subseteq c.holds
Waits == \A p \in PCBs, t \in Tids : state[p] = "live" => KnowsChild(call[p][t])

IInv == Types /\ InitLives /\ Refers /\ Pids /\ Lists /\ Waits

-----------------------------------------------------------------------------
(* First is the least, so it is one of them.                               *)
LEMMA FirstIsLeast ==
  ASSUME NEW S, S \subseteq Nat, S # {}
  PROVE  First(S) \in S /\ \A j \in S : First(S) <= j
<1> DEFINE R == OpToRel(<, Nat)
<1>1. IsWellFoundedOn(R, Nat)
  BY ZenonT(30), NatLessThanWellFounded
<1>2. R = {ss \in Nat \X Nat : ss[1] < ss[2]}
  BY ZenonT(30) DEF R, OpToRel
<1> HIDE DEF R
<1>3. PICK i \in S : \A j \in S : ~ (<<j, i>> \in R)
  BY ZenonT(30), <1>1, WFMin
<1>4. ASSUME NEW j \in S PROVE i <= j
  <2>1. i \in Nat /\ j \in Nat /\ ~ (<<j, i>> \in R)
    BY ZenonT(30), <1>3
  <2>2. ~ (j < i)
    BY ZenonT(30), <2>1, <1>2
  <2> QED
    BY <2>1, <2>2
<1> QED
  BY ZenonT(30), <1>4 DEF First

(* A child is appended (add_child).                                        *)
LEMMA ListAppend ==
  ASSUME NEW s \in Seq(PCBs), Distinct(s), NEW x \in PCBs, x \notin Range(s)
  PROVE  /\ Append(s, x) \in Seq(PCBs)
         /\ Distinct(Append(s, x))
         /\ Range(Append(s, x)) = Range(s) \cup {x}
<1>1. Append(s, x) \in Seq(PCBs) /\ Len(Append(s, x)) = Len(s) + 1
  OBVIOUS
<1>2. \A i \in 1..Len(s) : Append(s, x)[i] = s[i]
  OBVIOUS
<1>3. Append(s, x)[Len(s) + 1] = x
  OBVIOUS
<1>4. DOMAIN Append(s, x) = 1..Len(s) + 1 /\ DOMAIN s = 1..Len(s) /\ Len(s) \in Nat
  BY <1>1
<1>5. Range(Append(s, x)) = Range(s) \cup {x}
  BY <1>2, <1>3, <1>4 DEF Range
<1>6. Distinct(Append(s, x))
  BY <1>2, <1>3, <1>4 DEF Range, Distinct
<1> QED
  BY ZenonT(30), <1>1, <1>5, <1>6

(* The children of a process that exits join those of INITPROC.            *)
LEMMA ListConcat ==
  ASSUME NEW s \in Seq(PCBs), Distinct(s), NEW r \in Seq(PCBs), Distinct(r), Range(s) \cap Range(r) = {}
  PROVE  /\ s \o r \in Seq(PCBs)
         /\ Distinct(s \o r)
         /\ Range(s \o r) = Range(s) \cup Range(r)
<1> DEFINE sr == s \o r
<1>1. sr \in Seq(PCBs) /\ Len(sr) = Len(s) + Len(r)
  OBVIOUS
<1>2. \A i \in 1..Len(s) : sr[i] = s[i]
  OBVIOUS
<1>3. \A i \in 1..Len(r) : sr[Len(s) + i] = r[i]
  OBVIOUS
<1>4. /\ DOMAIN sr = 1..Len(s) + Len(r) /\ DOMAIN s = 1..Len(s) /\ DOMAIN r = 1..Len(r)
      /\ Len(s) \in Nat /\ Len(r) \in Nat
  BY <1>1
<1> HIDE DEF sr
<1>5. \A i \in DOMAIN sr : \/ i \in DOMAIN s /\ sr[i] = s[i]
                           \/ \E j \in DOMAIN r : i = Len(s) + j /\ sr[i] = r[j]
  <2> SUFFICES ASSUME NEW i \in DOMAIN sr, i \notin DOMAIN s
               PROVE  \E j \in DOMAIN r : i = Len(s) + j /\ sr[i] = r[j]
    BY ZenonT(30), <1>2, <1>4
  <2>1. i - Len(s) \in DOMAIN r /\ i = Len(s) + (i - Len(s))
    BY <1>4
  <2> QED
    BY ZenonT(30), <2>1, <1>3, <1>4
<1>6. Range(sr) \subseteq Range(s) \cup Range(r)
  BY ZenonT(30), <1>5 DEF Range
<1>7. \A j \in DOMAIN r : Len(s) + j \in DOMAIN sr /\ sr[Len(s) + j] = r[j]
  BY <1>3, <1>4
<1>8. Range(s) \subseteq Range(sr) /\ Range(r) \subseteq Range(sr)
  BY <1>2, <1>4, <1>7 DEF Range
<1>9. Distinct(sr)
  <2> SUFFICES ASSUME NEW i \in DOMAIN sr, NEW j \in DOMAIN sr, sr[i] = sr[j] PROVE i = j
    BY ZenonT(30) DEF Distinct
  <2>1. \A a \in DOMAIN s, b \in DOMAIN r : s[a] # r[b]
    BY ZenonT(30) DEF Range
  <2> QED
    BY <2>1, <1>5 DEF Distinct
<1> QED
  BY ZenonT(30), <1>1, <1>6, <1>8, <1>9 DEF sr

(* A child is removed (remove_child_by_pid).                               *)
LEMMA ListRemove ==
  ASSUME NEW s \in Seq(PCBs), Distinct(s), NEW k \in DOMAIN s
  PROVE  /\ Without(s, k) \in Seq(PCBs)
         /\ Distinct(Without(s, k))
         /\ Range(Without(s, k)) = Range(s) \ {s[k]}
<1> DEFINE a == SubSeq(s, 1, k - 1)
           b == SubSeq(s, k + 1, Len(s))
<1>1. k \in 1..Len(s) /\ Len(s) \in Nat /\ DOMAIN s = 1..Len(s)
  OBVIOUS
<1>2. a \in Seq(PCBs) /\ Len(a) = k - 1 /\ \A i \in 1..k - 1 : a[i] = s[i]
  BY <1>1
<1>3. b \in Seq(PCBs) /\ Len(b) = Len(s) - k /\ \A i \in 1..Len(s) - k : b[i] = s[k + i]
  BY <1>1
<1>4. DOMAIN a = 1..k - 1 /\ DOMAIN b = 1..Len(s) - k
  BY <1>2, <1>3
<1> HIDE DEF a, b
<1>a. \A i \in DOMAIN a : i \in DOMAIN s /\ i \in Nat /\ i # k /\ i < k /\ a[i] = s[i]
  BY <1>1, <1>2, <1>4
<1>b. \A i \in DOMAIN b : i \in Nat /\ k + i \in DOMAIN s /\ k + i > k /\ b[i] = s[k + i]
  BY <1>1, <1>3, <1>4
<1>5. Distinct(a) /\ Distinct(b)
  <2>1. Distinct(a)
    BY ZenonT(30), <1>a DEF Distinct
  <2>2. ASSUME NEW i \in DOMAIN b, NEW j \in DOMAIN b, b[i] = b[j] PROVE i = j
    <3>1. k + i = k + j
      BY ZenonT(30), <1>b, <2>2 DEF Distinct
    <3> QED
      BY <3>1, <1>1, <1>b
  <2> QED
    BY ZenonT(30), <2>1, <2>2 DEF Distinct
<1>6. Range(a) \cap Range(b) = {}
  <2> SUFFICES ASSUME NEW i \in DOMAIN a, NEW j \in DOMAIN b, a[i] = b[j] PROVE FALSE
    BY ZenonT(30) DEF Range
  <2>1. i = k + j
    BY ZenonT(30), <1>a, <1>b DEF Distinct
  <2> QED
    BY <2>1, <1>1, <1>a, <1>b
<1>7. Range(a) \cup Range(b) \subseteq Range(s) \ {s[k]}
  <2>1. \A i \in DOMAIN a : a[i] \in Range(s) /\ a[i] # s[k]
    BY ZenonT(30), <1>a DEF Range, Distinct
  <2>2. ASSUME NEW i \in DOMAIN b PROVE b[i] \in Range(s) /\ b[i] # s[k]
    <3>1. k + i # k
      BY <1>1, <1>b
    <3> QED
      BY ZenonT(30), <3>1, <1>b DEF Range, Distinct
  <2> QED
    BY ZenonT(30), <2>1, <2>2 DEF Range
<1>8. ASSUME NEW i \in DOMAIN s, i # k PROVE s[i] \in Range(a) \cup Range(b)
  <2>1. CASE i < k
    BY <2>1, <1>1, <1>2, <1>4 DEF Range
  <2>2. CASE i > k
    <3>1. i - k \in DOMAIN b /\ k + (i - k) = i
      BY <2>2, <1>1, <1>4
    <3> QED
      BY ZenonT(30), <3>1, <1>b DEF Range
  <2> QED
    BY <2>1, <2>2, <1>1, <1>8
<1>9. Range(a) \cup Range(b) = Range(s) \ {s[k]}
  BY ZenonT(30), <1>7, <1>8 DEF Range
<1> QED
  BY ZenonT(30), <1>2, <1>3, <1>5, <1>6, <1>9, ListConcat DEF Without, a, b

-----------------------------------------------------------------------------
(* A thread goes on to another place in the kernel, or back to user mode.  *)
LEMMA AtChanges ==
  ASSUME NEW f \in [PCBs -> [Tids -> Calls]], NEW p \in PCBs, NEW t \in Tids, NEW place \in Calls
  PROVE  /\ At(f, p, t, place) \in [PCBs -> [Tids -> Calls]]
         /\ At(f, p, t, place)[p][t] = place
         /\ \A q \in PCBs, u \in Tids : q # p \/ u # t => At(f, p, t, place)[q][u] = f[q][u]
  BY ZenonT(30) DEF At

(* The calls then are those of before, but for this thread's.              *)
LEMMA CallChanges ==
  ASSUME Types, NEW p \in PCBs, NEW t \in Tids, NEW place \in Calls
  PROVE  /\ At(call, p, t, place) \in [PCBs -> [Tids -> Calls]]
         /\ At(call, p, t, place)[p][t] = place
         /\ \A q \in PCBs, u \in Tids : q # p \/ u # t => At(call, p, t, place)[q][u] = call[q][u]
<1>1. call \in [PCBs -> [Tids -> Calls]]
  BY ZenonT(30) DEF Types
<1> QED
  BY <1>1, AtChanges

(* The drops at the end of a step: they take nothing that a list, the      *)
(* table, a live process or a wait depends on, given that the step before  *)
(* them has left these right.                                              *)
LEMMA DropKeeps ==
  ASSUME IInv, DropUnreferred, UNCHANGED <<leaked, uses, killed, tkilled>>,
         children' \in [PCBs -> Seq(PCBs)], call' \in [PCBs -> [Tids -> Calls]],
         table' \subseteq table, INITPROC \in table', Referred' \subseteq Existing,
         \A p \in PCBs : state[p] = "live" => p \in table',
         \A p \in PCBs, t \in Tids : state[p] # "live" => call'[p][t] = Absent,
         ListsOf(children', table'),
         \A p \in PCBs, t \in Tids : state[p] = "live" => KnowsChild(call'[p][t])
  PROVE  IInv'
<1> DEFINE G == Existing \ Referred'
<1> USE DEF Exists, Existing
<1>1. /\ state' = [p \in PCBs |-> IF p \in G THEN "none" ELSE state[p]]
      /\ recycled' = recycled \cup {pid[p] : p \in G}
      /\ pid' = [p \in PCBs |-> IF p \in G THEN 1 ELSE pid[p]]
      /\ parent' = [p \in PCBs |-> IF p \in G THEN Nobody ELSE parent[p]]
      /\ pgid' = [p \in PCBs |-> IF p \in G THEN 1 ELSE pgid[p]]
      /\ fresh' = fresh
  BY DEF DropUnreferred
<1>2. table' \subseteq Referred' /\ INITPROC \in Referred'
  BY ZenonT(30), ProcessesAssumption DEF Referred, IInv, Types
<1>3. \A p \in PCBs : state[p] = "live" => p \notin G
  BY ZenonT(30), <1>2
<1> HIDE DEF G
<1>4. \A p \in G : p \in PCBs /\ state[p] # "none" /\ p \notin table'
  BY ZenonT(30), <1>2 DEF G
<1>5. Types'
  BY ZenonT(30), <1>1, <1>4 DEF IInv, Types, Pids
<1>6. InitLives'
  BY ZenonT(30), <1>1, <1>2, <1>3, ProcessesAssumption DEF IInv, InitLives
<1>7. Refers'
  <2>1. Existing' = Existing \ G
    BY ZenonT(30), <1>1 DEF IInv, Types
  <2>2. Referred' \subseteq Existing'
    BY ZenonT(30), <2>1 DEF G
  <2>3. \A p \in PCBs : state'[p] = "live" => p \in table'
    BY ZenonT(30), <1>1
  <2>4. \A p \in PCBs, t \in Tids : state'[p] # "live" => call'[p][t] = Absent
    BY ZenonT(30), <1>1, <1>3
  <2> QED
    BY ZenonT(30), <2>2, <2>3, <2>4 DEF Refers
<1>8. Pids'
  BY <1>1, <1>4 DEF IInv, Types, Pids, PidsUnique
<1>9. Lists'
  <2>1. \A p \in PCBs : Distinct(children'[p])
    BY ZenonT(30) DEF ListsOf
  <2>2. \A p \in PCBs : \A c \in Range(children'[p]) :
          c \in PCBs /\ c \in table' \ {INITPROC} /\ parent[c] = p
    BY ZenonT(30) DEF ListsOf, IInv, Types
  <2>3. \A c \in table' \ {INITPROC} :
          /\ c \in PCBs /\ parent[c] \in PCBs /\ state[parent[c]] = "live"
          /\ c \in Range(children'[parent[c]])
    BY ZenonT(30) DEF ListsOf, IInv, Types
  <2>4. \A c \in table' : parent'[c] = parent[c]
    BY ZenonT(30), <1>1, <1>4 DEF IInv, Types
  <2>5. \A p \in PCBs : state[p] = "live" => state'[p] = "live"
    BY ZenonT(30), <1>1, <1>3
  <2> HIDE DEF Existing, Exists
  <2> QED
    BY ZenonT(30), <2>1, <2>2, <2>3, <2>4, <2>5 DEF Lists, ListsOf
<1>10. Waits'
  <2> SUFFICES ASSUME NEW p \in PCBs, NEW t \in Tids, state'[p] = "live",
                      call'[p][t].op = "wait", call'[p][t].who.target > 0
               PROVE  /\ call'[p][t].meant = {q \in PCBs : Exists(q)' /\ pid'[q] = call'[p][t].who.target}
                      /\ call'[p][t].meant # {} /\ call'[p][t].meant \subseteq call'[p][t].holds
    BY ZenonT(30) DEF Waits, KnowsChild
  <2>1. state[p] = "live"
    BY ZenonT(30), <1>1
  <2>2. /\ call'[p][t].meant = {q \in PCBs : Exists(q) /\ pid[q] = call'[p][t].who.target}
        /\ call'[p][t].meant # {} /\ call'[p][t].meant \subseteq call'[p][t].holds
    BY ZenonT(30), <2>1 DEF KnowsChild
  <2>3. call'[p][t].holds \subseteq Referred'
    <3>1. call'[p][t].holds \subseteq PCBs
      BY DEF Calls, Waiting, Vforking, Absent, User
    <3> QED
      BY ZenonT(30), <3>1 DEF Referred, Holds
  <2>4. \A q \in call'[p][t].meant : q \notin G
    BY ZenonT(30), <2>2, <2>3 DEF G
  <2> QED
    BY ZenonT(30), <1>1, <2>2, <2>4
<1> QED
  BY ZenonT(30), <1>5, <1>6, <1>7, <1>8, <1>9, <1>10 DEF IInv

(* A call of a live process ends, and with it the Arcs it held: the vfork  *)
(* loop, an interrupted wait, or a wait that found nothing.                *)
LEMMA CallEnds ==
  ASSUME IInv, NEW p \in PCBs, NEW t \in Tids, state[p] = "live",
         call' = At(call, p, t, User), UNCHANGED <<children, table, signals, leaked, uses>>,
         DropUnreferred
  PROVE  IInv'
<1>1. User \in Calls /\ User.op = "user"
  BY ZenonT(30) DEF Calls, User
<1>2. Types
  BY ZenonT(30) DEF IInv
<1>3. /\ call' \in [PCBs -> [Tids -> Calls]] /\ call'[p][t] = User
      /\ \A q \in PCBs, u \in Tids : q # p \/ u # t => call'[q][u] = call[q][u]
  BY <1>1, <1>2, CallChanges
<1>4. \A q \in PCBs, u \in Tids : Holds(q, u)' \subseteq Holds(q, u)
  BY ZenonT(30), <1>1, <1>3 DEF Holds
<1>5. Referred' \subseteq Existing
  BY ZenonT(30), <1>4 DEF Referred, IInv, Refers
<1>6. \A q \in PCBs, u \in Tids : state[q] # "live" => call'[q][u] = Absent
  BY <1>3 DEF IInv, Refers
<1>7. \A q \in PCBs, u \in Tids : state[q] = "live" => KnowsChild(call'[q][u])
  BY <1>1, <1>3 DEF IInv, Waits, KnowsChild
<1>8. children' \in [PCBs -> Seq(PCBs)] /\ ListsOf(children', table') /\ INITPROC \in table'
  BY ZenonT(30) DEF IInv, Types, Lists, InitLives
<1>9. UNCHANGED <<leaked, uses, killed, tkilled>> /\ \A q \in PCBs : state[q] = "live" => q \in table'
  BY ZenonT(30) DEF signals, IInv, Refers
<1> QED
  BY ZenonT(30), <1>3, <1>5, <1>6, <1>7, <1>8, <1>9, DropKeeps

-----------------------------------------------------------------------------
(* wait4 and waitid keep the invariant of process families.                *)

(* A zombie is reaped by the wait of its parent: one entry of one list and *)
(* one of the table go, those of the zombie, since no other process has    *)
(* its pid.                                                                *)
LEMMA ReapKeeps ==
  ASSUME IInv, NEW p \in PCBs, NEW t \in Tids, state[p] = "live",
         NEW c \in Range(children[p]), state[c] = "zombie",
         children' = [children EXCEPT ![p] = Reaped(p, c)],
         table' = {q \in table : pid[q] # pid[c]},
         call' = At(call, p, t, User), UNCHANGED <<signals, leaked, uses>>, DropUnreferred
  PROVE  IInv'
<1>1. User \in Calls /\ User.op = "user"
  BY ZenonT(30) DEF Calls, User
<1>2. Types /\ children[p] \in Seq(PCBs) /\ Distinct(children[p])
  BY ZenonT(30) DEF IInv, Types, Lists, ListsOf
<1>3. /\ call' \in [PCBs -> [Tids -> Calls]] /\ call'[p][t] = User
      /\ \A q \in PCBs, u \in Tids : q # p \/ u # t => call'[q][u] = call[q][u]
  BY <1>1, <1>2, CallChanges
<1>4. \A q \in PCBs, u \in Tids : Holds(q, u)' \subseteq Holds(q, u)
  BY ZenonT(30), <1>1, <1>3 DEF Holds
<1>5. \A q \in table : q \in PCBs /\ (pid[q] = pid[c] <=> q = c)
  <2>1. table \subseteq Existing /\ c \in table
    BY ZenonT(30) DEF IInv, Refers, Referred, Types, Lists, ListsOf
  <2> QED
    BY ZenonT(30), <2>1 DEF Existing, IInv, Pids, PidsUnique
<1>6. table' = table \ {c}
  BY ZenonT(30), <1>5
<1>7. PICK k \in DOMAIN children[p] : children[p][k] = c /\ children'[p] = Without(children[p], k)
  <2> DEFINE I == {i \in DOMAIN children[p] : pid[children[p][i]] = pid[c]}
  <2>1. DOMAIN children[p] \subseteq Nat
    BY <1>2
  <2>2. I # {}
    BY ZenonT(30) DEF Range
  <2>3. First(I) \in I
    BY ZenonT(30), <2>1, <2>2, FirstIsLeast
  <2>4. children'[p] = Without(children[p], First(I))
    BY ZenonT(30), <1>2 DEF Types, Reaped
  <2>5. children[p][First(I)] \in Range(children[p])
    BY ZenonT(30), <2>3 DEF Range
  <2>6. children[p][First(I)] \in table
    BY <2>5 DEF IInv, Lists, ListsOf
  <2> QED
    BY ZenonT(30), <2>3, <2>4, <2>6, <1>5
<1>8. /\ children'[p] \in Seq(PCBs) /\ Distinct(children'[p])
      /\ Range(children'[p]) = Range(children[p]) \ {c}
  BY ZenonT(30), <1>2, <1>7, ListRemove
<1>9. \A q \in PCBs : q # p => children'[q] = children[q]
  BY ZenonT(30), <1>2 DEF Types
<1>10. children' \in [PCBs -> Seq(PCBs)]
  BY ZenonT(30), <1>2, <1>8, <1>9 DEF Types
<1>11. Referred' \subseteq Existing
  BY ZenonT(30), <1>4, <1>6, <1>8, <1>9 DEF Referred, IInv, Refers
<1>12. \A q \in PCBs, u \in Tids : state[q] # "live" => call'[q][u] = Absent
  BY <1>3 DEF IInv, Refers
<1>13. \A q \in PCBs, u \in Tids : state[q] = "live" => KnowsChild(call'[q][u])
  BY <1>1, <1>3 DEF IInv, Waits, KnowsChild
<1>14. ListsOf(children', table')
  <2>1. \A q \in PCBs : Distinct(children'[q])
    BY ZenonT(30), <1>8, <1>9 DEF IInv, Lists, ListsOf
  <2>2. \A q \in PCBs : \A d \in Range(children'[q]) : d \in table' \ {INITPROC} /\ parent[d] = q
    BY <1>6, <1>8, <1>9 DEF IInv, Lists, ListsOf
  <2>3. \A d \in table' \ {INITPROC} :
          parent[d] \in PCBs /\ state[parent[d]] = "live" /\ d \in Range(children'[parent[d]])
    BY ZenonT(30), <1>6, <1>8, <1>9 DEF IInv, Lists, ListsOf
  <2> QED
    BY ZenonT(30), <2>1, <2>2, <2>3 DEF ListsOf
<1>15. INITPROC \in table' /\ table' \subseteq table
  BY ZenonT(30), <1>6 DEF IInv, InitLives
<1>16. UNCHANGED <<leaked, uses, killed, tkilled>> /\ \A q \in PCBs : state[q] = "live" => q \in table'
  BY ZenonT(30), <1>6 DEF signals, IInv, Refers
<1> QED
  BY ZenonT(30), <1>3, <1>10, <1>11, <1>12, <1>13, <1>14, <1>15, <1>16, DropKeeps

(* A wait suspends, with Arcs of all children and of itself.               *)
LEMMA SuspendKeeps ==
  ASSUME IInv, NEW p \in PCBs, NEW t \in Tids, state[p] = "live",
         NEW c \in Waiting, c.holds = Suspended(p), KnowsChild(c),
         call' = At(call, p, t, c), UNCHANGED <<children, table, signals, leaked, uses>>,
         DropUnreferred
  PROVE  IInv'
<1>1. c \in Calls /\ c.op = "wait"
  BY ZenonT(30) DEF Calls, Waiting
<1>2. Types
  BY ZenonT(30) DEF IInv
<1>3. /\ call' \in [PCBs -> [Tids -> Calls]] /\ call'[p][t] = c
      /\ \A q \in PCBs, u \in Tids : q # p \/ u # t => call'[q][u] = call[q][u]
  BY <1>1, <1>2, CallChanges
<1>4. \A q \in PCBs, u \in Tids : Holds(q, u)' \subseteq Holds(q, u) \cup Range(children[p]) \cup {p}
  BY ZenonT(30), <1>1, <1>3 DEF Holds, Suspended
<1>5. Referred' \subseteq Existing
  <2>1. p \in Existing
    BY ZenonT(30) DEF Existing, Exists
  <2> QED
    BY <1>4, <2>1 DEF Referred, IInv, Refers
<1>6. \A q \in PCBs, u \in Tids : state[q] # "live" => call'[q][u] = Absent
  BY <1>3 DEF IInv, Refers
<1>7. \A q \in PCBs, u \in Tids : state[q] = "live" => KnowsChild(call'[q][u])
  BY ZenonT(30), <1>3 DEF IInv, Waits
<1>8. children' \in [PCBs -> Seq(PCBs)] /\ ListsOf(children', table') /\ INITPROC \in table'
  BY ZenonT(30) DEF IInv, Types, Lists, InitLives
<1>9. UNCHANGED <<leaked, uses, killed, tkilled>> /\ \A q \in PCBs : state[q] = "live" => q \in table'
  BY ZenonT(30) DEF signals, IInv, Refers
<1> QED
  BY ZenonT(30), <1>3, <1>5, <1>6, <1>7, <1>8, <1>9, DropKeeps

(* The children that match a pid are the one process that has it.          *)
LEMMA MatchingPid ==
  ASSUME IInv, NEW p \in PCBs, NEW who \in [target : Int, group : Int], who.target > 0,
         Matching(p, who) # {}
  PROVE  \E d \in Range(children[p]) :
           /\ {q \in PCBs : Exists(q) /\ pid[q] = who.target} = {d}
           /\ Meant(p, who) = {d}
<1>1. \A d : Matches(who, d) <=> who.target = pid[d]
  BY DEF Matches
<1>2. PICK i \in DOMAIN children[p] : pid[children[p][i]] = who.target
  BY ZenonT(30), <1>1 DEF Matching
<1> DEFINE d == children[p][i]
<1>3. Range(children[p]) \subseteq Existing
  BY ZenonT(30) DEF IInv, Refers, Referred, Types, Lists, ListsOf
<1>4. d \in Range(children[p]) /\ d \in PCBs /\ Exists(d)
  BY ZenonT(30), <1>3 DEF Range, Existing
<1>5. {q \in PCBs : Exists(q) /\ pid[q] = who.target} = {d}
  BY <1>2, <1>4 DEF IInv, Pids, PidsUnique
<1>6. ASSUME NEW j \in DOMAIN children[p], pid[children[p][j]] = who.target PROVE children[p][j] = d
  <2>1. children[p][j] \in Existing
    BY ZenonT(30), <1>3 DEF Range
  <2> QED
    BY ZenonT(30), <2>1, <1>6, <1>5 DEF Existing
<1>7. Meant(p, who) = {d}
  BY ZenonT(30), <1>1, <1>2, <1>6 DEF Meant, Matching
<1> QED
  BY ZenonT(30), <1>4, <1>5, <1>7

(* A turn of the loop of wait4 and waitid.                                 *)
LEMMA TurnKeeps ==
  ASSUME IInv, NEW p \in PCBs, NEW t \in Tids, state[p] = "live",
         NEW who \in [target : Int, group : Int], NEW nohang, NEW meant \in SUBSET PCBs,
         who.target > 0 /\ Matching(p, who) # {}
           => meant = {q \in PCBs : Exists(q) /\ pid[q] = who.target},
         WaitTurn(p, t, who, nohang, meant), UNCHANGED <<signals, leaked, uses>>, DropUnreferred
  PROVE  IInv'
<1>1. CASE call' = At(call, p, t, User) /\ UNCHANGED <<children, table>>
  BY ZenonT(30), <1>1, CallEnds
<1>2. CASE /\ Zombies(p, who) # {}
           /\ LET c == children[p][First(Zombies(p, who))]
              IN  /\ children' = [children EXCEPT ![p] = Reaped(p, c)]
                  /\ table' = {q \in table : pid[q] # pid[c]}
           /\ call' = At(call, p, t, User)
  <2> DEFINE k == First(Zombies(p, who))
             c == children[p][k]
  <2>1. Zombies(p, who) \subseteq Nat
    BY DEF IInv, Types, Zombies, Matching
  <2>2. k \in Zombies(p, who)
    BY ZenonT(30), <1>2, <2>1, FirstIsLeast
  <2>3. c \in Range(children[p]) /\ state[c] = "zombie"
    BY ZenonT(30), <2>2 DEF Zombies, Matching, Range
  <2> QED
    BY ZenonT(30), <1>2, <2>3, ReapKeeps
<1>3. CASE /\ Matching(p, who) # {}
           /\ call' = At(call, p, t, [op |-> "wait", who |-> who, meant |-> meant, holds |-> Suspended(p)])
           /\ UNCHANGED <<children, table>>
  <2> DEFINE c == [op |-> "wait", who |-> who, meant |-> meant, holds |-> Suspended(p)]
  <2>1. Suspended(p) \subseteq PCBs
    BY ZenonT(30) DEF Suspended, IInv, Types, Lists, ListsOf
  <2>2. c \in Waiting /\ c.holds = Suspended(p)
    BY ZenonT(30), <2>1 DEF Waiting
  <2>3. KnowsChild(c)
    BY <1>3, MatchingPid DEF KnowsChild, Suspended
  <2> QED
    BY ZenonT(30), <1>3, <2>2, <2>3, SuspendKeeps
<1> QED
  BY ZenonT(30), <1>1, <1>2, <1>3 DEF WaitTurn

(* wait4 and waitid: the first turn.                                       *)
LEMMA WaitKeeps ==
  ASSUME IInv, NEW p \in PCBs, NEW t \in Tids, NEW target \in uses.targets, NEW nohang \in BOOLEAN,
         Wait(p, t, target, nohang)
  PROVE  IInv'
<1> DEFINE who == [target |-> target, group |-> pgid[p]]
<1>1. who \in [target : Int, group : Int] /\ state[p] = "live"
  <2>1. target \in Int
    BY ZenonT(30), ProcessesAssumption DEF IInv, Types
  <2>2. pgid[p] \in Int
    BY DEF IInv, Types
  <2>3. state[p] = "live"
    BY ZenonT(30) DEF Wait, InUser
  <2> QED
    BY ZenonT(30), <2>1, <2>2, <2>3
<1>2. Meant(p, who) \in SUBSET PCBs
  BY DEF Meant, Matching, IInv, Types
<1>3. who.target > 0 /\ Matching(p, who) # {}
        => Meant(p, who) = {q \in PCBs : Exists(q) /\ pid[q] = who.target}
  BY ZenonT(30), <1>1, MatchingPid
<1>4. WaitTurn(p, t, who, nohang, Meant(p, who)) /\ UNCHANGED <<signals, leaked, uses>> /\ DropUnreferred
  BY ZenonT(30) DEF Wait
<1> QED
  BY ZenonT(30), <1>1, <1>2, <1>3, <1>4, TurnKeeps

(* A later turn: the call is still for the child that it was for.          *)
LEMMA WaitAgainKeeps ==
  ASSUME IInv, NEW p \in PCBs, NEW t \in Tids, WaitAgain(p, t)
  PROVE  IInv'
<1> DEFINE c == call[p][t]
<1>1. state[p] = "live" /\ c.op = "wait"
  BY ZenonT(30) DEF WaitAgain, InWait
<1>2. c \in Waiting
  BY <1>1 DEF IInv, Types, Calls, Waiting, Vforking, Absent, User
<1>3. c.who \in [target : Int, group : Int] /\ c.meant \in SUBSET PCBs
  BY ZenonT(30), <1>2 DEF Waiting
<1>4. c.who.target > 0 => c.meant = {q \in PCBs : Exists(q) /\ pid[q] = c.who.target}
  BY ZenonT(30), <1>1 DEF IInv, Waits, KnowsChild
<1>5. WaitTurn(p, t, c.who, FALSE, c.meant) /\ UNCHANGED <<signals, leaked, uses>> /\ DropUnreferred
  BY ZenonT(30) DEF WaitAgain
<1> QED
  BY ZenonT(30), <1>1, <1>3, <1>4, <1>5, TurnKeeps

-----------------------------------------------------------------------------
(* Exits, and the steps that move nobody from one family to another, keep  *)
(* the invariant of process families.                                      *)

(* exit_current_and_run_next, of another process than INITPROC.            *)
LEMMA EndThreadKeeps ==
  ASSUME IInv, NEW p \in PCBs, p # INITPROC, NEW t \in Tids, state[p] = "live",
         NEW lost, lost \subseteq {p}, EndThread(p, t, lost),
         killed' \in [PCBs -> BOOLEAN], killed'[INITPROC] = killed[INITPROC],
         tkilled' \in [PCBs -> SUBSET Tids], tkilled'[INITPROC] = tkilled[INITPROC]
  PROVE  IInv'
<1> DEFINE last == t = 0 \/ Others(p, t) = {}
           dropped == IF last THEN UNION {Holds(p, u) : u \in Tids \ {t}} ELSE {}
<1>1. /\ state' = [state EXCEPT ![p] = IF last THEN "zombie" ELSE @]
      /\ children' = IF last THEN [children EXCEPT ![INITPROC] = Heirs(p), ![p] = <<>>] ELSE children
      /\ parent' = IF last THEN [q \in PCBs |-> NewParent(p, q)] ELSE parent
      /\ call' = IF last THEN [call EXCEPT ![p] = [u \in Tids |-> Absent]] ELSE At(call, p, t, Absent)
      /\ leaked' = leaked \cup lost \cup dropped
      /\ UNCHANGED <<pgid, table, pid, recycled, fresh, uses>>
  BY ZenonT(30) DEF EndThread, alloc
<1>2. dropped \subseteq Existing
  <2>1. \A u \in Tids : Holds(p, u) \subseteq PCBs
    <3> SUFFICES ASSUME NEW u \in Tids PROVE Holds(p, u) \subseteq PCBs
      BY ZenonT(30)
    <3>1. call[p][u] \in Calls
      BY DEF IInv, Types
    <3>2. call[p][u].op \in {"wait", "vfork"} => call[p][u].holds \subseteq PCBs
      BY <3>1 DEF Calls, Waiting, Vforking, Absent, User
    <3> QED
      BY ZenonT(30), <3>2 DEF Holds
  <2>2. \A u \in Tids : Holds(p, u) \subseteq Existing
    BY ZenonT(30), <2>1 DEF IInv, Refers, Referred
  <2> QED
    BY ZenonT(30), <2>2
<1> HIDE DEF last, dropped
<1>3. Types /\ Absent \in Calls /\ Absent.op = "absent"
  BY ZenonT(30) DEF IInv, Calls, Absent
<1>4. /\ call' \in [PCBs -> [Tids -> Calls]]
      /\ \A q \in PCBs, u \in Tids : call'[q][u] \in {call[q][u], Absent}
      /\ \A q \in PCBs, u \in Tids : q # p => call'[q][u] = call[q][u]
      /\ last => \A u \in Tids : call'[p][u] = Absent
  <2>1. CASE last
    BY ZenonT(30), <2>1, <1>1, <1>3 DEF Types
  <2>2. CASE ~last
    <3>1. call' = At(call, p, t, Absent)
      BY ZenonT(30), <2>2, <1>1
    <3>2. /\ call' \in [PCBs -> [Tids -> Calls]] /\ call'[p][t] = Absent
          /\ \A q \in PCBs, u \in Tids : q # p \/ u # t => call'[q][u] = call[q][u]
      BY <3>1, <1>3, CallChanges
    <3> QED
      BY ZenonT(30), <2>2, <3>2
  <2> QED
    BY ZenonT(30), <2>1, <2>2
<1>5. /\ \A q \in PCBs : q # p => state'[q] = state[q]
      /\ state'[p] = IF last THEN "zombie" ELSE "live"
      /\ state' \in [PCBs -> {"none", "live", "zombie"}]
  BY ZenonT(30), <1>1, <1>3 DEF Types
<1>6. Existing' = Existing /\ \A q \in PCBs : Exists(q)' <=> Exists(q)
  BY ZenonT(30), <1>5 DEF Existing, Exists
<1>7. /\ \A q \in PCBs : children'[q] \in Seq(PCBs) /\ Distinct(children'[q])
      /\ ~last => children' = children /\ parent' = parent
      /\ last => /\ Range(children'[INITPROC]) = Range(children[INITPROC]) \cup Range(children[p])
                 /\ Range(children'[p]) = {}
                 /\ \A q \in PCBs \ {p, INITPROC} : children'[q] = children[q]
                 /\ \A q \in PCBs : parent'[q] = IF q \in Range(children[p]) THEN INITPROC ELSE parent[q]
      /\ children' \in [PCBs -> Seq(PCBs)]
  <2>1. \A q \in PCBs : children[q] \in Seq(PCBs) /\ Distinct(children[q])
    BY ZenonT(30), <1>3 DEF IInv, Types, Lists, ListsOf
  <2>2. CASE ~last
    BY ZenonT(30), <2>1, <2>2, <1>1, <1>3 DEF Types
  <2>3. CASE last
    <3>1. Range(children[INITPROC]) \cap Range(children[p]) = {}
      <4> SUFFICES ASSUME NEW c, c \in Range(children[INITPROC]), c \in Range(children[p]) PROVE FALSE
        BY ZenonT(30)
      <4>1. parent[c] = INITPROC /\ parent[c] = p
        BY ZenonT(30), ProcessesAssumption DEF IInv, Lists, ListsOf
      <4> QED
        BY ZenonT(30), <4>1
    <3>2. /\ Heirs(p) \in Seq(PCBs) /\ Distinct(Heirs(p))
          /\ Range(Heirs(p)) = Range(children[INITPROC]) \cup Range(children[p])
      BY ZenonT(30), <2>1, <3>1, ListConcat, ProcessesAssumption DEF Heirs
    <3>3. /\ children'[INITPROC] = Heirs(p) /\ children'[p] = <<>>
          /\ \A q \in PCBs \ {p, INITPROC} : children'[q] = children[q]
      BY ZenonT(30), <2>3, <1>1, <1>3, ProcessesAssumption DEF Types
    <3>4. <<>> \in Seq(PCBs) /\ Distinct(<<>>) /\ Range(<<>>) = {}
      BY DEF Distinct, Range
    <3>5. \A q \in PCBs : children'[q] \in Seq(PCBs) /\ Distinct(children'[q])
      BY ZenonT(30), <2>1, <3>2, <3>3, <3>4
    <3>6. children' \in [PCBs -> Seq(PCBs)]
      BY ZenonT(30), <2>3, <1>1, <1>3, <3>5 DEF Types
    <3>7. \A q \in PCBs : parent'[q] = IF q \in Range(children[p]) THEN INITPROC ELSE parent[q]
      BY ZenonT(30), <2>3, <1>1 DEF NewParent
    <3> QED
      BY ZenonT(30), <2>3, <3>2, <3>3, <3>4, <3>5, <3>6, <3>7
  <2> QED
    BY ZenonT(30), <2>2, <2>3
<1>8. Types'
  <2>1. parent' \in [PCBs -> PCBs \cup {Nobody}]
    BY ZenonT(30), <1>1, <1>3, ProcessesAssumption DEF Types, NewParent
  <2>2. leaked' \subseteq PCBs
    BY ZenonT(30), <1>1, <1>2, <1>3 DEF Types, Existing
  <2> QED
    BY ZenonT(30), <1>1, <1>3, <1>4, <1>5, <1>7, <2>1, <2>2 DEF Types
<1>9. InitLives'
  BY ZenonT(30), <1>1, <1>5, ProcessesAssumption DEF IInv, InitLives
<1>10. Refers'
  <2>1. \A q \in PCBs, u \in Tids : Holds(q, u)' \subseteq Holds(q, u)
    BY ZenonT(30), <1>3, <1>4 DEF Holds
  <2>2. \A q \in PCBs : Range(children'[q]) \subseteq Existing
    <3>1. \A q \in PCBs : Range(children[q]) \subseteq Existing
      BY ZenonT(30) DEF IInv, Refers, Referred, Types, Lists, ListsOf
    <3> QED
      BY ZenonT(30), <3>1, <1>7, ProcessesAssumption
  <2>3. leaked' \subseteq Existing
    <3>1. leaked \cup {p} \subseteq Existing
      BY ZenonT(30) DEF IInv, Types, Refers, Referred, Existing, Exists
    <3> QED
      BY ZenonT(30), <1>1, <1>2, <3>1
  <2>4. Referred' \subseteq Existing
    BY ZenonT(30), <1>1, <2>1, <2>2, <2>3 DEF Referred, IInv, Refers
  <2>5. \A q \in PCBs : state'[q] = "live" => q \in table'
    BY ZenonT(30), <1>1, <1>5 DEF IInv, Refers
  <2>6. \A q \in PCBs, u \in Tids : state'[q] # "live" => call'[q][u] = Absent
    BY <1>4, <1>5 DEF IInv, Refers
  <2> QED
    BY ZenonT(30), <1>6, <2>4, <2>5, <2>6 DEF Refers
<1>11. Pids'
  BY ZenonT(30), <1>1, <1>6 DEF IInv, Pids, PidsUnique
<1>12. Lists'
  <2>1. CASE ~last
    BY ZenonT(30), <2>1, <1>1, <1>5, <1>7 DEF IInv, Lists, ListsOf
  <2>2. CASE last
    <3>1. \A q \in PCBs : \A c \in Range(children'[q]) : c \in table \ {INITPROC} /\ parent'[c] = q
      <4> SUFFICES ASSUME NEW q \in PCBs, NEW c \in Range(children'[q])
                   PROVE  c \in table \ {INITPROC} /\ parent'[c] = q
        BY ZenonT(30)
      <4>1. \A r \in PCBs : \A d \in Range(children[r]) : d \in PCBs /\ d \in table \ {INITPROC} /\ parent[d] = r
        BY ZenonT(30), <1>3 DEF IInv, Types, Lists, ListsOf
      <4>2. CASE q = INITPROC
        BY ZenonT(30), <2>2, <4>1, <4>2, <1>7, ProcessesAssumption
      <4>3. CASE q = p
        BY ZenonT(30), <2>2, <4>3, <1>7
      <4>4. CASE q \notin {p, INITPROC}
        <5>0. children'[q] = children[q]
          BY ZenonT(30), <2>2, <4>4, <1>7
        <5>1. c \in Range(children[q]) /\ c \notin Range(children[p])
          BY <4>1, <4>4, <5>0
        <5> QED
          BY ZenonT(30), <2>2, <4>1, <5>1, <1>7
      <4> QED
        BY ZenonT(30), <4>2, <4>3, <4>4
    <3>2. ASSUME NEW c \in table \ {INITPROC}
          PROVE  parent'[c] \in PCBs /\ state'[parent'[c]] = "live" /\ c \in Range(children'[parent'[c]])
      <4>1. c \in PCBs /\ parent[c] \in PCBs /\ state[parent[c]] = "live" /\ c \in Range(children[parent[c]])
        BY ZenonT(30), <1>3 DEF IInv, Types, Lists, ListsOf
      <4>2. CASE c \in Range(children[p])
        <5>1. parent'[c] = INITPROC
          BY ZenonT(30), <2>2, <4>1, <4>2, <1>7
        <5>2. state'[INITPROC] = "live"
          BY ZenonT(30), <1>5, ProcessesAssumption DEF IInv, InitLives
        <5> QED
          BY ZenonT(30), <2>2, <4>2, <5>1, <5>2, <1>7, ProcessesAssumption
      <4>3. CASE c \notin Range(children[p])
        <5>1. parent'[c] = parent[c] /\ parent[c] # p
          BY ZenonT(30), <2>2, <4>1, <4>3, <1>7
        <5>2. c \in Range(children'[parent[c]])
          BY ZenonT(30), <2>2, <4>1, <5>1, <1>7
        <5> QED
          BY ZenonT(30), <4>1, <5>1, <5>2, <1>5
      <4> QED
        BY ZenonT(30), <4>2, <4>3
    <3> QED
      BY ZenonT(30), <3>1, <3>2, <1>1, <1>7 DEF Lists, ListsOf
  <2> QED
    BY ZenonT(30), <2>1, <2>2
<1>13. Waits'
  <2> SUFFICES ASSUME NEW q \in PCBs, NEW u \in Tids, state'[q] = "live" PROVE KnowsChild(call[q][u])'
    BY ZenonT(30) DEF Waits
  <2>1. state[q] = "live"
    BY ZenonT(30), <1>5
  <2>2. KnowsChild(call[q][u])
    BY ZenonT(30), <2>1 DEF IInv, Waits
  <2>3. call'[q][u] = Absent \/ call'[q][u] = call[q][u]
    BY ZenonT(30), <1>4
  <2> QED
    BY ZenonT(30), <2>2, <2>3, <1>1, <1>3, <1>6 DEF KnowsChild
<1> QED
  BY ZenonT(30), <1>8, <1>9, <1>10, <1>11, <1>12, <1>13 DEF IInv

(* The three ways to exit.                                                 *)
LEMMA ExitsKeep ==
  ASSUME IInv, NEW p \in PCBs, NEW t \in Tids,
         SysExit(p, t) \/ ExitGroup(p, t) \/ FatalSignal(p, t)
  PROVE  IInv'
<1>1. state[p] = "live"
  BY ZenonT(30) DEF SysExit, ExitGroup, FatalSignal, InUser
<1>2. p # INITPROC
  BY ZenonT(30) DEF SysExit, ExitGroup, FatalSignal, Doomed, IInv, InitLives
<1>3. \E lost : lost \subseteq {p} /\ EndThread(p, t, lost)
  <2>1. {} \subseteq {p} /\ FatalLoses(p) \subseteq {p}
    BY ZenonT(30) DEF FatalLoses
  <2> QED
    BY ZenonT(30), <2>1 DEF SysExit, ExitGroup, FatalSignal
<1>4. killed' \in [PCBs -> BOOLEAN] /\ killed'[INITPROC] = killed[INITPROC]
  BY ZenonT(30), <1>2, ProcessesAssumption DEF SysExit, ExitGroup, FatalSignal, signals, IInv, Types
<1>5. tkilled' \in [PCBs -> SUBSET Tids] /\ tkilled'[INITPROC] = tkilled[INITPROC]
  BY <1>2, ProcessesAssumption DEF SysExit, ExitGroup, FatalSignal, signals, Others, IInv, Types
<1> QED
  BY ZenonT(30), <1>1, <1>2, <1>3, <1>4, <1>5, EndThreadKeeps

(* The parts of the invariant that a step which moves nobody keeps.        *)
LEMMA SameFamily ==
  ASSUME IInv, UNCHANGED <<state, parent, children, table, pid, recycled, fresh>>
  PROVE  Pids' /\ Lists' /\ Existing' = Existing
<1>1. Pids'
  BY ZenonT(30) DEF IInv, Pids, PidsUnique, Exists
<1>2. Lists'
  BY ZenonT(30) DEF IInv, Lists, ListsOf
<1>3. Existing' = Existing
  BY ZenonT(30) DEF Existing, Exists
<1> QED
  BY ZenonT(30), <1>1, <1>2, <1>3

(* The same for a step that also leaves the calls alone.                   *)
LEMMA SameCalls ==
  ASSUME IInv, UNCHANGED <<state, parent, children, table, pid, recycled, fresh, call, leaked>>
  PROVE  Pids' /\ Lists' /\ Refers' /\ Waits'
<1>1. Pids' /\ Lists' /\ Existing' = Existing
  BY ZenonT(30), SameFamily
<1>2. Referred' = Referred
  BY ZenonT(30) DEF Referred, Holds
<1>3. Refers'
  BY ZenonT(30), <1>1, <1>2 DEF IInv, Refers
<1>4. Waits'
  <2>1. Waits
    BY ZenonT(30) DEF IInv
  <2> QED
    BY ZenonT(30), <2>1 DEF Waits, KnowsChild, Exists
<1> QED
  BY ZenonT(30), <1>1, <1>3, <1>4

(* clone(CLONE_THREAD), setpgid and kill change no family.                 *)
LEMMA OthersKeep ==
  ASSUME IInv, NEW p \in PCBs, NEW t \in Tids,
         NewThread(p, t) \/ SetPgid(p, t) \/ \E group \in BOOLEAN : Kill(p, t, group)
  PROVE  IInv'
<1>1. CASE NewThread(p, t)
  <2>1. PICK u \in Tids : call' = At(call, p, u, User) /\ tkilled' = [tkilled EXCEPT ![p] = @ \ {u}]
    BY ZenonT(30), <1>1 DEF NewThread
  <2>2. UNCHANGED <<state, parent, children, pgid, table, pid, recycled, fresh, killed, leaked, uses>>
    BY ZenonT(30), <1>1 DEF NewThread, family, alloc
  <2>3. User \in Calls /\ User.op = "user" /\ Types /\ state[p] = "live"
    BY ZenonT(30), <1>1 DEF Calls, User, IInv, NewThread, InUser
  <2>4. /\ call' \in [PCBs -> [Tids -> Calls]] /\ call'[p][u] = User
        /\ \A q \in PCBs, v \in Tids : q # p \/ v # u => call'[q][v] = call[q][v]
    BY <2>1, <2>3, CallChanges
  <2>5. Types'
    BY ZenonT(30), <2>1, <2>2, <2>3, <2>4 DEF Types
  <2>6. InitLives'
    BY ZenonT(30), <2>1, <2>2, <2>3, ProcessesAssumption DEF IInv, InitLives, Types
  <2>7. Pids' /\ Lists' /\ Existing' = Existing
    BY ZenonT(30), <2>2, SameFamily
  <2>8. Refers'
    <3>1. \A q \in PCBs, v \in Tids : Holds(q, v)' \subseteq Holds(q, v)
      BY ZenonT(30), <2>3, <2>4 DEF Holds
    <3>2. Referred' \subseteq Referred
      BY ZenonT(30), <3>1, <2>2 DEF Referred
    <3>3. ASSUME NEW q \in PCBs, NEW v \in Tids, state'[q] # "live" PROVE call'[q][v] = Absent
      BY ZenonT(30), <3>3, <2>2, <2>3, <2>4 DEF IInv, Refers
    <3> QED
      BY ZenonT(30), <3>2, <3>3, <2>2, <2>7 DEF IInv, Refers
  <2>9. Waits'
    <3> SUFFICES ASSUME NEW q \in PCBs, NEW v \in Tids, state'[q] = "live" PROVE KnowsChild(call[q][v])'
      BY ZenonT(30) DEF Waits
    <3>1. CASE q = p /\ v = u
      BY ZenonT(30), <3>1, <2>3, <2>4 DEF KnowsChild
    <3>2. CASE q # p \/ v # u
      <4>1. call'[q][v] = call[q][v] /\ KnowsChild(call[q][v])
        BY ZenonT(30), <3>2, <2>2, <2>4 DEF IInv, Waits
      <4> QED
        BY ZenonT(30), <4>1, <2>2 DEF KnowsChild, Exists
    <3> QED
      BY ZenonT(30), <3>1, <3>2
  <2> QED
    BY ZenonT(30), <2>5, <2>6, <2>7, <2>8, <2>9 DEF IInv
<1>2. CASE SetPgid(p, t)
  <2>1. UNCHANGED <<state, parent, children, table, pid, recycled, fresh, killed, tkilled, call, leaked, uses>>
    BY ZenonT(30), <1>2 DEF SetPgid, signals, alloc
  <2>2. pgid' \in [PCBs -> Nat]
    BY ZenonT(30), <1>2 DEF SetPgid, IInv, Types
  <2>3. Types' /\ InitLives'
    BY ZenonT(30), <2>1, <2>2 DEF IInv, Types, InitLives
  <2>4. Refers' /\ Pids' /\ Lists' /\ Waits'
    BY ZenonT(30), <2>1, SameCalls
  <2> QED
    BY ZenonT(30), <2>3, <2>4 DEF IInv
<1>3. ASSUME NEW group \in BOOLEAN, Kill(p, t, group) PROVE IInv'
  <2>1. UNCHANGED <<state, parent, children, pgid, table, pid, recycled, fresh, tkilled, call, leaked, uses>>
    BY ZenonT(30), <1>3 DEF Kill, family, alloc
  <2>2. PICK V : /\ INITPROC \notin V
                 /\ killed' = [q \in PCBs |-> killed[q] \/ (q \in V /\ state[q] = "live")]
    BY ZenonT(30), <1>3 DEF Kill, Victims, IInv, InitLives
  <2>3. killed' \in [PCBs -> BOOLEAN] /\ ~killed'[INITPROC]
    BY ZenonT(30), <2>2, ProcessesAssumption DEF IInv, Types, InitLives
  <2>4. Types' /\ InitLives'
    BY ZenonT(30), <2>1, <2>3 DEF IInv, Types, InitLives
  <2>5. Refers' /\ Pids' /\ Lists' /\ Waits'
    BY ZenonT(30), <2>1, SameCalls
  <2> QED
    BY ZenonT(30), <2>4, <2>5 DEF IInv
<1> QED
  BY ZenonT(30), <1>1, <1>2, <1>3

-----------------------------------------------------------------------------
(* The other calls, and the theorems.                                      *)

(* A pid below the allocator's next stays below it.                        *)
LEMMA LaterPid ==
  ASSUME NEW a \in Nat, NEW b \in Nat, b >= a, NEW n \in 1 .. a - 1
  PROVE  n \in 1 .. b - 1
  OBVIOUS

(* fork, clone and vfork.                                                  *)
LEMMA CloneKeeps ==
  ASSUME IInv, NEW p \in PCBs, NEW t \in Tids, NEW sibling \in BOOLEAN, NEW vfork \in BOOLEAN,
         Clone(p, t, sibling, vfork)
  PROVE  IInv'
<1>a. PICK c : c = CHOOSE q \in NewPCBs : TRUE
  BY ZenonT(30)
<1>b. PICK up : up = IF sibling THEN parent[p] ELSE p
  BY ZenonT(30)
<1> DEFINE polls == [op |-> "vfork", child |-> c, holds |-> {c, p}]
           x == IF vfork THEN polls ELSE User
<1>1. c \in PCBs /\ state[c] = "none"
  <2>1. c \in NewPCBs
    BY ZenonT(30), <1>a DEF Clone
  <2> QED
    BY ZenonT(30), <2>1, ProcessesAssumption DEF NewPCBs, IInv, Types
<1>2. PICK n \in NextPids : /\ pid' = [pid EXCEPT ![c] = n]
                            /\ recycled' = Recycled(n)
                            /\ fresh' = Current
  BY ZenonT(30), <1>a DEF Clone
<1>3. /\ state' = [state EXCEPT ![c] = "live"]
      /\ parent' = [parent EXCEPT ![c] = up]
      /\ children' = [children EXCEPT ![up] = Append(@, c), ![c] = <<>>]
      /\ pgid' = [pgid EXCEPT ![c] = pgid[p]]
      /\ table' = table \cup {c}
      /\ killed' = [killed EXCEPT ![c] = FALSE]
      /\ tkilled' = [tkilled EXCEPT ![c] = {}]
      /\ call' = At(At(call, c, 0, User), p, t, x)
      /\ UNCHANGED <<leaked, uses>>
  BY ZenonT(30), <1>a, <1>b DEF Clone
<1>4. state[p] = "live" /\ (sibling => p # INITPROC)
  BY ZenonT(30) DEF Clone, InUser
<1>5. up \in PCBs /\ state[up] = "live" /\ up # c
  BY ZenonT(30), <1>1, <1>4, <1>b DEF IInv, Refers, Lists, ListsOf
<1>6. Types /\ p # c /\ c # INITPROC
  BY ZenonT(30), <1>1, <1>4 DEF IInv, InitLives
<1>7. /\ \A q \in PCBs : c \notin Range(children[q])
      /\ c \notin table /\ c \notin leaked
      /\ \A q \in PCBs, u \in Tids : c \notin Holds(q, u) /\ call[c][u] = Absent
  BY ZenonT(30), <1>1 DEF IInv, Refers, Referred, Existing, Exists
<1>8. /\ n \in Nat /\ fresh' \in Nat /\ fresh' >= fresh /\ n \in 1 .. fresh' - 1
      /\ recycled' = recycled \ {n}
      /\ \A q \in PCBs : Exists(q) => pid[q] # n
  <2>1. CASE recycled # {}
    BY <2>1, <1>2, <1>6 DEF NextPids, Current, Recycled, Types, IInv, Pids, PidsUnique
  <2>2. CASE recycled = {}
    <3>1. 1 \in 1 .. fresh - 1
      BY ZenonT(30), ProcessesAssumption DEF IInv, InitLives, Pids, Exists
    <3> QED
      BY <2>2, <3>1, <1>2, <1>6 DEF NextPids, Current, Recycled, Types, IInv, Pids
  <2> QED
    BY ZenonT(30), <2>1, <2>2
<1>9. /\ pid'[c] = n /\ state'[c] = "live" /\ parent'[c] = up
      /\ \A q \in PCBs : q # c => pid'[q] = pid[q] /\ state'[q] = state[q] /\ parent'[q] = parent[q]
  BY ZenonT(30), <1>1, <1>2, <1>3, <1>6 DEF Types
<1>10. \A q \in PCBs : Exists(q)' <=> Exists(q) \/ q = c
  BY ZenonT(30), <1>9 DEF Exists
<1>11. /\ children' \in [PCBs -> Seq(PCBs)]
       /\ \A q \in PCBs : Distinct(children'[q])
       /\ Range(children'[up]) = Range(children[up]) \cup {c} /\ Range(children'[c]) = {}
       /\ \A q \in PCBs : q # up /\ q # c => children'[q] = children[q]
  <2>1. \A q \in PCBs : children[q] \in Seq(PCBs) /\ Distinct(children[q])
    BY ZenonT(30), <1>6 DEF IInv, Types, Lists, ListsOf
  <2>2. /\ children'[up] = Append(children[up], c) /\ children'[c] = <<>>
        /\ \A q \in PCBs : q # up /\ q # c => children'[q] = children[q]
    BY ZenonT(30), <1>1, <1>3, <1>5, <1>6 DEF Types
  <2>3. /\ Append(children[up], c) \in Seq(PCBs) /\ Distinct(Append(children[up], c))
        /\ Range(Append(children[up], c)) = Range(children[up]) \cup {c}
    BY ZenonT(30), <1>1, <1>5, <1>7, <2>1, ListAppend
  <2>4. <<>> \in Seq(PCBs) /\ Distinct(<<>>) /\ Range(<<>>) = {}
    BY DEF Distinct, Range
  <2>5. \A q \in PCBs : children'[q] \in Seq(PCBs) /\ Distinct(children'[q])
    BY ZenonT(30), <2>1, <2>2, <2>3, <2>4
  <2>6. children' \in [PCBs -> Seq(PCBs)]
    BY ZenonT(30), <2>5, <1>3, <1>6 DEF Types
  <2> QED
    BY ZenonT(30), <2>2, <2>3, <2>4, <2>5, <2>6
<1>12. x \in Calls /\ User \in Calls /\ 0 \in Tids
  BY ZenonT(30), <1>1 DEF Calls, Vforking, Tids, User
<1>13. /\ x.op # "wait" /\ User.op # "wait" /\ Absent.op # "wait"
       /\ User.op # "vfork" /\ Absent.op # "vfork"
       /\ x.op = "vfork" => x.holds = {c, p}
  BY ZenonT(30) DEF User, Absent
<1> HIDE DEF x
<1>14. /\ call' \in [PCBs -> [Tids -> Calls]]
       /\ call'[p][t] = x /\ call'[c][0] = User
       /\ \A u \in Tids : u # 0 => call'[c][u] = Absent
       /\ \A q \in PCBs, u \in Tids : (q # p \/ u # t) /\ q # c => call'[q][u] = call[q][u]
  <2> DEFINE f == At(call, c, 0, User)
  <2>1. /\ f \in [PCBs -> [Tids -> Calls]] /\ f[c][0] = User
        /\ \A q \in PCBs, u \in Tids : q # c \/ u # 0 => f[q][u] = call[q][u]
    BY ZenonT(30), <1>1, <1>6, <1>12 DEF At, Types
  <2> HIDE DEF f
  <2>2. /\ At(f, p, t, x) \in [PCBs -> [Tids -> Calls]] /\ At(f, p, t, x)[p][t] = x
        /\ \A q \in PCBs, u \in Tids : q # p \/ u # t => At(f, p, t, x)[q][u] = f[q][u]
    <3>1. f \in [PCBs -> [Tids -> Calls]] /\ x \in Calls
      BY ZenonT(30), <2>1, <1>12
    <3> QED
      BY <3>1, AtChanges
  <2>3. call' = At(f, p, t, x)
    BY ZenonT(30), <1>3 DEF f
  <2> QED
    BY <2>1, <2>2, <2>3, <1>1, <1>6, <1>7, <1>12
<1>15. Types'
  <2>1. pid' \in [PCBs -> Nat] /\ pgid' \in [PCBs -> Nat]
    BY ZenonT(30), <1>2, <1>3, <1>6, <1>8 DEF Types
  <2>2. recycled' \subseteq 1 .. fresh' - 1
    <3> SUFFICES ASSUME NEW m \in recycled PROVE m \in 1 .. fresh' - 1
      BY ZenonT(30), <1>8
    <3>1. m \in 1 .. fresh - 1 /\ fresh \in Nat /\ fresh' \in Nat /\ fresh' >= fresh
      BY ZenonT(30), <1>6, <1>8 DEF Types
    <3> QED
      BY ZenonT(30), <3>1, LaterPid
  <2> QED
    BY ZenonT(30), <1>1, <1>3, <1>5, <1>6, <1>8, <1>11, <1>14, <2>1, <2>2 DEF Types
<1>16. InitLives'
  BY ZenonT(30), <1>3, <1>6, <1>9, ProcessesAssumption DEF IInv, InitLives, Types
<1>17. Refers'
  <2>1. ASSUME NEW q \in PCBs, NEW u \in Tids PROVE Holds(q, u)' \subseteq Holds(q, u) \cup {c, p}
    BY ZenonT(30), <1>13, <1>14 DEF Holds
  <2>2. p \in Existing
    BY ZenonT(30), <1>4 DEF Existing, Exists
  <2>3. Referred' \subseteq Existing \cup {c}
    <3> SUFFICES ASSUME NEW q \in Referred', q # c PROVE q \in Existing
      BY ZenonT(30)
    <3>1. q \in PCBs /\ \/ q \in table \cup leaked \cup {INITPROC}
                        \/ \E s \in PCBs : q \in Range(children'[s])
                        \/ \E s \in PCBs, u \in Tids : q \in Holds(s, u)'
      BY ZenonT(30), <1>3 DEF Referred
    <3>2. \A s \in PCBs : q \in Range(children'[s]) => q \in Range(children[s])
      BY ZenonT(30), <1>11
    <3>3. q \in Referred \/ q = p
      BY <2>1, <3>1, <3>2 DEF Referred
    <3> QED
      BY ZenonT(30), <2>2, <3>3 DEF IInv, Refers
  <2>4. Existing' = Existing \cup {c}
    BY ZenonT(30), <1>1, <1>10 DEF Existing
  <2>5. \A q \in PCBs : state'[q] = "live" => q \in table'
    BY ZenonT(30), <1>3, <1>9 DEF IInv, Refers
  <2>6. \A q \in PCBs, u \in Tids : state'[q] # "live" => call'[q][u] = Absent
    BY <1>4, <1>9, <1>14 DEF IInv, Refers
  <2> QED
    BY ZenonT(30), <2>3, <2>4, <2>5, <2>6 DEF Refers
<1>18. Pids'
  <2>1. \A q \in PCBs : Exists(q)' => pid'[q] \in 1 .. fresh' - 1
    <3> SUFFICES ASSUME NEW q \in PCBs, Exists(q), q # c PROVE pid'[q] \in 1 .. fresh' - 1
      BY ZenonT(30), <1>8, <1>9, <1>10
    <3>1. pid'[q] \in 1 .. fresh - 1 /\ fresh \in Nat /\ fresh' \in Nat /\ fresh' >= fresh
      BY ZenonT(30), <1>6, <1>8, <1>9 DEF IInv, Pids, Types
    <3> QED
      BY ZenonT(30), <3>1, LaterPid
  <2>2. PidsUnique'
    BY <1>8, <1>9, <1>10 DEF IInv, Pids, PidsUnique
  <2> QED
    BY ZenonT(30), <2>1, <2>2 DEF Pids
<1>19. Lists'
  <2>1. \A q \in PCBs : \A d \in Range(children[q]) : d # c /\ d \in PCBs /\ d \in table \ {INITPROC} /\ parent[d] = q
    BY <1>6, <1>7 DEF IInv, Types, Lists, ListsOf
  <2>2. \A q \in PCBs : \A d \in Range(children'[q]) : d \in table' \ {INITPROC} /\ parent'[d] = q
    <3> SUFFICES ASSUME NEW q \in PCBs, NEW d \in Range(children'[q])
                 PROVE  d \in table' \ {INITPROC} /\ parent'[d] = q
      BY ZenonT(30)
    <3>1. CASE d = c
      <4>1. q = up
        BY ZenonT(30), <3>1, <1>5, <1>7, <1>11
      <4> QED
        BY ZenonT(30), <3>1, <4>1, <1>3, <1>6, <1>9
    <3>2. CASE d # c
      <4>1. d \in Range(children[q])
        BY ZenonT(30), <3>2, <1>11
      <4> QED
        BY ZenonT(30), <4>1, <2>1, <1>3, <1>9
    <3> QED
      BY ZenonT(30), <3>1, <3>2
  <2>3. ASSUME NEW d \in table' \ {INITPROC}
        PROVE  parent'[d] \in PCBs /\ state'[parent'[d]] = "live" /\ d \in Range(children'[parent'[d]])
    <3>1. CASE d = c
      BY ZenonT(30), <3>1, <1>5, <1>9, <1>11
    <3>2. CASE d # c
      <4>1. /\ d \in PCBs /\ d \in table /\ parent[d] \in PCBs
            /\ state[parent[d]] = "live" /\ d \in Range(children[parent[d]])
        BY ZenonT(30), <3>2, <1>3, <1>6 DEF IInv, Types, Lists, ListsOf
      <4>2. parent'[d] = parent[d] /\ parent[d] # c
        BY ZenonT(30), <3>2, <4>1, <1>1, <1>9
      <4> QED
        BY ZenonT(30), <4>1, <4>2, <1>9, <1>11
    <3> QED
      BY ZenonT(30), <3>1, <3>2
  <2> QED
    BY ZenonT(30), <2>2, <2>3, <1>11 DEF Lists, ListsOf
<1>20. Waits'
  <2> SUFFICES ASSUME NEW q \in PCBs, NEW u \in Tids, state'[q] = "live" PROVE KnowsChild(call[q][u])'
    BY ZenonT(30) DEF Waits
  <2>1. CASE q = c \/ (q = p /\ u = t)
    <3>1. call'[q][u].op # "wait"
      BY ZenonT(30), <2>1, <1>12, <1>13, <1>14
    <3> QED
      BY ZenonT(30), <3>1 DEF KnowsChild
  <2>2. CASE q # c /\ (q # p \/ u # t)
    <3>1. call'[q][u] = call[q][u] /\ KnowsChild(call[q][u])
      BY ZenonT(30), <2>2, <1>9, <1>14 DEF IInv, Waits
    <3> SUFFICES ASSUME call[q][u].op = "wait", call[q][u].who.target > 0
                 PROVE  /\ call[q][u].meant = {d \in PCBs : Exists(d)' /\ pid'[d] = call[q][u].who.target}
                        /\ call[q][u].meant # {} /\ call[q][u].meant \subseteq call[q][u].holds
      BY ZenonT(30), <3>1 DEF KnowsChild
    <3>2. /\ call[q][u].meant = {d \in PCBs : Exists(d) /\ pid[d] = call[q][u].who.target}
          /\ call[q][u].meant # {} /\ call[q][u].meant \subseteq call[q][u].holds
      BY ZenonT(30), <3>1 DEF KnowsChild
    <3>3. n # call[q][u].who.target
      BY ZenonT(30), <3>2, <1>8
    <3>4. \A d \in PCBs : (Exists(d)' /\ pid'[d] = call[q][u].who.target)
                           <=> (Exists(d) /\ pid[d] = call[q][u].who.target)
      BY ZenonT(30), <3>3, <1>1, <1>9, <1>10 DEF Exists
    <3> QED
      BY ZenonT(30), <3>2, <3>4
  <2> QED
    BY ZenonT(30), <2>1, <2>2
<1> QED
  BY ZenonT(30), <1>15, <1>16, <1>17, <1>18, <1>19, <1>20 DEF IInv

-----------------------------------------------------------------------------
(* When INITPROC starts.                                                   *)
LEMMA InitKeeps == Init => IInv
<1> SUFFICES ASSUME Init PROVE IInv
  BY ZenonT(30)
<1>1. <<>> \in Seq(PCBs) /\ Distinct(<<>>) /\ Range(<<>>) = {}
  BY DEF Distinct, Range
<1>2. User \in Calls /\ Absent \in Calls /\ User.op = "user" /\ Absent.op = "absent"
  BY ZenonT(30) DEF Calls, User, Absent
<1>3. Types
  BY ZenonT(30), <1>1, <1>2, ProcessesAssumption DEF Init, Types
<1>4. InitLives
  BY ZenonT(30), ProcessesAssumption DEF Init, InitLives
<1>5. Refers
  <2>1. \A p \in PCBs, t \in Tids : Holds(p, t) = {}
    BY ZenonT(30), <1>2 DEF Init, Holds
  <2> QED
    BY ZenonT(30), <1>1, <2>1, ProcessesAssumption DEF Init, Refers, Referred, Existing, Exists
<1>6. Pids
  BY DEF Init, Pids, PidsUnique, Exists
<1>7. Lists
  BY ZenonT(30), <1>1 DEF Init, Lists, ListsOf
<1>8. Waits
  BY ZenonT(30), <1>2 DEF Init, Waits, KnowsChild
<1> QED
  BY ZenonT(30), <1>3, <1>4, <1>5, <1>6, <1>7, <1>8 DEF IInv

(* Every step: one of the lemmas above.                                    *)
LEMMA NextKeeps == IInv /\ [Next]_vars => IInv'
<1> SUFFICES ASSUME IInv, [Next]_vars PROVE IInv'
  BY ZenonT(30)
<1>1. CASE UNCHANGED vars
  <2>1. UNCHANGED <<state, parent, children, pgid, table, killed, tkilled, pid, recycled, fresh, call, leaked, uses>>
    BY ZenonT(30), <1>1 DEF vars, family, signals, alloc
  <2>2. Refers' /\ Pids' /\ Lists' /\ Waits'
    BY ZenonT(30), <2>1, SameCalls
  <2>3. Types' /\ InitLives'
    BY ZenonT(30), <2>1 DEF IInv, Types, InitLives
  <2> QED
    BY ZenonT(30), <2>2, <2>3 DEF IInv
<1>2. ASSUME NEW p \in PCBs, NEW t \in Tids, ProgramStep(p, t) \/ KernelStep(p, t) PROVE IInv'
  <2>1. CASE VforkReturn(p, t) \/ WaitInterrupted(p, t)
    BY ZenonT(30), <2>1, CallEnds DEF VforkReturn, WaitInterrupted, InWait
  <2> QED
    BY ZenonT(30), <1>2, <2>1, CloneKeeps, OthersKeep, ExitsKeep, WaitKeeps, WaitAgainKeeps DEF ProgramStep, KernelStep
<1> QED
  BY ZenonT(30), <1>1, <1>2 DEF Next

(* So the invariant holds throughout.                                      *)
LEMMA Inductive == Spec => []IInv
  BY InitKeeps, NextKeeps, PTL DEF Spec

(* FamilyTree: whatever processes fork, exit, wait and are killed, each    *)
(* one that can be waited for is once in the children of one live parent.  *)
THEOREM EveryoneHasOneParent == Spec => []FamilyTree
<1>1. IInv => FamilyTree
  <2> SUFFICES ASSUME IInv PROVE FamilyTree
    BY ZenonT(30)
  <2>1. TypeOK
    BY ZenonT(30) DEF IInv, Types, Refers, Referred, Existing, Pids, TypeOK
  <2>2. ASSUME NEW c \in table \ {INITPROC}, NEW p \in PCBs
        PROVE  /\ state[parent[c]] = "live"
               /\ IF p = parent[c] THEN ListedOnce(p, c) ELSE c \notin Range(children[p])
    <3>1. parent[c] \in PCBs /\ state[parent[c]] = "live" /\ c \in Range(children[parent[c]])
      BY ZenonT(30) DEF IInv, Lists, ListsOf
    <3>2. p # parent[c] => c \notin Range(children[p])
      BY ZenonT(30) DEF IInv, Lists, ListsOf
    <3>3. Distinct(children[parent[c]])
      BY ZenonT(30), <3>1 DEF IInv, Lists, ListsOf
    <3>4. ListedOnce(parent[c], c)
      BY <3>1, <3>3 DEF ListedOnce, Range, Distinct
    <3> QED
      BY ZenonT(30), <3>1, <3>2, <3>4
  <2> QED
    BY ZenonT(30), <2>1, <2>2, ProcessesAssumption DEF FamilyTree
<1> QED
  BY <1>1, Inductive, PTL

(* PidsUnique: no two processes have one pid, and no free pid is in use.   *)
THEOREM PidsStayUnique == Spec => []PidsUnique
<1>1. IInv => PidsUnique
  BY ZenonT(30) DEF IInv, Pids
<1> QED
  BY <1>1, Inductive, PTL

(* WaitedChild: while a wait for a pid is suspended, the process that has  *)
(* this pid is the child it had when the call began.                       *)
THEOREM WaitKnowsItsChild == Spec => []WaitedChild
<1>1. IInv => WaitedChild
  BY ZenonT(30) DEF IInv, Waits, KnowsChild, WaitedChild, InWait
<1> QED
  BY <1>1, Inductive, PTL

-----------------------------------------------------------------------------
(* What exits and waits give back.                                         *)

(* The programs that ExitsGiveBack is about: one thread, no SIGKILL.       *)
Plain == "kill" \notin uses.calls /\ ~uses.threads

(* What makes a pid come back.  A PCB without an Arc has been dropped, and *)
(* plain programs leave no Arc behind: nobody is killed, and there is no   *)
(* second thread to be dropped where it stands.                            *)
PlainLeavesNothing ==
  /\ leaked = {}
  /\ \A p \in PCBs : ~killed[p] /\ tkilled[p] = {} /\ call[p][1] = Absent
Returns == Existing \subseteq Referred /\ (Plain => PlainLeavesNothing)

(* The drops at the end of a step leave no PCB without an Arc.             *)
LEMMA DropReturns ==
  ASSUME IInv, DropUnreferred
  PROVE  (Existing \subseteq Referred)'
<1> DEFINE G == Existing \ Referred'
<1>1. state' = [p \in PCBs |-> IF p \in G THEN "none" ELSE state[p]]
  BY ZenonT(30) DEF DropUnreferred, Existing, Exists
<1> HIDE DEF G
<1>2. Existing' \subseteq Existing \ G
  BY ZenonT(30), <1>1 DEF Existing, Exists
<1> QED
  BY ZenonT(30), <1>2 DEF G

(* A step of thread 0 after which the process has an Absent second thread. *)
LEMMA CallEndsReturns ==
  ASSUME IInv, Returns, NEW p \in PCBs, NEW t \in Tids, NEW place \in Calls, call[p][t] # Absent,
         call' = At(call, p, t, place), UNCHANGED <<signals, leaked, uses>>, DropUnreferred
  PROVE  Returns'
<1>1. (Existing \subseteq Referred)'
  BY ZenonT(30), DropReturns
<1>2. \A q \in PCBs, u \in Tids : q # p \/ u # t => call'[q][u] = call[q][u]
  <2>1. call \in [PCBs -> [Tids -> Calls]]
    BY ZenonT(30) DEF IInv, Types
  <2> QED
    BY ZenonT(30), <2>1 DEF At
<1>3. ASSUME Plain PROVE PlainLeavesNothing'
  <2>1. t # 1
    BY ZenonT(30), <1>3 DEF Returns, PlainLeavesNothing
  <2> QED
    BY ZenonT(30), <1>2, <1>3, <2>1 DEF Returns, PlainLeavesNothing, signals, Tids
<1> QED
  BY ZenonT(30), <1>1, <1>3 DEF Returns, Plain

(* The turns of vfork and of waits.                                        *)
LEMMA TurnReturns ==
  ASSUME IInv, Returns, NEW p \in PCBs, NEW t \in Tids,
         \/ VforkReturn(p, t) \/ WaitInterrupted(p, t) \/ WaitAgain(p, t)
         \/ \E target \in uses.targets, nohang \in BOOLEAN : Wait(p, t, target, nohang)
  PROVE  Returns'
<1>1. Types' /\ Types
  BY ZenonT(30), NextKeeps DEF IInv, Next, ProgramStep, KernelStep
<1>2. call[p][t] # Absent
  <2>1. call[p][t] = User \/ call[p][t].op \in {"wait", "vfork"}
    BY ZenonT(30) DEF VforkReturn, WaitInterrupted, WaitAgain, InWait, Wait, InUser
  <2>2. Absent.op = "absent" /\ User.op = "user"
    BY ZenonT(30) DEF Absent, User
  <2> QED
    BY ZenonT(30), <2>1, <2>2
<1>3. UNCHANGED <<signals, leaked, uses>> /\ DropUnreferred
  BY ZenonT(30) DEF VforkReturn, WaitInterrupted, WaitAgain, Wait
<1>4. PICK place : call' = At(call, p, t, place)
  BY ZenonT(30) DEF VforkReturn, WaitInterrupted, WaitAgain, Wait, WaitTurn
<1>5. place \in Calls
  <2>1. call'[p][t] = place
    BY <1>1, <1>4 DEF At, Types
  <2> QED
    BY <1>1, <2>1 DEF Types
<1> QED
  BY ZenonT(30), <1>2, <1>3, <1>4, <1>5, CallEndsReturns

(* fork, clone and vfork: the child is in the table.                       *)
LEMMA CloneReturns ==
  ASSUME IInv, Returns, NEW p \in PCBs, NEW t \in Tids, NEW sibling \in BOOLEAN, NEW vfork \in BOOLEAN,
         Clone(p, t, sibling, vfork)
  PROVE  Returns'
<1>a. PICK c : c = CHOOSE q \in NewPCBs : TRUE
  BY ZenonT(30)
<1>b. PICK up : up = IF sibling THEN parent[p] ELSE p
  BY ZenonT(30)
<1>c. PICK x : x = IF vfork THEN [op |-> "vfork", child |-> c, holds |-> {c, p}] ELSE User
  BY ZenonT(30)
<1>1. c \in PCBs /\ state[c] = "none"
  <2>1. c \in NewPCBs
    BY ZenonT(30), <1>a DEF Clone
  <2> QED
    BY ZenonT(30), <2>1, ProcessesAssumption DEF NewPCBs, IInv, Types
<1>2. /\ state' = [state EXCEPT ![c] = "live"]
      /\ children' = [children EXCEPT ![up] = Append(@, c), ![c] = <<>>]
      /\ table' = table \cup {c}
      /\ killed' = [killed EXCEPT ![c] = FALSE]
      /\ tkilled' = [tkilled EXCEPT ![c] = {}]
      /\ call' = At(At(call, c, 0, User), p, t, x)
      /\ UNCHANGED <<leaked, uses>>
  BY ZenonT(30), <1>a, <1>b, <1>c DEF Clone
<1>3. state[p] = "live" /\ call[p][t] = User /\ p # c /\ Types
  BY ZenonT(30), <1>1 DEF Clone, InUser, IInv
<1>4. up \in PCBs /\ up # c
  BY ZenonT(30), <1>1, <1>3, <1>b DEF IInv, Refers, Lists, ListsOf, Clone
<1>5. /\ \A u \in Tids : u # 0 => call'[c][u] = call[c][u]
      /\ \A q \in PCBs, u \in Tids : (q # p \/ u # t) /\ q # c => call'[q][u] = call[q][u]
      /\ \A u \in Tids : call[c][u] = Absent
  BY ZenonT(30), <1>1, <1>2, <1>3 DEF At, Types, IInv, Refers
<1>6. (Existing \subseteq Referred)'
  <2>1. \A q \in PCBs : Range(children[q]) \subseteq Range(children'[q])
    <3>1. Range(children[c]) = {}
      BY ZenonT(30), <1>1 DEF IInv, Lists, ListsOf
    <3>2. Range(children[up]) \subseteq Range(Append(children[up], c))
      <4>1. children[up] \in Seq(PCBs)
        BY ZenonT(30), <1>3, <1>4 DEF Types
      <4> QED
        BY <4>1 DEF Range
    <3>3. /\ children'[up] = Append(children[up], c)
          /\ \A q \in PCBs : q # up /\ q # c => children'[q] = children[q]
      BY ZenonT(30), <1>1, <1>2, <1>3, <1>4 DEF Types
    <3> QED
      BY ZenonT(30), <3>1, <3>2, <3>3
  <2>2. \A q \in PCBs, u \in Tids : Holds(q, u) \subseteq Holds(q, u)'
    BY <1>3, <1>5 DEF Holds, User, Absent
  <2>3. Referred \cup {c} \subseteq Referred'
    BY ZenonT(30), <2>1, <2>2, <1>1, <1>2 DEF Referred
  <2>4. Existing' \subseteq Existing \cup {c}
    BY ZenonT(30), <1>1, <1>2, <1>3 DEF Existing, Exists, Types
  <2> QED
    BY ZenonT(30), <2>3, <2>4 DEF Returns
<1>7. ASSUME Plain PROVE PlainLeavesNothing'
  <2>1. t = 0
    BY <1>3, <1>7 DEF Returns, PlainLeavesNothing, User, Absent, Tids
  <2>2. \A q \in PCBs : call'[q][1] = Absent
    BY <2>1, <1>5, <1>7 DEF Returns, PlainLeavesNothing, Tids
  <2>3. \A q \in PCBs : ~killed'[q] /\ tkilled'[q] = {}
    BY ZenonT(30), <1>2, <1>3, <1>7 DEF Returns, PlainLeavesNothing, Types
  <2> QED
    BY ZenonT(30), <2>2, <2>3, <1>2, <1>7 DEF Returns, PlainLeavesNothing
<1> QED
  BY ZenonT(30), <1>2, <1>6, <1>7 DEF Returns, Plain

(* An exit: what its other threads held is leaked, not lost.               *)
LEMMA ExitReturns ==
  ASSUME IInv, Returns, NEW p \in PCBs, NEW t \in Tids,
         SysExit(p, t) \/ ExitGroup(p, t) \/ FatalSignal(p, t)
  PROVE  Returns'
<1> DEFINE last == t = 0 \/ Others(p, t) = {}
           dropped == IF last THEN UNION {Holds(p, u) : u \in Tids \ {t}} ELSE {}
<1>1. call[p][t] = User /\ state[p] = "live" /\ Types
  BY ZenonT(30) DEF SysExit, ExitGroup, FatalSignal, InUser, IInv
<1>2. p # INITPROC
  BY ZenonT(30) DEF SysExit, ExitGroup, FatalSignal, Doomed, IInv, InitLives
<1>3. PICK lost : /\ EndThread(p, t, lost)
                  /\ lost = {} \/ FatalSignal(p, t)
  BY ZenonT(30) DEF SysExit, ExitGroup, FatalSignal
<1>4. /\ state' = [state EXCEPT ![p] = IF last THEN "zombie" ELSE @]
      /\ children' = IF last THEN [children EXCEPT ![INITPROC] = Heirs(p), ![p] = <<>>] ELSE children
      /\ call' = IF last THEN [call EXCEPT ![p] = [u \in Tids |-> Absent]] ELSE At(call, p, t, Absent)
      /\ leaked' = leaked \cup lost \cup dropped
      /\ table' = table /\ uses' = uses
  BY ZenonT(30), <1>3 DEF EndThread
<1> HIDE DEF last
<1>5. /\ \A q \in PCBs, u \in Tids : q # p => call'[q][u] = call[q][u]
      /\ ~last => \A u \in Tids : u # t => call'[p][u] = call[p][u]
      /\ \A u \in Tids : call'[p][u] = call[p][u] \/ call'[p][u] = Absent
  BY ZenonT(30), <1>1, <1>4 DEF At, Types
<1>6. (Existing \subseteq Referred)'
  <2>1. Existing' \subseteq Existing
    BY ZenonT(30), <1>1, <1>4 DEF Existing, Exists, Types
  <2>2. \A q \in PCBs, u \in Tids : Holds(q, u) \subseteq Holds(q, u)' \cup leaked'
    <3> SUFFICES ASSUME NEW q \in PCBs, NEW u \in Tids PROVE Holds(q, u) \subseteq Holds(q, u)' \cup leaked'
      BY ZenonT(30)
    <3>1. CASE q # p \/ (~last /\ u # t)
      BY ZenonT(30), <3>1, <1>5 DEF Holds
    <3>2. CASE q = p /\ u = t
      BY <3>2, <1>1 DEF Holds, User
    <3>3. CASE q = p /\ last /\ u # t
      BY ZenonT(30), <3>3, <1>4
    <3> QED
      BY ZenonT(30), <3>1, <3>2, <3>3
  <2>3. ASSUME NEW q \in PCBs, NEW d \in Range(children[q])
        PROVE  \E r \in PCBs : d \in Range(children'[r])
    <3>1. CASE ~last
      BY ZenonT(30), <3>1, <1>4
    <3>2. CASE last
      <4>1. children[INITPROC] \in Seq(PCBs) /\ children[p] \in Seq(PCBs)
        BY ZenonT(30), <1>1, ProcessesAssumption DEF Types
      <4>2. Range(Heirs(p)) = Range(children[INITPROC]) \cup Range(children[p])
        <5>1. Distinct(children[INITPROC]) /\ Distinct(children[p])
          BY ZenonT(30), ProcessesAssumption DEF IInv, Lists, ListsOf
        <5>2. Range(children[INITPROC]) \cap Range(children[p]) = {}
          <6> SUFFICES ASSUME NEW e, e \in Range(children[INITPROC]), e \in Range(children[p]) PROVE FALSE
            BY ZenonT(30)
          <6>1. parent[e] = INITPROC /\ parent[e] = p
            BY ZenonT(30), ProcessesAssumption DEF IInv, Lists, ListsOf
          <6> QED
            BY ZenonT(30), <6>1, <1>2
        <5> QED
          BY ZenonT(30), <4>1, <5>1, <5>2, ListConcat DEF Heirs
      <4>3. /\ children'[INITPROC] = Heirs(p)
            /\ \A r \in PCBs \ {p, INITPROC} : children'[r] = children[r]
        BY ZenonT(30), <3>2, <1>1, <1>2, <1>4, ProcessesAssumption DEF Types
      <4> QED
        BY ZenonT(30), <4>2, <4>3, ProcessesAssumption
    <3> QED
      BY ZenonT(30), <3>1, <3>2
  <2>4. leaked \subseteq leaked' /\ table' = table
    BY ZenonT(30), <1>4
  <2>5. Referred \subseteq Referred'
    BY ZenonT(30), <2>2, <2>3, <2>4 DEF Referred
  <2> QED
    BY ZenonT(30), <2>1, <2>5 DEF Returns
<1>7. ASSUME Plain PROVE PlainLeavesNothing'
  <2>1. t = 0 /\ call[p][1] = Absent /\ Tids \ {t} = {1}
    BY <1>1, <1>7 DEF Returns, PlainLeavesNothing, User, Absent, Tids
  <2>2. ~FatalSignal(p, t) /\ ~ExitGroup(p, t)
    BY ZenonT(30), <1>7 DEF Returns, PlainLeavesNothing, FatalSignal, ExitGroup, Doomed, Plain
  <2>3. dropped = {}
    BY <2>1 DEF Holds, Absent
  <2>4. UNCHANGED <<killed, tkilled>>
    BY ZenonT(30), <2>2 DEF SysExit, signals
  <2>5. \A q \in PCBs : call'[q][1] = Absent
    BY <2>1, <1>5, <1>7 DEF Returns, PlainLeavesNothing, Tids
  <2> HIDE DEF dropped
  <2> QED
    BY ZenonT(30), <2>2, <2>3, <2>4, <2>5, <1>3, <1>4, <1>7 DEF Returns, PlainLeavesNothing
<1> QED
  BY ZenonT(30), <1>4, <1>6, <1>7 DEF Returns, Plain

(* clone(CLONE_THREAD), setpgid and kill drop nothing.                     *)
LEMMA OthersReturn ==
  ASSUME IInv, Returns, NEW p \in PCBs, NEW t \in Tids,
         NewThread(p, t) \/ SetPgid(p, t) \/ \E group \in BOOLEAN : Kill(p, t, group)
  PROVE  Returns'
<1>1. UNCHANGED <<state, children, table, leaked, uses>>
  BY ZenonT(30) DEF NewThread, SetPgid, Kill, family
<1>2. (Existing \subseteq Referred)'
  <2>1. Existing' = Existing
    BY ZenonT(30), <1>1 DEF Existing, Exists
  <2>2. \A q \in PCBs, u \in Tids : Holds(q, u) \subseteq Holds(q, u)'
    <3>1. CASE UNCHANGED call
      BY ZenonT(30), <3>1 DEF Holds
    <3>2. CASE NewThread(p, t)
      <4>1. PICK v \in Tids : call[p][v] = Absent /\ call' = At(call, p, v, User)
        BY ZenonT(30), <3>2 DEF NewThread
      <4>2. \A q \in PCBs, u \in Tids : q # p \/ u # v => call'[q][u] = call[q][u]
        BY ZenonT(30), <4>1 DEF At, IInv, Types
      <4> QED
        BY <4>1, <4>2 DEF Holds, Absent
    <3> QED
      BY ZenonT(30), <3>1, <3>2 DEF SetPgid, Kill
  <2>3. Referred \subseteq Referred'
    BY ZenonT(30), <2>2, <1>1 DEF Referred
  <2> QED
    BY ZenonT(30), <2>1, <2>3 DEF Returns
<1>3. ASSUME Plain PROVE PlainLeavesNothing'
  <2>1. UNCHANGED <<killed, tkilled, call>>
    BY ZenonT(30), <1>3 DEF Plain, NewThread, SetPgid, Kill, signals
  <2> QED
    BY ZenonT(30), <2>1, <1>1, <1>3 DEF Returns, PlainLeavesNothing
<1> QED
  BY ZenonT(30), <1>1, <1>2, <1>3 DEF Returns, Plain

(* ExitsGiveBack: a pid comes back with the reaping of its process, for    *)
(* programs with one thread that do not kill, and is never shared.         *)
THEOREM ReapingGivesPidsBack == Spec => []ExitsGiveBack
<1>1. Init => Returns
  <2> SUFFICES ASSUME Init PROVE Returns
    OBVIOUS
  <2>1. Existing \subseteq Referred
    BY ZenonT(30) DEF Init, Existing, Exists, Referred
  <2> QED
    BY <2>1 DEF Init, Returns, PlainLeavesNothing, Tids
<1>2. IInv /\ Returns /\ [Next]_vars => Returns'
  <2> SUFFICES ASSUME IInv, Returns, [Next]_vars PROVE Returns'
    BY ZenonT(30)
  <2>1. CASE UNCHANGED vars
    <3>1. UNCHANGED <<state, children, table, killed, tkilled, call, leaked, uses>>
      BY ZenonT(30), <2>1 DEF vars, family, signals
    <3>2. Existing' = Existing /\ Referred' = Referred
      BY ZenonT(30), <3>1 DEF Existing, Exists, Referred, Holds
    <3> QED
      BY ZenonT(30), <3>1, <3>2 DEF Returns, Plain, PlainLeavesNothing
  <2>2. ASSUME NEW p \in PCBs, NEW t \in Tids, ProgramStep(p, t) \/ KernelStep(p, t) PROVE Returns'
    BY ZenonT(30), <2>2, CloneReturns, OthersReturn, ExitReturns, TurnReturns DEF ProgramStep, KernelStep
  <2> QED
    BY ZenonT(30), <2>1, <2>2 DEF Next
<1>3. IInv /\ Returns => ExitsGiveBack
  <2> SUFFICES ASSUME IInv, Returns PROVE ExitsGiveBack
    BY ZenonT(30)
  <2>1. \A p \in PCBs : Range(children[p]) \subseteq table
    BY ZenonT(30) DEF IInv, Lists, ListsOf
  <2>2. INITPROC \in table
    BY ZenonT(30) DEF IInv, InitLives
  <2>3. ASSUME Plain PROVE PidsReturned
    BY ZenonT(30), <2>1, <2>2, <2>3 DEF Returns, PlainLeavesNothing, PidsReturned, Existing, Referred, Held
  <2> QED
    BY ZenonT(30), <2>3 DEF IInv, Pids, ExitsGiveBack, Plain
<1> QED
  BY <1>1, <1>2, <1>3, Inductive, PTL DEF Spec
=============================================================================
