------------------------ MODULE LoadBalancing_proofs ------------------------
(***************************************************************************)
(* What LoadBalancing guarantees for every number of configurations and of *)
(* callers: a fetch that nobody disturbs walks through the list.           *)
(***************************************************************************)
EXTENDS LoadBalancing, SequenceTheorems, TLAPS

(***************************************************************************)
(* Consecutive indices designate different configurations                  *)
(***************************************************************************)

LEMMA Division ==
  ASSUME NEW a \in Nat
  PROVE  /\ a % N \in 0..(N - 1) /\ a \div N \in Nat
         /\ a = N * (a \div N) + (a % N)
BY LoadBalancingAssumption

LEMMA AtLeastOne ==
  ASSUME NEW d \in Int, d >= 1
  PROVE  N * d \in Int /\ N * d >= N
BY LoadBalancingAssumption

\* A quotient and a remainder are the only ones.
LEMMA Remainder ==
  ASSUME NEW a \in Nat, NEW x \in Nat, NEW r \in 0..(N - 1), a = N * x + r
  PROVE  a % N = r
<1>1. /\ a % N \in 0..(N - 1) /\ a \div N \in Nat /\ N \in Nat
      /\ a = N * (a \div N) + (a % N)
  BY Division, LoadBalancingAssumption
<1> DEFINE y == a \div N
           s == a % N
<1>2. y \in Nat /\ s \in 0..(N - 1) /\ a = N * y + s
  BY <1>1
<1> HIDE DEF y, s
<1>3. N * (x - y) = N * x - N * y /\ N * (y - x) = N * y - N * x
  BY <1>1, <1>2
<1>4. ~(x - y >= 1)
  <2> SUFFICES ASSUME x - y >= 1 PROVE FALSE
    OBVIOUS
  <2>1. N * (x - y) >= N
    BY <1>2, AtLeastOne
  <2> QED
    BY <1>1, <1>2, <1>3, <2>1
<1>5. ~(y - x >= 1)
  <2> SUFFICES ASSUME y - x >= 1 PROVE FALSE
    OBVIOUS
  <2>1. N * (y - x) >= N
    BY <1>2, AtLeastOne
  <2> QED
    BY <1>1, <1>2, <1>3, <2>1
<1>6. x = y
  BY <1>2, <1>4, <1>5
<1>7. s = r
  BY <1>1, <1>2, <1>6
<1> QED
  BY <1>7 DEF s

\* The index, brought back into the list, is the remainder.
LEMMA PickIsRemainder ==
  ASSUME NEW i \in Nat \ {0}
  PROVE  Pick(i) = (i - 1) % N
<1> N \in Nat \ {0}
  BY LoadBalancingAssumption
<1>1. CASE i <= N
  <2>1. Pick(i) = i - 1 /\ i - 1 \in 0..(N - 1)
    BY <1>1 DEF Pick
  <2>2. i - 1 = N * 0 + (i - 1)
    OBVIOUS
  <2> QED
    BY <2>1, <2>2, Remainder
<1>2. CASE i > N
  <2> DEFINE x == i \div N
             r == i % N
  <2>1. r \in 0..(N - 1) /\ x \in Nat /\ i = N * x + r
    BY Division
  <2>2. Pick(i) = IF r - 1 < 0 THEN N + (r - 1) ELSE r - 1
    BY <1>2 DEF Pick
  <2> HIDE DEF x, r
  <2>3. CASE r = 0
    <3>1. x >= 1
      <4>1. x = 0 => N * x = 0
        OBVIOUS
      <4> QED
        BY <1>2, <2>1, <2>3, <4>1
    <3>2. N * (x - 1) = N * x - N /\ N * (x - 1) \in Int
      BY <2>1
    <3>3. i - 1 = N * (x - 1) + (N - 1)
      BY <2>1, <2>3, <3>2
    <3>4. (i - 1) % N = N - 1
      BY <2>1, <3>1, <3>3, Remainder
    <3> QED
      BY <2>2, <2>3, <3>4
  <2>4. CASE r # 0
    <3>1. r - 1 \in 0..(N - 1) /\ i - 1 = N * x + (r - 1)
      BY <2>1, <2>4
    <3>2. (i - 1) % N = r - 1
      BY <2>1, <3>1, Remainder
    <3> QED
      BY <2>1, <2>2, <2>4, <3>2
  <2> QED
    BY <2>3, <2>4
<1> QED
  BY <1>1, <1>2

LEMMA PickType ==
  ASSUME NEW i \in Nat \ {0}
  PROVE  Pick(i) \in Configs
BY PickIsRemainder, Division DEF Configs

LEMMA PickDistinct ==
  ASSUME NEW i \in Nat \ {0}, NEW j \in Nat \ {0}, i < j, j < i + N
  PROVE  Pick(i) # Pick(j)
<1> SUFFICES ASSUME Pick(i) = Pick(j) PROVE FALSE
  OBVIOUS
<1> N \in Nat \ {0}
  BY LoadBalancingAssumption
<1> DEFINE x == (i - 1) \div N
           y == (j - 1) \div N
           r == (i - 1) % N
<1>1. /\ x \in Nat /\ y \in Nat /\ r \in 0..(N - 1)
      /\ i - 1 = N * x + r /\ j - 1 = N * y + r
  <2>1. r = (j - 1) % N
    BY PickIsRemainder
  <2>2. i - 1 \in Nat /\ j - 1 \in Nat
    OBVIOUS
  <2> QED
    BY <2>1, <2>2, Division
<1> HIDE DEF x, y, r
<1>2. N * (y - x) = N * y - N * x /\ N * x \in Int /\ N * y \in Int
  BY <1>1
<1>3. N * (y - x) = j - i
  BY <1>1, <1>2
<1>4. CASE y - x >= 1
  BY <1>1, <1>3, <1>4, AtLeastOne
<1>5. CASE y - x <= 0
  <2>1. CASE y = x
    BY <1>1, <2>1
  <2>2. CASE x - y >= 1
    <3>1. N * (x - y) >= N /\ N * (x - y) = N * x - N * y
      BY <1>1, <2>2, AtLeastOne
    <3> QED
      BY <1>1, <1>2, <1>3, <3>1
  <2> QED
    BY <1>1, <1>5, <2>1, <2>2
<1> QED
  BY <1>1, <1>4, <1>5

\* N consecutive indices designate every configuration.
LEMMA PickCovers ==
  ASSUME NEW b \in Nat, NEW k \in Configs
  PROVE  \E i \in 1..N : Pick(b + i) = k
<1> N \in Nat \ {0} /\ k \in 0..(N - 1)
  BY LoadBalancingAssumption DEF Configs
<1>1. PICK x \in Nat, r \in 0..(N - 1) : b = N * x + r
  BY Division
<1>2. N * x \in Nat /\ N * (x + 1) = N * x + N
  BY <1>1
<1>3. CASE k >= r
  <2> DEFINE i == k - r + 1
  <2>1. i \in 1..N /\ b + i \in Nat \ {0} /\ (b + i) - 1 = N * x + k /\ (b + i) - 1 \in Nat
    BY <1>1, <1>2, <1>3
  <2> HIDE DEF i
  <2>2. Pick(b + i) = ((b + i) - 1) % N /\ ((b + i) - 1) % N = k
    BY <1>1, <2>1, Remainder, PickIsRemainder
  <2> QED
    BY <2>1, <2>2
<1>4. CASE k < r
  <2> DEFINE i == k - r + N + 1
  <2>1. i \in 1..N /\ b + i \in Nat \ {0} /\ (b + i) - 1 = N * (x + 1) + k /\ (b + i) - 1 \in Nat
    BY <1>1, <1>2, <1>4
  <2> HIDE DEF i
  <2>2. ((b + i) - 1) % N = k
    <3>1. x + 1 \in Nat
      BY <1>1
    <3> QED
      BY <2>1, <3>1, Remainder
  <2>3. Pick(b + i) = ((b + i) - 1) % N
    BY <2>1, PickIsRemainder
  <2> QED
    BY <2>1, <2>2, <2>3
<1> QED
  BY <1>1, <1>3, <1>4

(***************************************************************************)
(* Type correctness                                                        *)
(***************************************************************************)

\* Every index a caller holds designates a configuration, for any number of
\* configurations, of callers and any point at which the counter restarts.
THEOREM TypeCorrect == Spec => []TypeOK
<1>1. Init => TypeOK
  <2> SUFFICES ASSUME Init PROVE TypeOK
    OBVIOUS
  <2>1. volatile \in BOOLEAN /\ (volatile => counter # 0)
    BY Zenon DEF Init
  <2>2. /\ counter \in Nat /\ cooling \subseteq Configs /\ pc \in [Callers -> Pc]
        /\ current \in [Callers -> 1..ResetAt]
    BY LoadBalancingAssumption DEF Init, Pc, InFetch
  <2>3. /\ found \in [Callers -> Seq(Configs)] /\ lap \in [Callers -> Nat]
        /\ disturbed \in [Callers -> BOOLEAN]
    BY DEF Init
  <2> QED
    BY <2>1, <2>2, <2>3 DEF TypeOK
<1>2. TypeOK /\ [Next]_vars => TypeOK'
  <2> SUFFICES ASSUME TypeOK, [Next]_vars PROVE TypeOK'
    OBVIOUS
  <2> USE DEF TypeOK, Pc, InFetch
  <2>1. CASE CounterExpires
    BY <2>1 DEF CounterExpires, Disturb
  <2>2. ASSUME NEW k \in Configs, CooldownExpires(k) PROVE TypeOK'
    BY <2>2 DEF CooldownExpires, callerVars
  <2>3. ASSUME NEW c \in Callers, Invoke(c) PROVE TypeOK'
    BY <2>3 DEF Invoke, Go, NewFetch
  <2>4. ASSUME NEW c \in Callers, Incr(c) PROVE TypeOK'
    BY <2>4, LoadBalancingAssumption DEF Incr, Go, Disturb
  <2>5. ASSUME NEW c \in Callers, Reset(c) PROVE TypeOK'
    <3>1. volatile' = FALSE /\ counter' = 1
      BY <2>5 DEF Reset
    <3>2. volatile' \in BOOLEAN /\ (volatile' => counter' # 0) /\ counter' \in Nat
      BY <3>1
    <3>3. lap' \in [Callers -> Nat] /\ disturbed' \in [Callers -> BOOLEAN]
      BY <2>5 DEF Reset, Disturb
    <3> QED
      BY <2>5, <3>2, <3>3 DEF Reset, Go
  <2>13. ASSUME NEW c \in Callers, Renew(c) PROVE TypeOK'
    BY <2>13 DEF Renew, Go
  <2>6. ASSUME NEW c \in Callers, CheckReady(c) PROVE TypeOK'
    BY <2>6 DEF CheckReady, Go, NewFetch
  <2>7. ASSUME NEW c \in Callers, CheckCooling(c) PROVE TypeOK'
    <3>1. Config(c) \in Configs
      BY PickType DEF Config
    <3>2. Append(found[c], Config(c)) \in Seq(Configs)
      BY <3>1
    <3> QED
      BY <2>7, <3>2 DEF CheckCooling, Go
  <2>8. ASSUME NEW c \in Callers, InvokeEnds(c) PROVE TypeOK'
    BY <2>8 DEF InvokeEnds, Go
  <2>9. ASSUME NEW c \in Callers, InvokeFails(c) PROVE TypeOK'
    BY <2>9 DEF InvokeFails, Go
  <2>10. ASSUME NEW c \in Callers, Cooldown(c) PROVE TypeOK'
    <3>1. Config(c) \in Configs
      BY PickType DEF Config
    <3> QED
      BY <2>10, <3>1 DEF Cooldown, Go, NewFetch
  <2>11. ASSUME NEW c \in Callers, GiveUp(c) PROVE TypeOK'
    BY <2>11 DEF GiveUp, Go, NewFetch
  <2>12. CASE UNCHANGED vars
    BY <2>12 DEF vars, callerVars
  <2> QED
    BY <2>1, <2>2, <2>3, <2>4, <2>5, <2>6, <2>7, <2>8, <2>9, <2>10, <2>11, <2>12, <2>13
       DEF Next, Expire, Calls
<1> QED
  BY <1>1, <1>2, PTL DEF Spec

(***************************************************************************)
(* A fetch walks through the list                                          *)
(***************************************************************************)

\* The list of a fetch holds fewer configurations than there are, and all of
\* them in number when it gives up.
Lengths(c) ==
  /\ pc[c] \in InFetch => Len(found[c]) < N
  /\ pc[c] = "none" => Len(found[c]) = N
  /\ pc[c] \notin InFetch \cup {"none"} => found[c] = <<>>
  /\ lap[c] <= Len(found[c])

\* The index of the i-th step of a walk that begins after b: it counts up, and
\* from 1 again after l steps, if l is not 0.
Index(l, b, i) == IF 0 < l /\ l < i THEN i - l ELSE b + i

\* What caller c found are the configurations of these indices, the counter is
\* where the walk has come to, and the walk started the counter again only when
\* it had come to its end.
WalksFrom(c, b) ==
  /\ \A i \in 1..Len(found[c]) : found[c][i] = Pick(Index(lap[c], b, i))
  /\ lap[c] > 0 => b + lap[c] = ResetAt - 1
  /\ pc[c] = "incr" => /\ counter = Index(lap[c], b, Len(found[c]))
                       /\ found[c] # <<>> => counter < ResetAt /\ (lap[c] = 0 \/ lap[c] < Len(found[c]))
  /\ pc[c] = "reset" => /\ lap[c] = 0
                        /\ found[c] # <<>> => b + Len(found[c]) + 1 = ResetAt
  /\ pc[c] \in {"renew", "check"} =>
       /\ counter = Index(lap[c], b, Len(found[c]) + 1)
       /\ current[c] = counter /\ counter < ResetAt

Walks(c) == Lengths(c) /\ (~disturbed[c] => \E b \in Nat : WalksFrom(c, b))

WalkInv == \A c \in Callers : Walks(c)

\* A step of another caller that is no step of the counter.
LEMMA OthersKeep ==
  ASSUME WalkInv, NEW d \in Callers, UNCHANGED counter,
         pc'[d] = pc[d], found'[d] = found[d], current'[d] = current[d],
         lap'[d] = lap[d], disturbed'[d] = disturbed[d]
  PROVE  Walks(d)'
<1>1. Lengths(d)'
  BY DEF WalkInv, Walks, Lengths
<1>2. ASSUME NEW b \in Nat, WalksFrom(d, b) PROVE WalksFrom(d, b)'
  BY <1>2 DEF WalksFrom
<1> QED
  BY <1>1, <1>2 DEF WalkInv, Walks

\* A caller begins a fetch or leaves one with an empty list.
LEMMA FetchBegins ==
  ASSUME TypeOK, TypeOK', NEW d \in Callers, found'[d] = <<>>, lap'[d] = 0,
         pc'[d] \in {"idle", "invoke", "cooldown", "incr"}
  PROVE  Walks(d)'
<1>1. Len(found'[d]) = 0 /\ 1..0 = {}
  OBVIOUS
<1>2. Lengths(d)'
  BY <1>1, LoadBalancingAssumption DEF Lengths
<1>3. PICK b \in Nat : b = counter'
  BY DEF TypeOK
<1>4. WalksFrom(d, b)'
  <2>1. \A i \in 1..Len(found'[d]) : found'[d][i] = Pick(Index(lap'[d], b, i))
    BY <1>1
  <2>2. counter' = Index(lap'[d], b, Len(found'[d]))
    <3>1. Index(0, b, 0) = b
      BY DEF Index
    <3> QED
      BY <1>1, <1>3, <3>1
  <2> QED
    BY <2>1, <2>2 DEF WalksFrom
<1> QED
  BY <1>2, <1>4 DEF Walks

\* The counter moves: the walks of the others are disturbed, and those who are
\* not in a fetch do not look at it.
LEMMA OthersDisturbed ==
  ASSUME TypeOK, WalkInv, NEW d \in Callers,
         pc'[d] = pc[d], found'[d] = found[d], lap'[d] = lap[d],
         disturbed'[d] = (disturbed[d] \/ pc[d] \in InFetch)
  PROVE  Walks(d)'
<1>1. Lengths(d)'
  BY DEF WalkInv, Walks, Lengths
<1>2. CASE pc[d] \in InFetch
  <2>1. disturbed'[d]
    BY <1>2
  <2> QED
    BY <1>1, <2>1 DEF Walks
<1>3. CASE pc[d] \notin InFetch
  <2>1. disturbed'[d] = disturbed[d]
    BY <1>3 DEF TypeOK
  <2>2. ASSUME NEW b \in Nat, WalksFrom(d, b) PROVE WalksFrom(d, b)'
    BY <1>3, <2>2 DEF WalksFrom, Index, InFetch
  <2> QED
    BY <1>1, <2>1, <2>2 DEF WalkInv, Walks
<1> QED
  BY <1>2, <1>3

\* The caller's own INCR.
LEMMA OwnIncr ==
  ASSUME TypeOK, WalkInv, NEW d \in Callers, Incr(d)
  PROVE  Walks(d)'
<1>1. /\ pc[d] = "incr" /\ found'[d] = found[d] /\ lap'[d] = lap[d]
      /\ disturbed'[d] = disturbed[d] /\ counter' = counter + 1
      /\ pc'[d] = (IF counter + 1 >= ResetAt THEN "reset" ELSE "renew")
      /\ counter + 1 < ResetAt => current'[d] = counter'
  <2>1. disturbed'[d] = disturbed[d]
    BY DEF Incr, Disturb, TypeOK
  <2>2. /\ pc[d] = "incr" /\ found' = found /\ lap' = lap /\ counter' = counter + 1
        /\ pc'[d] = (IF counter + 1 >= ResetAt THEN "reset" ELSE "renew")
    BY DEF Incr, Go, TypeOK
  <2>3. current'[d] = IF counter + 1 >= ResetAt THEN 1 ELSE counter + 1
    BY DEF Incr, TypeOK
  <2>4. counter \in Nat /\ ResetAt \in Nat
    BY LoadBalancingAssumption DEF TypeOK
  <2>5. counter + 1 < ResetAt => current'[d] = counter'
    BY <2>2, <2>3, <2>4
  <2> QED
    BY <2>1, <2>2, <2>5
<1>2. /\ Len(found[d]) \in Nat /\ Len(found[d]) < N /\ lap[d] \in Nat
      /\ lap[d] <= Len(found[d]) /\ counter \in Nat
      /\ found[d] = <<>> <=> Len(found[d]) = 0
  BY <1>1 DEF WalkInv, Walks, Lengths, InFetch, TypeOK
<1>3. Lengths(d)'
  BY <1>1, <1>2 DEF Lengths, InFetch
<1>4. ASSUME NEW b \in Nat, WalksFrom(d, b) PROVE WalksFrom(d, b)'
  <2>1. \A i \in 1..Len(found'[d]) : found'[d][i] = Pick(Index(lap'[d], b, i))
    BY <1>1, <1>4 DEF WalksFrom, Index
  <2>2. CASE counter + 1 >= ResetAt
    <3>1. lap[d] = 0
      BY <1>1, <1>2, <1>4, <2>2, LoadBalancingAssumption DEF WalksFrom, Index
    <3>2. counter = b + Len(found[d]) /\ (found[d] # <<>> => counter < ResetAt)
      BY <1>1, <1>4, <3>1 DEF WalksFrom, Index
    <3>3. found[d] # <<>> => b + Len(found[d]) + 1 = ResetAt
      BY <1>2, <2>2, <3>2, LoadBalancingAssumption
    <3> QED
      BY <1>1, <2>1, <2>2, <3>1, <3>3 DEF WalksFrom
  <2>3. CASE counter + 1 < ResetAt
    <3>1. counter' = Index(lap'[d], b, Len(found'[d]) + 1)
      <4>1. /\ counter = Index(lap[d], b, Len(found[d]))
            /\ lap[d] = 0 \/ lap[d] < Len(found[d])
        BY <1>1, <1>2, <1>4 DEF WalksFrom
      <4>2. Index(lap[d], b, Len(found[d]) + 1) = Index(lap[d], b, Len(found[d])) + 1
        BY <1>2, <4>1 DEF Index
      <4> QED
        BY <1>1, <4>1, <4>2
    <3>2. pc'[d] = "renew" /\ current'[d] = counter' /\ counter' < ResetAt
      BY <1>1, <1>2, <2>3, LoadBalancingAssumption
    <3>3. lap'[d] > 0 => b + lap'[d] = ResetAt - 1
      BY <1>1, <1>4 DEF WalksFrom
    <3> QED
      BY <2>1, <3>1, <3>2, <3>3 DEF WalksFrom
  <2> QED
    BY <1>2, <2>2, <2>3, LoadBalancingAssumption
<1> QED
  BY <1>1, <1>3, <1>4 DEF WalkInv, Walks

\* The caller's own SET: the walk begins its second lap, or begins anew.
LEMMA OwnReset ==
  ASSUME TypeOK, WalkInv, NEW d \in Callers, Reset(d),
         ~disturbed[d] => current[d] = 1
  PROVE  Walks(d)'
<1> DEFINE m == Len(found[d])
<1>1. /\ pc[d] = "reset" /\ pc'[d] = "renew" /\ found'[d] = found[d] /\ lap'[d] = m
      /\ disturbed'[d] = disturbed[d] /\ counter' = 1 /\ current'[d] = current[d]
  BY DEF Reset, Go, Disturb, TypeOK
<1>2. m \in Nat /\ m < N /\ (found[d] = <<>> <=> m = 0)
  BY <1>1 DEF WalkInv, Walks, Lengths, InFetch, TypeOK
<1>3. Lengths(d)'
  BY <1>1, <1>2 DEF Lengths, InFetch
<1>4. ASSUME ~disturbed[d] PROVE \E b \in Nat : WalksFrom(d, b)'
  <2>1. PICK b \in Nat : WalksFrom(d, b)
    BY <1>4 DEF WalkInv, Walks
  <2>2. current'[d] = 1 /\ 1 < ResetAt
    BY <1>1, <1>4, LoadBalancingAssumption
  <2>3. CASE m = 0
    <3>1. \A i \in 1..Len(found'[d]) : found'[d][i] = Pick(Index(lap'[d], 0, i))
      BY <1>1, <2>3
    <3>2. Index(lap'[d], 0, Len(found'[d]) + 1) = 1
      BY <1>1, <2>3 DEF Index
    <3>3. WalksFrom(d, 0)'
      BY <1>1, <2>2, <2>3, <3>1, <3>2 DEF WalksFrom
    <3> QED
      BY <3>3
  <2>4. CASE m > 0
    <3>1. lap[d] = 0 /\ b + m + 1 = ResetAt
      BY <1>1, <1>2, <2>1, <2>4 DEF WalksFrom
    <3>2. \A i \in 1..Len(found'[d]) : found'[d][i] = Pick(Index(lap'[d], b, i))
      BY <1>1, <1>2, <2>1, <3>1 DEF WalksFrom, Index
    <3>3. Index(lap'[d], b, Len(found'[d]) + 1) = 1
      BY <1>1, <1>2, <2>4 DEF Index
    <3>4. b + lap'[d] = ResetAt - 1
      BY <1>1, <1>2, <3>1, LoadBalancingAssumption
    <3> HIDE DEF m
    <3>5. WalksFrom(d, b)'
      BY <1>1, <2>2, <3>2, <3>3, <3>4 DEF WalksFrom
    <3> QED
      BY <3>5
  <2> QED
    BY <1>2, <2>3, <2>4
<1> QED
  BY <1>1, <1>3, <1>4 DEF Walks

\* The caller's own EXPIRE.
LEMMA OwnRenew ==
  ASSUME TypeOK, WalkInv, NEW d \in Callers, Renew(d)
  PROVE  Walks(d)'
<1>1. /\ pc[d] = "renew" /\ pc'[d] = "check" /\ found'[d] = found[d] /\ lap'[d] = lap[d]
      /\ disturbed'[d] = disturbed[d] /\ counter' = counter /\ current'[d] = current[d]
  BY DEF Renew, Go, TypeOK
<1>2. Lengths(d)'
  BY <1>1 DEF WalkInv, Walks, Lengths, InFetch
<1>3. ASSUME NEW b \in Nat, WalksFrom(d, b) PROVE WalksFrom(d, b)'
  BY <1>1, <1>3 DEF WalksFrom
<1> QED
  BY <1>1, <1>2, <1>3 DEF WalkInv, Walks

\* The caller's own look at a configuration that is cooling down.
LEMMA OwnCheckCooling ==
  ASSUME TypeOK, WalkInv, NEW d \in Callers, CheckCooling(d)
  PROVE  Walks(d)'
<1> DEFINE m == Len(found[d])
<1> N \in Nat \ {0}
  BY LoadBalancingAssumption
<1>1. /\ pc[d] = "check" /\ found'[d] = Append(found[d], Pick(current[d]))
      /\ pc'[d] = (IF m + 1 >= N THEN "none" ELSE "incr") /\ lap'[d] = lap[d]
      /\ disturbed' = disturbed /\ counter' = counter /\ current' = current
  BY DEF CheckCooling, Go, Config, TypeOK
<1>2. /\ m \in Nat /\ found[d] \in Seq(Configs) /\ m < N
      /\ Pick(current[d]) \in Configs /\ lap[d] \in Nat /\ lap[d] <= m
  BY <1>1, PickType DEF TypeOK, WalkInv, Walks, Lengths, InFetch
<1>3. /\ Len(found'[d]) = m + 1
      /\ \A i \in 1..m : found'[d][i] = found[d][i]
      /\ found'[d][m + 1] = Pick(current[d])
  BY <1>1, <1>2
<1> HIDE DEF m
<1>4. Lengths(d)'
  BY <1>1, <1>2, <1>3 DEF Lengths, InFetch
<1>5. ASSUME NEW b \in Nat, WalksFrom(d, b) PROVE WalksFrom(d, b)'
  <2>1. /\ \A i \in 1..m : found[d][i] = Pick(Index(lap[d], b, i))
        /\ counter = Index(lap[d], b, m + 1) /\ current[d] = counter /\ counter < ResetAt
        /\ lap[d] > 0 => b + lap[d] = ResetAt - 1
    BY <1>1, <1>5 DEF WalksFrom, m
  <2>2. ASSUME NEW i \in 1..(m + 1) PROVE found'[d][i] = Pick(Index(lap'[d], b, i))
    <3>1. Index(lap'[d], b, i) = Index(lap[d], b, i)
      BY <1>1 DEF Index
    <3>2. CASE i = m + 1
      BY <1>3, <2>1, <3>1, <3>2
    <3>3. CASE i # m + 1
      BY <1>2, <1>3, <2>1, <3>1, <3>3
    <3> QED
      BY <3>2, <3>3
  <2>3. \A i \in 1..Len(found'[d]) : found'[d][i] = Pick(Index(lap'[d], b, i))
    BY <1>3, <2>2
  <2>4. /\ counter' = Index(lap'[d], b, Len(found'[d])) /\ counter' < ResetAt
        /\ lap'[d] = 0 \/ lap'[d] < Len(found'[d])
    BY <1>1, <1>2, <1>3, <2>1 DEF Index
  <2> QED
    BY <1>1, <2>1, <2>3, <2>4 DEF WalksFrom
<1> QED
  BY <1>1, <1>4, <1>5 DEF WalkInv, Walks

\* The index of a caller that is about to start the counter again is 1.
ResetToOne == \A c \in Callers : pc[c] = "reset" => current[c] = 1

LEMMA ResetToOneHolds == Spec => []ResetToOne
<1>1. Init => ResetToOne
  BY DEF Init, ResetToOne
<1>2. TypeOK /\ ResetToOne /\ [Next]_vars => ResetToOne'
  <2> SUFFICES ASSUME TypeOK, ResetToOne, [Next]_vars, NEW d \in Callers, pc'[d] = "reset"
               PROVE  current'[d] = 1
    BY DEF ResetToOne
  <2>1. CASE Expire
    BY <2>1 DEF Expire, CounterExpires, CooldownExpires, callerVars, ResetToOne
  <2>2. ASSUME NEW c \in Callers, Incr(c) PROVE current'[d] = 1
    BY <2>2, LoadBalancingAssumption DEF Incr, Go, TypeOK, ResetToOne
  <2>3. ASSUME NEW c \in Callers, Invoke(c) \/ Reset(c) \/ Renew(c) \/ CheckReady(c)
        PROVE  current'[d] = 1
    BY <2>3 DEF Invoke, Reset, Renew, CheckReady, Go, TypeOK, ResetToOne
  <2>4. ASSUME NEW c \in Callers, CheckCooling(c) \/ InvokeEnds(c) \/ InvokeFails(c)
        PROVE  current'[d] = 1
    BY <2>4 DEF CheckCooling, InvokeEnds, InvokeFails, Go, TypeOK, ResetToOne
  <2>5. ASSUME NEW c \in Callers, Cooldown(c) \/ GiveUp(c) PROVE current'[d] = 1
    BY <2>5 DEF Cooldown, GiveUp, Go, TypeOK, ResetToOne
  <2>6. CASE UNCHANGED vars
    BY <2>6 DEF vars, callerVars, ResetToOne
  <2> QED
    BY <2>1, <2>2, <2>3, <2>4, <2>5, <2>6 DEF Next, Calls
<1> QED
  BY <1>1, <1>2, TypeCorrect, PTL DEF Spec

LEMMA WalkInvHolds == Spec => []WalkInv
<1>1. Init => WalkInv
  <2> SUFFICES ASSUME Init, NEW c \in Callers
               PROVE  Lengths(c) /\ \E b \in Nat : WalksFrom(c, b)
    BY DEF WalkInv, Walks
  <2>1. Lengths(c)
    BY DEF Init, Lengths, InFetch
  <2>2. WalksFrom(c, 0)
    BY DEF Init, WalksFrom
  <2> QED
    BY <2>1, <2>2
<1>2. TypeOK /\ TypeOK' /\ ResetToOne /\ WalkInv /\ [Next]_vars => WalkInv'
  <2> SUFFICES ASSUME TypeOK, TypeOK', ResetToOne, WalkInv, [Next]_vars, NEW d \in Callers
               PROVE  Walks(d)'
    BY DEF WalkInv
  <2>1. CASE CounterExpires
    BY <2>1, OthersDisturbed DEF CounterExpires, Disturb
  <2>2. ASSUME NEW k \in Configs, CooldownExpires(k) PROVE Walks(d)'
    BY <2>2, OthersKeep DEF CooldownExpires, callerVars
  <2>3. ASSUME NEW c \in Callers, Invoke(c) \/ CheckReady(c) \/ Cooldown(c) \/ GiveUp(c)
        PROVE  Walks(d)'
    <3>1. CASE d = c
      <4>1. found'[d] = <<>> /\ lap'[d] = 0 /\ pc'[d] \in {"incr", "invoke", "idle"}
        BY <2>3, <3>1 DEF Invoke, CheckReady, Cooldown, GiveUp, Go, NewFetch, TypeOK
      <4> QED
        BY <4>1, FetchBegins
    <3>2. CASE d # c
      BY <2>3, <3>2, OthersKeep DEF Invoke, CheckReady, Cooldown, GiveUp, Go, NewFetch, TypeOK
    <3> QED
      BY <3>1, <3>2
  <2>4. ASSUME NEW c \in Callers, Incr(c) PROVE Walks(d)'
    <3>1. CASE d = c
      BY <2>4, <3>1, OwnIncr
    <3>2. CASE d # c
      BY <2>4, <3>2, OthersDisturbed DEF Incr, Go, Disturb, TypeOK
    <3> QED
      BY <3>1, <3>2
  <2>5. ASSUME NEW c \in Callers, Reset(c) PROVE Walks(d)'
    <3>1. CASE d = c
      BY <2>5, <3>1, OwnReset DEF ResetToOne, Reset, Go
    <3>2. CASE d # c
      BY <2>5, <3>2, OthersDisturbed DEF Reset, Go, Disturb, TypeOK
    <3> QED
      BY <3>1, <3>2
  <2>6. ASSUME NEW c \in Callers, Renew(c) PROVE Walks(d)'
    <3>1. CASE d = c
      BY <2>6, <3>1, OwnRenew
    <3>2. CASE d # c
      BY <2>6, <3>2, OthersKeep DEF Renew, Go, TypeOK
    <3> QED
      BY <3>1, <3>2
  <2>7. ASSUME NEW c \in Callers, CheckCooling(c) PROVE Walks(d)'
    <3>1. CASE d = c
      BY <2>7, <3>1, OwnCheckCooling
    <3>2. CASE d # c
      BY <2>7, <3>2, OthersKeep DEF CheckCooling, Go, TypeOK
    <3> QED
      BY <3>1, <3>2
  <2>8. ASSUME NEW c \in Callers, InvokeEnds(c) \/ InvokeFails(c) PROVE Walks(d)'
    <3>1. CASE d = c
      <4>1. pc[d] = "invoke" /\ found'[d] = found[d] /\ lap'[d] = lap[d] /\ pc'[d] \in {"idle", "cooldown"}
        BY <2>8, <3>1 DEF InvokeEnds, InvokeFails, Go, TypeOK
      <4>2. found[d] = <<>> /\ lap[d] <= Len(found[d])
        BY <4>1 DEF WalkInv, Walks, Lengths, InFetch
      <4>3. lap[d] = 0
        <5>1. lap[d] \in Nat /\ Len(<<>>) = 0
          BY DEF TypeOK
        <5> QED
          BY <4>2, <5>1
      <4> QED
        BY <4>1, <4>2, <4>3, FetchBegins
    <3>2. CASE d # c
      BY <2>8, <3>2, OthersKeep DEF InvokeEnds, InvokeFails, Go, TypeOK
    <3> QED
      BY <3>1, <3>2
  <2>9. CASE UNCHANGED vars
    BY <2>9, OthersKeep DEF vars, callerVars
  <2> QED
    BY <2>1, <2>2, <2>3, <2>4, <2>5, <2>6, <2>7, <2>8, <2>9 DEF Next, Expire, Calls
<1> QED
  BY <1>1, <1>2, TypeCorrect, ResetToOneHolds, PTL DEF Spec

(***************************************************************************)
(* What a fetch has met                                                     *)
(***************************************************************************)

\* When the counter starts again where a round ends, the indices after the lap
\* designate what the ones that went on counting would.
LEMMA RoundsJoin ==
  ASSUME NEW i \in Nat \ {0}, LastRound = 0
  PROVE  Pick(i) = Pick((ResetAt - 1) + i)
<1> N \in Nat \ {0} /\ ResetAt - 1 \in Nat /\ ResetAt \in Nat
  BY LoadBalancingAssumption
<1>1. PICK q \in Nat : ResetAt - 1 = N * q
  <2> DEFINE a == ResetAt - 1
  <2>1. a % N = 0 /\ a \in Nat
    BY DEF LastRound
  <2> HIDE DEF a
  <2>2. a \div N \in Nat /\ a = N * (a \div N)
    BY <2>1, Division
  <2> QED
    BY <2>2 DEF a
<1>2. PICK x \in Nat, r \in 0..(N - 1) : i - 1 = N * x + r /\ (i - 1) % N = r
  <2>1. i - 1 \in Nat
    OBVIOUS
  <2> QED
    BY <2>1, Division
<1>3. N * (q + x) = N * q + N * x /\ N * q \in Nat /\ N * x \in Nat
  BY <1>1, <1>2
<1> DEFINE j == (ResetAt - 1) + i
<1>4. j \in Nat \ {0} /\ j - 1 \in Nat /\ j - 1 = N * (q + x) + r /\ q + x \in Nat
  BY <1>1, <1>2, <1>3
<1> HIDE DEF j
<1>5. (j - 1) % N = r
  BY <1>2, <1>4, Remainder
<1>6. Pick(j) = r /\ Pick(i) = r
  BY <1>2, <1>4, <1>5, PickIsRemainder
<1> QED
  BY <1>6 DEF j

\* A fetch that nobody disturbs meets a configuration twice only when it starts
\* the counter again in the middle of the list, for any number of configurations
\* and callers.
THEOREM NoConfigTwiceAlways == Spec => []NoConfigTwice
<1>1. TypeOK /\ WalkInv => NoConfigTwice
  <2> SUFFICES ASSUME TypeOK, WalkInv, NEW c \in Callers, ~disturbed[c],
                      NEW i \in 1..Len(found[c]), NEW j \in 1..Len(found[c]), i < j,
                      found[c][i] = found[c][j]
               PROVE  i <= lap[c] /\ lap[c] < j /\ LastRound # 0
    BY DEF NoConfigTwice
  <2> N \in Nat \ {0} /\ ResetAt \in Nat /\ ResetAt > N
    BY LoadBalancingAssumption
  <2>1. PICK b \in Nat : WalksFrom(c, b)
    BY DEF WalkInv, Walks
  <2>2. Len(found[c]) <= N /\ Len(found[c]) \in Nat /\ lap[c] \in Nat
    BY DEF WalkInv, Walks, Lengths, TypeOK, Pc
  <2>3. Pick(Index(lap[c], b, i)) = Pick(Index(lap[c], b, j))
    BY <2>1 DEF WalksFrom
  <2>4. ASSUME lap[c] = 0 \/ j <= lap[c] PROVE FALSE
    <3>1. Index(lap[c], b, i) = b + i /\ Index(lap[c], b, j) = b + j
      BY <2>2, <2>4 DEF Index
    <3>2. b + i \in Nat \ {0} /\ b + j \in Nat \ {0} /\ b + i < b + j /\ b + j < (b + i) + N
      BY <2>2
    <3> QED
      BY <2>3, <3>1, <3>2, PickDistinct
  <2>5. ASSUME lap[c] > 0, i > lap[c] PROVE FALSE
    <3>1. Index(lap[c], b, i) = i - lap[c] /\ Index(lap[c], b, j) = j - lap[c]
      BY <2>2, <2>5 DEF Index
    <3> DEFINE x == i - lap[c]
               y == j - lap[c]
    <3>2. x \in Nat \ {0} /\ y \in Nat \ {0} /\ x < y /\ y < x + N
      <4>1. i \in Nat /\ j \in Nat /\ i < j /\ j <= N
        BY <2>2
      <4>2. x \in Nat \ {0} /\ y \in Nat \ {0}
        BY <2>2, <2>5, <4>1
      <4>3. x < y /\ y < x + N
        BY <2>2, <2>5, <4>1
      <4> QED
        BY <4>2, <4>3
    <3>3. Pick(x) = Pick(y)
      BY <2>3, <3>1
    <3> HIDE DEF x, y
    <3> QED
      BY <3>2, <3>3, PickDistinct
  <2>6. ASSUME lap[c] > 0, i <= lap[c], lap[c] < j, LastRound = 0 PROVE FALSE
    <3>1. Index(lap[c], b, i) = b + i /\ Index(lap[c], b, j) = j - lap[c] /\ b + lap[c] = ResetAt - 1
      BY <2>1, <2>2, <2>6 DEF Index, WalksFrom
    <3>2. j - lap[c] \in Nat \ {0}
      BY <2>2, <2>6
    <3>3. Pick(j - lap[c]) = Pick((ResetAt - 1) + (j - lap[c]))
      BY <2>6, <3>2, RoundsJoin
    <3>4. (ResetAt - 1) + (j - lap[c]) = b + j
      BY <2>2, <3>1
    <3>5. b + i \in Nat \ {0} /\ b + j \in Nat \ {0} /\ b + i < b + j /\ b + j < (b + i) + N
      BY <2>2
    <3>6. Pick(b + i) # Pick(b + j)
      BY <3>5, PickDistinct
    <3> QED
      BY <2>3, <3>1, <3>3, <3>4, <3>6
  <2> QED
    BY <2>2, <2>4, <2>5, <2>6
<1> QED
  BY <1>1, TypeCorrect, WalkInvHolds, PTL

\* When such a fetch returns None it has met every configuration in cooldown but
\* those it passed over when it started the counter again.
THEOREM UndisturbedNoneMeansAllCoolingAlways == Spec => []UndisturbedNoneMeansAllCooling
<1>1. TypeOK /\ WalkInv => UndisturbedNoneMeansAllCooling
  <2> SUFFICES ASSUME TypeOK, WalkInv, NEW c \in Callers, pc[c] = "none", ~disturbed[c],
                      NEW k \in Configs, ~(lap[c] > 0 /\ LastRound # 0 /\ k >= LastRound)
               PROVE  \E i \in 1..Len(found[c]) : found[c][i] = k
    BY DEF UndisturbedNoneMeansAllCooling
  <2> N \in Nat \ {0} /\ ResetAt \in Nat /\ ResetAt > N /\ k \in 0..(N - 1)
    BY LoadBalancingAssumption DEF Configs
  <2>1. PICK b \in Nat : WalksFrom(c, b)
    BY DEF WalkInv, Walks
  <2>2. Len(found[c]) = N /\ lap[c] \in Nat /\ lap[c] <= N
    BY DEF WalkInv, Walks, Lengths, TypeOK
  <2> SUFFICES \E i \in 1..N : Pick(Index(lap[c], b, i)) = k
    BY <2>1, <2>2 DEF WalksFrom
  <2>3. PICK i \in 1..N : Pick(b + i) = k
    BY PickCovers
  <2>4. CASE lap[c] = 0
    BY <2>3, <2>4 DEF Index
  <2>5. CASE lap[c] > 0 /\ LastRound = 0
    <3>1. CASE i <= lap[c]
      BY <2>2, <2>3, <3>1 DEF Index
    <3>2. CASE i > lap[c]
      <4>1. i - lap[c] \in Nat \ {0} /\ (ResetAt - 1) + (i - lap[c]) = b + i
        BY <2>1, <2>2, <2>5, <3>2 DEF WalksFrom
      <4>2. Pick(i - lap[c]) = k
        BY <2>3, <2>5, <4>1, RoundsJoin
      <4> QED
        BY <2>2, <2>5, <3>2, <4>2 DEF Index
    <3> QED
      BY <2>2, <3>1, <3>2
  <2>6. CASE lap[c] > 0 /\ k < LastRound
    <3>1. b + lap[c] = ResetAt - 1
      BY <2>1, <2>6 DEF WalksFrom
    <3>2. PICK q \in Nat : /\ LastRound \in 0..(N - 1) /\ N * q \in Nat
                           /\ ResetAt - 1 = N * q + LastRound
      <4> DEFINE a == ResetAt - 1
      <4>1. a \in Nat /\ LastRound = a % N
        BY DEF LastRound
      <4> HIDE DEF a
      <4>2. a \div N \in Nat /\ N * (a \div N) \in Nat /\ LastRound \in 0..(N - 1)
        BY <4>1, Division
      <4>3. a = N * (a \div N) + LastRound
        BY <4>1, Division
      <4> QED
        BY <4>2, <4>3 DEF a
    <3>3. CASE k < N - lap[c]
      <4>1. lap[c] + k + 1 \in 1..N /\ Index(lap[c], b, lap[c] + k + 1) = k + 1
        BY <2>2, <2>6, <3>3 DEF Index
      <4>2. k + 1 \in Nat \ {0} /\ (k + 1) - 1 = N * 0 + k
        OBVIOUS
      <4>3. Pick(k + 1) = k
        BY <4>2, PickIsRemainder, Remainder
      <4> QED
        BY <4>1, <4>3
    <3>4. CASE k >= N - lap[c]
      <4> DEFINE n == lap[c] - LastRound + k + 1
      <4>1. n \in 1..N /\ n <= lap[c] /\ b + n = N * q + k + 1
        <5> DEFINE p == N * q
        <5>1. p \in Nat /\ LastRound \in Nat /\ LastRound < N /\ ResetAt - 1 = p + LastRound
          BY <3>2
        <5> HIDE DEF p
        <5>2. n \in Int /\ n <= lap[c] /\ n >= 1
          BY <2>2, <2>6, <3>4, <5>1
        <5>3. b + n = p + k + 1
          <6>1. b + lap[c] = p + LastRound
            BY <3>1, <5>1
          <6>2. k \in Nat /\ lap[c] \in Nat
            BY <2>2
          <6> QED
            BY <5>1, <6>1, <6>2
        <5> QED
          BY <2>2, <5>2, <5>3 DEF p
      <4> HIDE DEF n
      <4>2. Index(lap[c], b, n) = b + n
        BY <2>2, <4>1 DEF Index
      <4>3. b + n \in Nat \ {0} /\ (b + n) - 1 \in Nat /\ (b + n) - 1 = N * q + k
        BY <3>2, <4>1
      <4>4. Pick(b + n) = ((b + n) - 1) % N /\ ((b + n) - 1) % N = k
        BY <4>3, PickIsRemainder, Remainder
      <4> QED
        BY <4>1, <4>2, <4>4
    <3> QED
      BY <2>2, <3>3, <3>4
  <2>7. LastRound \in Nat
    <3>1. ResetAt - 1 \in Nat
      OBVIOUS
    <3> QED
      BY <3>1, Division DEF LastRound
  <2> QED
    BY <2>2, <2>4, <2>5, <2>6, <2>7
<1> QED
  BY <1>1, TypeCorrect, WalkInvHolds, PTL
=============================================================================
