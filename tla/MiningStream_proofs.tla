------------------------ MODULE MiningStream_proofs ------------------------
(***************************************************************************)
(* The nonces of a network of any size: the miners share them out without  *)
(* an overlap and without a gap (NoncePartition).  And what becomes of     *)
(* them, for every share, every size of batch, cap and number of attempts: *)
(* no nonce is skipped or computed twice however often forwards time out,  *)
(* no artifact vanishes, and posts keep their order (MiningStream).        *)
(***************************************************************************)
EXTENDS MiningStream, SequenceTheorems, FiniteSetTheorems, FunctionTheorems, Numbers, TLAPS

----------------------------------------------------------------------------
(* The partition.                                                          *)

\* A nonce in the mixed radix of nodes and groups.
LEMMA Factored ==
    ASSUME NEW nodes \in Nat \ {0}, NEW groups \in Nat \ {0},
           NEW node \in Nat, NEW group \in Nat, NEW x \in Nat
    PROVE  Nonce(node, nodes, group, groups, x) = (x * groups + group) * nodes + node
BY DEF Nonce

\* No nonce is computed by two miners, or twice by one (routes.py 156-159).
THEOREM Disjoint ==
    ASSUME NEW nodes \in Nat \ {0}, NEW groups \in Nat \ {0},
           NEW a \in 0..nodes-1, NEW g \in 0..groups-1, NEW x \in Nat,
           NEW b \in 0..nodes-1, NEW h \in 0..groups-1, NEW y \in Nat,
           Nonce(a, nodes, g, groups, x) = Nonce(b, nodes, h, groups, y)
    PROVE  a = b /\ g = h /\ x = y
<1> DEFINE p == x * groups + g
           q == y * groups + h
<1>1. p \in Nat /\ q \in Nat  OBVIOUS
<1>2. p * nodes + a = q * nodes + b
    <2>1. Nonce(a, nodes, g, groups, x) = p * nodes + a  BY Factored
    <2>2. Nonce(b, nodes, h, groups, y) = q * nodes + b  BY Factored
    <2> QED BY <2>1, <2>2
<1> HIDE DEF p, q
<1>3. p = q /\ a = b  BY <1>1, <1>2, MixedRadix
<1>4. x = y /\ g = h  BY <1>3, MixedRadix DEF p, q
<1> QED BY <1>3, <1>4

\* Every number is the nonce of some miner, at some position.
THEOREM Complete ==
    ASSUME NEW nodes \in Nat \ {0}, NEW groups \in Nat \ {0}, NEW n \in Nat
    PROVE  \E node \in 0..nodes-1, group \in 0..groups-1, x \in Nat :
              n = Nonce(node, nodes, group, groups, x)
<1> DEFINE q == n \div nodes
           node == n % nodes
           x == q \div groups
           group == q % groups
<1>1. q \in Nat /\ node \in 0..nodes-1 /\ n = q * nodes + node  BY DivMod
<1> HIDE DEF q, node
<1>2. x \in Nat /\ group \in 0..groups-1 /\ q = x * groups + group  BY <1>1, DivMod
<1> HIDE DEF x, group
<1>3. n = (x * groups + group) * nodes + node  BY <1>1, <1>2
<1>4. n = Nonce(node, nodes, group, groups, x)  BY <1>1, <1>2, <1>3, Factored
<1> QED BY <1>1, <1>2, <1>4

\* A take is a sequence of numbers.
LEMMA TakeType ==
    ASSUME NEW nodes \in Nat, NEW groups \in Nat, NEW node \in Nat, NEW group \in Nat,
           NEW x \in Nat, NEW n \in Nat
    PROVE  /\ Take(node, nodes, group, groups, x, n) \in Seq(Nat)
           /\ Len(Take(node, nodes, group, groups, x, n)) = n
<1> DEFINE t == Take(node, nodes, group, groups, x, n)
<1>1. \A i \in 1..n : Nonce(node, nodes, group, groups, x + i - 1) \in Nat
    <2> SUFFICES ASSUME NEW i \in 1..n
                 PROVE  Nonce(node, nodes, group, groups, x + i - 1) \in Nat  OBVIOUS
    <2>1. x + i - 1 \in Nat  OBVIOUS
    <2>2. groups * nodes \in Nat /\ group * nodes \in Nat  OBVIOUS
    <2>3. (x + i - 1) * (groups * nodes) \in Nat  BY <2>1, <2>2
    <2> QED BY <2>2, <2>3 DEF Nonce
<1>2. t \in [1..n -> Nat]  BY <1>1 DEF Take
<1> HIDE DEF t
<1>3. t \in Seq(Nat) /\ Len(t) = n  BY <1>2
<1> QED BY <1>3 DEF t

----------------------------------------------------------------------------
(* The share of this miner.                                                *)

Share(x, n) == Take(Node, Nodes, Group, Groups, x, n)

----------------------------------------------------------------------------
(* The invariant: what has been computed is the beginning of the share,    *)
(* what is in flight or waits to be retried is the next batch of it.       *)

NextBatch(s) == s = Share(Len(computed), BatchSize) /\ taken = Len(computed) + BatchSize

StreamInv ==
    /\ taken \in Nat /\ computed \in Seq(Nat)
    /\ gen \in {"loop", "forward", "crashed", "cancelled"}
    /\ computed = Share(0, Len(computed))
    /\ gen = "loop" =>
          asked = <<>> /\ (NextBatch(pending) \/ (pending = <<>> /\ taken = Len(computed)))
    /\ gen = "forward" => NextBatch(asked)
    /\ gen = "cancelled" => stopping

\* The constants, in the form the lemmas on takes want them.
LEMMA ConstantsType ==
    /\ Nodes \in Nat \ {0} /\ Groups \in Nat \ {0}
    /\ Node \in 0..Nodes-1 /\ Group \in 0..Groups-1
    /\ Nodes \in Nat /\ Groups \in Nat /\ Node \in Nat /\ Group \in Nat
    /\ BatchSize \in Nat /\ BatchSize # 0
<1>1. BatchSize \in Nat /\ BatchSize # 0  BY StreamAssumption
<1>2. Nodes \in Nat \ {0} /\ Node \in 0..Nodes-1  BY ShareAssumption
<1>3. Groups \in Nat \ {0} /\ Group \in 0..Groups-1  BY ShareAssumption
<1>4. Nodes \in Nat /\ Groups \in Nat /\ Node \in Nat /\ Group \in Nat
    BY <1>2, <1>3
<1> QED BY <1>1, <1>2, <1>3, <1>4

\* A share is a sequence of numbers.
LEMMA ShareType ==
    ASSUME NEW x \in Nat, NEW n \in Nat
    PROVE  Share(x, n) \in Seq(Nat) /\ Len(Share(x, n)) = n
<1>1. Take(Node, Nodes, Group, Groups, x, n) \in Seq(Nat)  BY ConstantsType, TakeType, Zenon
<1>2. Len(Take(Node, Nodes, Group, Groups, x, n)) = n  BY ConstantsType, TakeType, SMTT(30)
<1> QED BY <1>1, <1>2 DEF Share

\* It grows batch by batch: NonceIterator.take keeps its position.
LEMMA SharesJoin ==
    ASSUME NEW m \in Nat, NEW n \in Nat
    PROVE  Share(0, m) \o Share(m, n) = Share(0, m + n)
<1> DEFINE s == Share(0, m)
           t == Share(m, n)
           u == Share(0, m + n)
<1>1. m + n \in Nat  OBVIOUS
<1>2. /\ s \in Seq(Nat) /\ t \in Seq(Nat) /\ u \in Seq(Nat)
      /\ Len(s) = m /\ Len(t) = n /\ Len(u) = m + n
    BY <1>1, ShareType
<1>3. ASSUME NEW i \in 1..(m + n)
      PROVE  u[i] = IF i <= m THEN s[i] ELSE t[i - m]
    <2>1. CASE i <= m
        <3>1. i \in 1..m  BY <2>1
        <3> QED BY <2>1, <3>1 DEF Share, Take
    <2>2. CASE ~ (i <= m)
        <3>1. i - m \in 1..n  BY <2>2
        <3>2. m + (i - m) - 1 = 0 + i - 1  OBVIOUS
        <3> QED BY <2>2, <3>1, <3>2 DEF Share, Take
    <2> QED BY <2>1, <2>2
<1> HIDE DEF s, t, u
<1>4. /\ s \o t \in Seq(Nat) /\ Len(s \o t) = m + n
      /\ \A i \in 1..(m + n) : (s \o t)[i] = IF i <= m THEN s[i] ELSE t[i - m]
    BY <1>2, ConcatProperties
<1>5. s \o t = u  BY <1>2, <1>3, <1>4, SeqEqual
<1> QED BY <1>5 DEF s, t, u

\* Nothing is computed before the first forward.
LEMMA InitInv == StreamInit => StreamInv
<1> SUFFICES ASSUME StreamInit PROVE StreamInv  OBVIOUS
<1>1. Share(0, 0) = <<>>  BY ShareType
<1>2. computed = <<>> /\ Len(computed) = 0 /\ computed \in Seq(Nat)  BY DEF StreamInit
<1> QED BY <1>1, <1>2 DEF StreamInit, StreamInv

\* Each step moves at most one batch one place further.
LEMMA StepInv == StreamInv /\ [StreamNext]_streamVars => StreamInv'
<1> SUFFICES ASSUME StreamInv, [StreamNext]_streamVars PROVE StreamInv'  OBVIOUS
<1> USE DEF StreamInv, NextBatch
<1>1. CASE Asks
    <2>1. taken' \in Nat  BY <1>1, ConstantsType DEF Asks
    <2>2. gen' = "forward" /\ computed' = computed  BY <1>1 DEF Asks
    <2>3. asked' = Share(Len(computed), BatchSize) /\ taken' = Len(computed) + BatchSize
        <3>1. CASE pending # <<>>
            BY <1>1, <3>1 DEF Asks
        <3>2. CASE pending = <<>>
            <4>1. pending # Share(Len(computed), BatchSize)
                BY <3>2, ConstantsType, ShareType
            <4> QED BY <1>1, <3>2, <4>1 DEF Asks, Share
        <3> QED BY <3>1, <3>2
    <2> QED BY <2>1, <2>2, <2>3
<1>2. CASE Returns
    <2>1. /\ asked = Share(Len(computed), BatchSize) /\ taken = Len(computed) + BatchSize
          /\ computed' = computed \o asked /\ taken' = taken
          /\ gen' = "loop" /\ asked' = <<>> /\ pending' = <<>>
        BY <1>2 DEF Returns
    <2>2. asked \in Seq(Nat) /\ Len(asked) = BatchSize /\ BatchSize \in Nat
        BY <2>1, ConstantsType, ShareType
    <2>3. computed' \in Seq(Nat)  BY <2>1, <2>2, ConcatProperties
    <2>4. Len(computed') = Len(computed) + BatchSize
        <3>1. Len(computed \o asked) = Len(computed) + Len(asked)
            BY <2>2, ConcatProperties
        <3> QED BY <2>1, <2>2, <3>1
    <2>5. computed' = Share(0, Len(computed'))
        <3>1. Len(computed) \in Nat  OBVIOUS
        <3>2. Share(0, Len(computed)) \o Share(Len(computed), BatchSize)
                 = Share(0, Len(computed) + BatchSize)
            BY <2>2, <3>1, SharesJoin
        <3> QED BY <2>1, <2>4, <3>2
    <2> QED BY <2>1, <2>3, <2>4, <2>5
<1>3. CASE TimesOut
    BY <1>3 DEF TimesOut
<1>4. CASE Crashes
    BY <1>4 DEF Crashes
<1>5. CASE SenderStep
    BY <1>5 DEF SenderStep, Posts, Answered, WakesUp, SenderExits, SenderCancelled, genVars
<1>6. CASE Stop
    BY <1>6 DEF Stop, genVars
<1>7. CASE StopStep
    BY <1>7 DEF StopStep, GenCancelled, Clears, genVars
<1>8. CASE UNCHANGED streamVars
    BY <1>8 DEF streamVars, genVars
<1> QED BY <1>1, <1>2, <1>3, <1>4, <1>5, <1>6, <1>7, <1>8 DEF StreamNext, GenerationStep

\* The invariant says what is in flight; the property counts it.
LEMMA InvSkipsNothing == StreamInv => NoNonceSkipped
<1> SUFFICES ASSUME StreamInv PROVE NoNonceSkipped  OBVIOUS
<1>1. Len(computed) \in Nat  BY DEF StreamInv
<1>2. Len(Share(Len(computed), BatchSize)) = BatchSize  BY <1>1, ConstantsType, ShareType
<1>3. Share(Len(computed), BatchSize) # <<>>  BY <1>2, ConstantsType
<1>4. computed = Take(Node, Nodes, Group, Groups, 0, Len(computed))
    BY DEF StreamInv, Share
<1>5. ASSUME gen # "crashed", ~stopping
      PROVE  Len(computed) + (IF asked = <<>> THEN Len(pending) ELSE Len(asked)) = taken
    <2>1. CASE gen = "loop"
        BY <1>1, <1>2, <2>1 DEF StreamInv, NextBatch
    <2>2. CASE gen = "forward"
        BY <1>2, <1>3, <2>2 DEF StreamInv, NextBatch
    <2> QED BY <1>5, <2>1, <2>2 DEF StreamInv
<1> QED BY <1>4, <1>5 DEF NoNonceSkipped

----------------------------------------------------------------------------
\* The invariant holds in every behaviour of the mining loop and its sender.
LEMMA StreamInvariant == StreamSpec => []StreamInv
BY InitInv, StepInv, PTL DEF StreamSpec

\* Timeouts and retries neither skip nor repeat a nonce of the share (routes.py 400, 418).
THEOREM NothingSkipped == StreamSpec => []NoNonceSkipped
BY StreamInvariant, InvSkipsNothing, PTL

\* No nonce is computed twice in a round.
ComputedOnce ==
    \A i, j \in 1..Len(computed) : computed[i] = computed[j] => i = j

\* ... because positions of the share are distinct nonces (Disjoint).
THEOREM NothingTwice == StreamSpec => []ComputedOnce
<1>1. StreamInv => ComputedOnce
    <2> SUFFICES ASSUME StreamInv, NEW i \in 1..Len(computed), NEW j \in 1..Len(computed),
                        computed[i] = computed[j]
                 PROVE  i = j
        BY DEF ComputedOnce
    <2>1. Len(computed) \in Nat  BY DEF StreamInv
    <2>2. /\ computed[i] = Nonce(Node, Nodes, Group, Groups, 0 + i - 1)
          /\ computed[j] = Nonce(Node, Nodes, Group, Groups, 0 + j - 1)
        BY DEF StreamInv, Share, Take
    <2>3. 0 + i - 1 \in Nat /\ 0 + j - 1 \in Nat  BY <2>1
    <2>4. Nonce(Node, Nodes, Group, Groups, 0 + i - 1)
             = Nonce(Node, Nodes, Group, Groups, 0 + j - 1)
        BY <2>2
    <2>5. 0 + i - 1 = 0 + j - 1
        <3> DEFINE x == 0 + i - 1
                   y == 0 + j - 1
        <3>1. x \in Nat /\ y \in Nat  BY <2>3
        <3>2. Nonce(Node, Nodes, Group, Groups, x) = Nonce(Node, Nodes, Group, Groups, y)
            BY <2>4
        <3> HIDE DEF x, y
        <3>3. x = y  BY <3>1, <3>2, ConstantsType, Disjoint
        <3> QED BY <3>3 DEF x, y
    <2> QED BY <2>1, <2>5
<1> QED BY <1>1, StreamInvariant, PTL

----------------------------------------------------------------------------
(* The invariant of the artifacts: what holds them, in which order, and    *)
(* how often a payload went out.                                           *)

\* The nonce of this miner at a position, and the first one that has not been computed.
At(x) == Nonce(Node, Nodes, Group, Groups, x)
Edge == At(Len(computed))

Rising(s) == \A i, j \in 1..Len(s) : i < j => s[i] < s[j]
Below(S, T) == \A m \in S, n \in T : m < n

Held ==
    /\ taken <= MaxTaken
    /\ asked \in Seq(Nat) /\ Len(asked) \in {0, BatchSize} /\ Len(pending) \in {0, BatchSize}
    /\ buffer \in Seq(Nat) /\ Len(buffer) <= MaxArtifacts
    /\ payload \in Seq(Nat) /\ Len(payload) <= MaxArtifacts
    /\ received \in Seq(Seq(Nat))
    /\ {mined, overflowed, abandoned} \subseteq SUBSET Nat
    /\ sender \in {"loop", "posting", "backoff", "done"}
    /\ stopping \in BOOLEAN /\ attempt \in 0..MaxRetries
    /\ mined = Range(buffer) \union Range(payload) \union Arrived \union overflowed
               \union abandoned

\* What has been posted is older than what waits, which is older than what comes.
Ordered ==
    /\ Rising(buffer) /\ \A n \in mined : n < Edge
    /\ Below(Range(payload), Range(buffer))
    /\ \A i \in 1..Len(received) :
          /\ Below(Range(received[i]), Range(buffer))
          /\ received[i] = payload \/ Below(Range(received[i]), Range(payload))
    /\ \A i, j \in 1..Len(received) : i < j =>
          received[i] = received[j] \/ Below(Range(received[i]), Range(received[j]))

\* The posts with the same artifacts.
Copies(posts, s) == {j \in 1..Len(posts) : posts[j] = s}

\* An attempt makes one copy at most.
Counted ==
    /\ sender = "posting" => payload # <<>> /\ attempt # 0
    /\ payload # <<>> /\ sender \in {"loop", "backoff"} => attempt < MaxRetries
    /\ payload # <<>> =>
          Cardinality(Copies(received, payload)) + (IF sender = "posting" THEN 1 ELSE 0) <= attempt
    /\ \A i \in 1..Len(received) :
          received[i] # <<>> /\ Cardinality(Copies(received, received[i])) <= MaxRetries

ArtifactsInv == StreamInv /\ Held /\ Ordered /\ OldestOverflow /\ Counted

----------------------------------------------------------------------------
(* Operators of the stream.                                                *)

\* The smaller of two numbers.
LEMMA MinOf ==
    ASSUME NEW a \in Nat, NEW b \in Nat
    PROVE  LET m == Min({a, b}) IN m \in {a, b} /\ m <= a /\ m <= b
<1>1. \E m \in {a, b} : \A n \in {a, b} : m <= n
    <2>1. CASE a <= b  BY <2>1
    <2>2. CASE b <= a  BY <2>2
    <2> QED BY <2>1, <2>2
<1> QED BY <1>1 DEF Min

\* Kept drops from the front, and only what is above the cap.
LEMMA KeptIs ==
    ASSUME NEW s \in Seq(Nat)
    PROVE  \E k \in 0..Len(s) :
              /\ Kept(s) \in Seq(Nat) /\ Len(Kept(s)) = Len(s) - k
              /\ Len(Kept(s)) <= MaxArtifacts
              /\ k # 0 => Len(Kept(s)) = MaxArtifacts
              /\ \A i \in 1..Len(s) - k : Kept(s)[i] = s[k + i]
<1> DEFINE n == Min({MaxArtifacts, Len(s)})
           k == Len(s) - n
<1>1. MaxArtifacts \in Nat /\ Len(s) \in Nat  BY StreamAssumption
<1>2. n \in {MaxArtifacts, Len(s)} /\ n <= MaxArtifacts /\ n <= Len(s)  BY <1>1, MinOf
<1> HIDE DEF n
<1>3. n \in Nat /\ k \in 0..Len(s) /\ (k # 0 => n = MaxArtifacts)  BY <1>1, <1>2
<1>4. Kept(s) = SubSeq(s, k + 1, Len(s))
    <2>1. 1 + Len(s) - n = k + 1  BY <1>1, <1>3
    <2> QED BY <2>1 DEF Kept, n
<1> HIDE DEF k
<1>5. k + 1 \in Int /\ Len(s) \in Int /\ \A i \in k + 1 .. Len(s) : s[i] \in Nat
    BY <1>1, <1>3
<1>6. /\ Kept(s) \in Seq(Nat)
      /\ Len(Kept(s)) = IF k + 1 <= Len(s) THEN Len(s) - (k + 1) + 1 ELSE 0
      /\ \A i \in 1..Len(s) - (k + 1) + 1 : Kept(s)[i] = s[(k + 1) + i - 1]
    BY <1>4, <1>5, SubSeqProperties
<1>7. Len(Kept(s)) = Len(s) - k  BY <1>1, <1>3, <1>6
<1>8. \A i \in 1..Len(s) - k : Kept(s)[i] = s[k + i]
    <2> SUFFICES ASSUME NEW i \in 1..Len(s) - k PROVE Kept(s)[i] = s[k + i]  OBVIOUS
    <2>1. i \in 1..Len(s) - (k + 1) + 1 /\ (k + 1) + i - 1 = k + i  BY <1>1, <1>3
    <2> QED BY <1>6, <2>1
<1>9. Len(s) - k = n  BY <1>1, <1>3 DEF k
<1> QED BY <1>2, <1>3, <1>6, <1>7, <1>8, <1>9

\* F has what is left of the first 0, ..., Len(s) nonces.
RowsOf(F, n, s, lost) ==
    F = [i \in 0..n |-> IF i = 0 THEN <<>>
                        ELSE IF s[i] \in lost THEN F[i-1] ELSE Append(F[i-1], s[i])]

\* There is such a function for every length.
LEMMA RowsExist ==
    ASSUME NEW s, NEW lost
    PROVE  \A n \in Nat : \E F : RowsOf(F, n, s, lost)
<1> DEFINE T == {n \in Nat : \E F : RowsOf(F, n, s, lost)}
<1>1. 0 \in T
    <2> DEFINE F == [i \in 0..0 |-> <<>>]
    <2>1. RowsOf(F, 0, s, lost)  BY DEF RowsOf
    <2> QED BY <2>1
<1>2. ASSUME NEW n \in T PROVE n + 1 \in T
    <2>1. PICK F : RowsOf(F, n, s, lost)  OBVIOUS
    <2> DEFINE last == IF s[n + 1] \in lost THEN F[n] ELSE Append(F[n], s[n + 1])
               G == [i \in 0..n+1 |-> IF i = n + 1 THEN last ELSE F[i]]
    <2>2. ASSUME NEW i \in 0..n+1
          PROVE  G[i] = IF i = 0 THEN <<>>
                        ELSE IF s[i] \in lost THEN G[i-1] ELSE Append(G[i-1], s[i])
        <3>1. CASE i = 0
            <4>1. G[0] = F[0] /\ F[0] = <<>>  BY <2>1 DEF RowsOf
            <4> QED BY <3>1, <4>1
        <3>2. CASE i \in 1..n
            <4>1. G[i] = F[i] /\ G[i-1] = F[i-1] /\ i \in 0..n /\ i # 0  BY <3>2
            <4> HIDE DEF G
            <4> QED BY <2>1, <4>1 DEF RowsOf
        <3>3. CASE i = n + 1
            <4>1. G[i] = last /\ G[i-1] = F[n] /\ i # 0  BY <3>3
            <4> QED BY <3>3, <4>1
        <3> QED BY <3>1, <3>2, <3>3
    <2>3. G = [i \in 0..n+1 |-> IF i = 0 THEN <<>>
                                ELSE IF s[i] \in lost THEN G[i-1] ELSE Append(G[i-1], s[i])]
        <3>1. G = [i \in 0..n+1 |-> G[i]]  OBVIOUS
        <3> HIDE DEF G
        <3> QED BY <2>2, <3>1
    <2>4. RowsOf(G, n + 1, s, lost)  BY <2>3 DEF RowsOf
    <2> QED BY <2>4
<1>3. T = Nat
    <2> HIDE DEF T
    <2>1. T \in SUBSET Nat  BY DEF T
    <2> QED BY <1>1, <1>2, <2>1, Induct
<1> QED BY <1>3

\* Rows leaves what is not lost, in its order.
LEMMA RowsIs ==
    ASSUME NEW s \in Seq(Nat), NEW lost, Rising(s)
    PROVE  /\ Rows(s, lost) \in Seq(Nat) /\ Rising(Rows(s, lost))
           /\ Range(Rows(s, lost)) = Range(s) \ lost
<1> DEFINE F == CHOOSE F : RowsOf(F, Len(s), s, lost)
<1>0. Len(s) \in Nat  OBVIOUS
<1>1. RowsOf(F, Len(s), s, lost)  BY <1>0, RowsExist
<1>2. Rows(s, lost) = F[Len(s)]  BY DEF Rows, RowsOf
<1> HIDE DEF F
<1> DEFINE Left(n) == {s[i] : i \in 1..n} \ lost
           Good(n) == /\ F[n] \in Seq(Nat) /\ Rising(F[n])
                      /\ {F[n][i] : i \in 1..Len(F[n])} = Left(n)
           T == {n \in Nat : n <= Len(s) => Good(n)}
<1>3. 0 \in T
    <2>1. F[0] = <<>>  BY <1>0, <1>1 DEF RowsOf
    <2>2. <<>> \in Seq(Nat) /\ Len(<<>>) = 0  OBVIOUS
    <2>3. Left(0) = {}  OBVIOUS
    <2>4. Good(0)  BY <2>1, <2>2, <2>3 DEF Rising
    <2> QED BY <2>4
<1>4. ASSUME NEW n \in T PROVE n + 1 \in T
    <2> HIDE DEF Good
    <2> SUFFICES ASSUME n + 1 <= Len(s) PROVE Good(n + 1)  OBVIOUS
    <2>0. n \in Nat /\ n <= Len(s) /\ Good(n)  BY <1>0
    <2> USE DEF Good
    <2> DEFINE f == F[n]
               x == s[n + 1]
               g == F[n + 1]
    <2>1. /\ f \in Seq(Nat) /\ Rising(f) /\ {f[i] : i \in 1..Len(f)} = Left(n)
          /\ Len(f) \in Nat
        <3>1. f \in Seq(Nat) /\ Rising(f) /\ {f[i] : i \in 1..Len(f)} = Left(n)  BY <2>0
        <3> HIDE DEF f, Left
        <3> QED BY <3>1
    <2>2. g = IF x \in lost THEN f ELSE Append(f, x)
        <3>1. n + 1 \in 0..Len(s) /\ n + 1 # 0 /\ (n + 1) - 1 = n  BY <1>0
        <3> QED BY <1>1, <3>1 DEF RowsOf
    <2>3. x \in Nat  BY <1>0
    <2>4. \A i \in 1..n + 1 : i \in 1..n \/ i = n + 1  OBVIOUS
    <2>5. CASE x \in lost
        <3>1. g = f  BY <2>2, <2>5
        <3>2. Left(n + 1) = Left(n)  BY <2>4, <2>5
        <3> HIDE DEF Left, f, g
        <3> QED BY <2>1, <3>1, <3>2 DEF f, g
    <2>6. CASE x \notin lost
        <3>1. g = Append(f, x)  BY <2>2, <2>6
        <3>2. Left(n + 1) = Left(n) \union {x}  BY <2>4, <2>6
        <3>3. \A m \in Left(n) : m < x
            <4> SUFFICES ASSUME NEW i \in 1..n PROVE s[i] < s[n + 1]  OBVIOUS
            <4>1. i \in 1..Len(s) /\ n + 1 \in 1..Len(s) /\ i < n + 1  BY <1>0
            <4> QED BY <4>1 DEF Rising
        <3> HIDE DEF Left, f, g, x
        <3>4. /\ g \in Seq(Nat) /\ Len(g) = Len(f) + 1 /\ g[Len(f) + 1] = x
              /\ \A i \in 1..Len(f) : g[i] = f[i]
            BY <2>1, <2>3, <3>1, AppendProperties
        <3>5. \A i \in 1..Len(g) : i \in 1..Len(f) \/ i = Len(f) + 1  BY <2>1, <3>4
        <3>6. {g[i] : i \in 1..Len(g)} = {f[i] : i \in 1..Len(f)} \union {x}
            <4>1. 1..Len(f) \subseteq 1..Len(g) /\ Len(f) + 1 \in 1..Len(g)  BY <2>1, <3>4
            <4> QED BY <3>4, <3>5, <4>1
        <3>7. Rising(g)
            <4> SUFFICES ASSUME NEW i \in 1..Len(g), NEW j \in 1..Len(g), i < j
                         PROVE  g[i] < g[j]
                BY DEF Rising
            <4>1. i \in 1..Len(f)  BY <2>1, <3>4
            <4>2. CASE j \in 1..Len(f)  BY <2>1, <3>4, <4>1, <4>2 DEF Rising
            <4>3. CASE j = Len(f) + 1
                <5>1. f[i] \in Left(n)  BY <2>1, <4>1
                <5> QED BY <3>3, <3>4, <4>1, <4>3, <5>1
            <4> QED BY <3>5, <4>2, <4>3
        <3> QED BY <2>1, <3>2, <3>4, <3>6, <3>7 DEF g
    <2> QED BY <2>5, <2>6
<1>5. T = Nat
    <2> HIDE DEF T
    <2>1. T \in SUBSET Nat  BY DEF T
    <2> QED BY <1>3, <1>4, <2>1, Induct
<1>6. Good(Len(s))
    <2> HIDE DEF Good
    <2> QED BY <1>0, <1>5
<1>7. Range(s) = {s[i] : i \in 1..Len(s)}  BY DEF Range
<1>8. Range(F[Len(s)]) = {F[Len(s)][i] : i \in 1..Len(F[Len(s)])}
    <2>1. F[Len(s)] \in Seq(Nat)  BY <1>6
    <2> QED BY <2>1 DEF Range
<1> QED BY <1>2, <1>6, <1>7, <1>8

\* Later positions of a share have greater nonces.
LEMMA NonceRises ==
    ASSUME NEW x \in Nat, NEW y \in Nat, x < y
    PROVE  At(x) \in Nat /\ At(y) \in Nat /\ At(x) < At(y)
<1> DEFINE k == Groups * Nodes
           b == Node + Group * Nodes
<1>0. /\ Nodes \in Nat \ {0} /\ Groups \in Nat \ {0} /\ Nodes \in Nat /\ Groups \in Nat
      /\ Node \in Nat /\ Group \in Nat
    BY ConstantsType
<1>1. k \in Nat /\ b \in Nat
    <2>1. Group * Nodes \in Nat /\ Groups * Nodes \in Nat  BY <1>0
    <2> QED BY <1>0, <2>1
<1>2. 1 <= k
    <2>1. 1 <= Groups  BY <1>0
    <2>2. 1 * Nodes <= Groups * Nodes  BY <1>0, <2>1, Monotone
    <2> QED BY <1>0, <1>1, <2>2
<1>3. At(x) = b + x * k /\ At(y) = b + y * k  BY DEF At, Nonce
<1> HIDE DEF k, b
<1>4. x * k \in Nat /\ y * k \in Nat  BY <1>1
<1>5. (x + 1) * k <= y * k  BY <1>1, Monotone
<1>6. (x + 1) * k = x * k + k  BY <1>1
<1> QED BY <1>1, <1>2, <1>3, <1>4, <1>5, <1>6

\* So a batch rises, from one edge to the next.
LEMMA ShareRises ==
    ASSUME NEW x \in Nat, NEW n \in Nat
    PROVE  /\ Rising(Share(x, n))
           /\ \A m \in Range(Share(x, n)) : m < At(x + n)
           /\ \A m \in Nat : m < At(x) => \A k \in Range(Share(x, n)) : m < k
<1>1. Share(x, n) \in Seq(Nat) /\ Len(Share(x, n)) = n  BY ShareType
<1>2. \A i \in 1..n : Share(x, n)[i] = At(x + i - 1)  BY DEF Share, Take, At
<1>3. Rising(Share(x, n))
    <2> SUFFICES ASSUME NEW i \in 1..n, NEW j \in 1..n, i < j
                 PROVE  Share(x, n)[i] < Share(x, n)[j]
        BY <1>1 DEF Rising
    <2>1. x + i - 1 \in Nat /\ x + j - 1 \in Nat /\ x + i - 1 < x + j - 1  OBVIOUS
    <2>2. At(x + i - 1) < At(x + j - 1)  BY <2>1, NonceRises
    <2> QED BY <1>2, <2>2
<1>4. ASSUME NEW i \in 1..n
      PROVE  /\ At(x + i - 1) < At(x + n) /\ At(x + i - 1) \in Nat
             /\ \A m \in Nat : m < At(x) => m < At(x + i - 1)
    <2>1. x + i - 1 \in Nat /\ x + n \in Nat /\ x + i - 1 < x + n  OBVIOUS
    <2>2. At(x + i - 1) < At(x + n) /\ At(x + i - 1) \in Nat  BY <2>1, NonceRises
    <2>3. CASE x = x + i - 1  BY <2>2, <2>3
    <2>4. CASE x < x + i - 1
        <3>1. At(x) \in Nat /\ At(x) < At(x + i - 1)  BY <2>1, <2>4, NonceRises
        <3> QED BY <2>2, <3>1
    <2>5. x = x + i - 1 \/ x < x + i - 1  OBVIOUS
    <2> QED BY <2>2, <2>3, <2>4, <2>5
<1>5. \A m \in Range(Share(x, n)) : \E i \in 1..n : m = At(x + i - 1)
    BY <1>1, <1>2 DEF Range
<1> QED BY <1>3, <1>4, <1>5

\* A rising sequence with a greater one behind it.
LEMMA ConcatRises ==
    ASSUME NEW s \in Seq(Nat), NEW t \in Seq(Nat), Rising(s), Rising(t),
           Below(Range(s), Range(t))
    PROVE  /\ s \o t \in Seq(Nat) /\ Rising(s \o t)
           /\ Range(s \o t) = Range(s) \union Range(t)
<1> DEFINE u == s \o t
           m == Len(s)
           n == Len(t)
<1>1. /\ m \in Nat /\ n \in Nat /\ u \in Seq(Nat) /\ Len(u) = m + n
      /\ \A i \in 1..m + n : u[i] = IF i <= m THEN s[i] ELSE t[i - m]
    BY ConcatProperties
<1>2. /\ DOMAIN s = 1..m /\ DOMAIN t = 1..n
      /\ \A i \in 1..m : s[i] \in Nat
      /\ \A i \in 1..n : t[i] \in Nat
    OBVIOUS
<1> HIDE DEF u
<1>3. DOMAIN u = 1..m + n  BY <1>1
<1> HIDE DEF m, n
<1>4. /\ \A i \in 1..m : i \in 1..m + n /\ u[i] = s[i]
      /\ \A i \in 1..n : i + m \in 1..m + n /\ u[i + m] = t[i]
    <2>1. \A i \in 1..m : i \in 1..m + n /\ u[i] = s[i]  BY <1>1
    <2>2. ASSUME NEW i \in 1..n PROVE i + m \in 1..m + n /\ u[i + m] = t[i]
        <3>1. i + m \in 1..m + n /\ ~(i + m <= m) /\ (i + m) - m = i  BY <1>1
        <3> QED BY <1>1, <3>1
    <2> QED BY <2>1, <2>2
<1>5. \A i \in 1..m + n : i \in 1..m \/ \E j \in 1..n : i = j + m
    <2> SUFFICES ASSUME NEW i \in 1..m + n, i \notin 1..m PROVE \E j \in 1..n : i = j + m
        OBVIOUS
    <2>1. i - m \in 1..n /\ i = (i - m) + m  BY <1>1
    <2> QED BY <2>1
<1>6. Range(u) = Range(s) \union Range(t)
    <2>1. Range(u) \subseteq Range(s) \union Range(t)
        <3> SUFFICES ASSUME NEW i \in 1..m + n PROVE u[i] \in Range(s) \union Range(t)
            BY <1>3 DEF Range
        <3>1. CASE i \in 1..m  BY <1>2, <1>4, <3>1 DEF Range
        <3>2. CASE i \notin 1..m
            <4>1. PICK j \in 1..n : i = j + m  BY <1>5, <3>2
            <4> QED BY <1>2, <1>4, <4>1 DEF Range
        <3> QED BY <3>1, <3>2
    <2>2. Range(s) \subseteq Range(u)  BY <1>2, <1>3, <1>4 DEF Range
    <2>3. Range(t) \subseteq Range(u)  BY <1>2, <1>3, <1>4 DEF Range
    <2> QED BY <2>1, <2>2, <2>3
<1>7. Rising(u)
    <2> SUFFICES ASSUME NEW i \in 1..m + n, NEW j \in 1..m + n, i < j PROVE u[i] < u[j]
        BY <1>1 DEF Rising
    <2>1. CASE j \in 1..m
        <3>1. i \in 1..m  BY <1>1, <2>1
        <3> QED BY <1>4, <2>1, <3>1 DEF Rising, m
    <2>2. CASE i \in 1..m /\ j \notin 1..m
        <3>1. PICK k \in 1..n : j = k + m  BY <1>5, <2>2
        <3>2. s[i] \in Range(s) /\ t[k] \in Range(t)  BY <1>2, <2>2 DEF Range
        <3>3. s[i] < t[k]  BY <3>2 DEF Below
        <3> QED BY <1>4, <2>2, <3>1, <3>3
    <2>3. CASE i \notin 1..m /\ j \notin 1..m
        <3>1. PICK k \in 1..n : j = k + m  BY <1>5, <2>3
        <3>2. PICK h \in 1..n : i = h + m  BY <1>5, <2>3
        <3>3. h < k  BY <1>1, <3>1, <3>2
        <3>4. t[h] < t[k]  BY <3>3 DEF Rising, n
        <3> QED BY <1>4, <3>1, <3>2, <3>4
    <2> QED BY <2>1, <2>2, <2>3
<1> QED BY <1>1, <1>6, <1>7 DEF u

\* A rising sequence has as many values as places.
LEMMA RisingCount ==
    ASSUME NEW s \in Seq(Nat), Rising(s)
    PROVE  IsFiniteSet(Range(s)) /\ Cardinality(Range(s)) = Len(s)
<1>1. Len(s) \in Nat /\ DOMAIN s = 1..Len(s)  OBVIOUS
<1>2. \A i, j \in 1..Len(s) : s[i] = s[j] => i = j
    <2> SUFFICES ASSUME NEW i \in 1..Len(s), NEW j \in 1..Len(s), s[i] = s[j] PROVE i = j
        OBVIOUS
    <2>1. s[i] \in Nat /\ s[j] \in Nat  OBVIOUS
    <2>2. ~(i < j) /\ ~(j < i)  BY <2>1 DEF Rising
    <2> QED BY <2>2
<1>3. s \in [1..Len(s) -> Range(s)]  BY <1>1 DEF Range
<1>4. \A n \in Range(s) : \E i \in 1..Len(s) : s[i] = n  BY <1>1 DEF Range
<1>5. s \in Bijection(1..Len(s), Range(s))  BY <1>2, <1>3, <1>4, Fun_IsBij
<1>6. ExistsBijection(1..Len(s), Range(s))  BY <1>5 DEF ExistsBijection
<1>7. IsFiniteSet(1..Len(s)) /\ Cardinality(1..Len(s)) = Len(s)
    <2>1. PICK n \in Nat : n = Len(s)  BY <1>1
    <2>2. IsFiniteSet(1..n) /\ Cardinality(1..n) = IF 1 > n THEN 0 ELSE n - 1 + 1
        BY FS_Interval
    <2>3. (IF 1 > n THEN 0 ELSE n - 1 + 1) = n  OBVIOUS
    <2> QED BY <2>1, <2>2, <2>3
<1> QED BY <1>6, <1>7, FS_Bijection

\* What Kept drops is older than MaxArtifacts others that stay.
LEMMA KeptNewest ==
    ASSUME NEW s \in Seq(Nat), Rising(s)
    PROVE  /\ Kept(s) \in Seq(Nat) /\ Len(Kept(s)) <= MaxArtifacts /\ Rising(Kept(s))
           /\ Range(Kept(s)) \subseteq Range(s)
           /\ \A n \in Range(s) \ Range(Kept(s)) :
                 /\ \A m \in Range(Kept(s)) : n < m
                 /\ Cardinality(Range(Kept(s))) = MaxArtifacts
<1>0. Len(s) \in Nat /\ DOMAIN s = 1..Len(s)  OBVIOUS
<1> DEFINE t == Kept(s)
<1>1. PICK k \in 0..Len(s) :
          /\ t \in Seq(Nat) /\ Len(t) = Len(s) - k /\ Len(t) <= MaxArtifacts
          /\ k # 0 => Len(t) = MaxArtifacts
          /\ \A i \in 1..Len(s) - k : t[i] = s[k + i]
    BY KeptIs
<1> HIDE DEF t
<1>2. DOMAIN t = 1..Len(s) - k  BY <1>1
<1>3. \A i \in 1..Len(s) - k : k + i \in 1..Len(s)  BY <1>0
<1>4. Rising(t)
    <2> SUFFICES ASSUME NEW i \in 1..Len(s) - k, NEW j \in 1..Len(s) - k, i < j
                 PROVE  s[k + i] < s[k + j]
        BY <1>1 DEF Rising
    <2>1. k + i < k + j  OBVIOUS
    <2> QED BY <1>3, <2>1 DEF Rising
<1>5. Range(t) \subseteq Range(s)  BY <1>0, <1>1, <1>2, <1>3 DEF Range
<1>6. ASSUME NEW n \in Range(s) \ Range(t)
      PROVE  (\A m \in Range(t) : n < m) /\ Cardinality(Range(t)) = MaxArtifacts
    <2>1. PICK i \in 1..Len(s) : n = s[i]  BY <1>0 DEF Range
    <2>2. i <= k
        <3> SUFFICES ASSUME ~(i <= k) PROVE FALSE  OBVIOUS
        <3>1. i - k \in 1..Len(s) - k /\ k + (i - k) = i  BY <1>0
        <3>2. t[i - k] = n  BY <1>1, <2>1, <3>1
        <3> QED BY <1>2, <3>1, <3>2 DEF Range
    <2>3. ASSUME NEW m \in Range(t) PROVE n < m
        <3>1. PICK j \in 1..Len(s) - k : m = t[j]  BY <1>2 DEF Range
        <3>2. m = s[k + j] /\ k + j \in 1..Len(s) /\ i < k + j  BY <1>1, <1>3, <2>2, <3>1
        <3> QED BY <2>1, <3>2 DEF Rising
    <2>4. k # 0  BY <2>2
    <2>5. Cardinality(Range(t)) = MaxArtifacts  BY <1>1, <1>4, <2>4, RisingCount
    <2> QED BY <2>3, <2>5
<1> QED BY <1>1, <1>4, <1>5, <1>6 DEF t

\* One more post that arrived.
LEMMA ArrivedGrows ==
    ASSUME received \in Seq(Seq(Nat)), NEW p \in Seq(Nat), received' = Append(received, p)
    PROVE  /\ received' \in Seq(Seq(Nat)) /\ Len(received') = Len(received) + 1
           /\ \A i \in 1..Len(received) : received'[i] = received[i]
           /\ received'[Len(received) + 1] = p
           /\ Arrived' = Arrived \union Range(p)
           /\ \A i \in 1..Len(received') : i \in 1..Len(received) \/ i = Len(received) + 1
           /\ Len(received) \in Nat /\ Len(received) + 1 \in 1..Len(received')
<1> DEFINE n == Len(received)
<1>1. /\ received' \in Seq(Seq(Nat)) /\ Len(received') = n + 1
      /\ \A i \in 1..n : received'[i] = received[i]
      /\ received'[n + 1] = p
    BY AppendProperties
<1>2. n \in Nat /\ DOMAIN received = 1..n /\ DOMAIN received' = 1..n + 1  BY <1>1
<1> HIDE DEF n
<1>3. \A i \in 1..n + 1 : i \in 1..n \/ i = n + 1  BY <1>2
<1>4. Arrived' = Arrived \union Range(p)
    <2>1. 1..n \subseteq 1..n + 1 /\ n + 1 \in 1..n + 1  BY <1>2
    <2>2. Arrived = UNION {Range(received[i]) : i \in 1..n}  BY <1>2 DEF Arrived
    <2>3. Arrived' = UNION {Range(received'[i]) : i \in 1..n + 1}  BY <1>2 DEF Arrived
    <2>4. ASSUME NEW x, x \in Arrived' PROVE x \in Arrived \union Range(p)
        <3>1. PICK i \in 1..n + 1 : x \in Range(received'[i])  BY <2>3, <2>4
        <3> QED BY <1>1, <1>3, <2>2, <3>1
    <2>5. ASSUME NEW x, x \in Arrived \union Range(p) PROVE x \in Arrived'
        <3>1. CASE x \in Arrived
            <4>1. PICK i \in 1..n : x \in Range(received[i])  BY <2>2, <3>1
            <4> QED BY <1>1, <2>1, <2>3, <4>1
        <3>2. CASE x \in Range(p)  BY <1>1, <2>1, <2>3, <3>2
        <3> QED BY <2>5, <3>1, <3>2
    <2> QED BY <2>4, <2>5
<1> QED BY <1>1, <1>2, <1>3, <1>4 DEF n

----------------------------------------------------------------------------
(* The steps.                                                              *)

\* There are finitely many artifacts below an edge.
LEMMA BelowFinite ==
    ASSUME NEW S \in SUBSET Nat, NEW x \in Nat, \A n \in S : n < At(x)
    PROVE  IsFiniteSet(S)
<1>1. x + 1 \in Nat /\ x < x + 1  OBVIOUS
<1>2. At(x) \in Nat  BY <1>1, NonceRises
<1>3. \A n \in S : n <= At(x)  BY <1>2
<1> QED BY <1>2, <1>3, FS_BoundedSetOfNaturals

\* What has been posted, or is being posted, has been mined.
LEMMA PostedMined ==
    ASSUME Held
    PROVE  /\ Range(buffer) \subseteq mined /\ Range(payload) \subseteq mined
           /\ \A i \in 1..Len(received) : Range(received[i]) \subseteq mined
<1>1. DOMAIN received = 1..Len(received)  BY DEF Held
<1> QED BY <1>1 DEF Held, Arrived

\* The generation task moves its nonces, or ends.
LEMMA GenerationKeeps ==
    ASSUME ArtifactsInv, StreamInv',
           Asks \/ TimesOut \/ Crashes \/ Stop \/ GenCancelled
    PROVE  ArtifactsInv'
<1> USE DEF ArtifactsInv
<1>1. UNCHANGED <<buffer, payload, attempt, sender, received, computed, mined, overflowed,
                  abandoned>>
    BY DEF Asks, TimesOut, Crashes, Stop, GenCancelled, genVars, sendVars
<1>2. <<>> \in Seq(Nat) /\ Len(<<>>) = 0  OBVIOUS
<1>3. /\ taken' <= MaxTaken /\ stopping' \in BOOLEAN
      /\ asked' \in Seq(Nat) /\ Len(asked') \in {0, BatchSize}
      /\ Len(pending') \in {0, BatchSize}
    <2>1. CASE Asks
        <3>1. gen' = "forward" /\ pending' = pending /\ stopping' = stopping
            BY <2>1 DEF Asks
        <3>2. asked' = Share(Len(computed), BatchSize)
            BY <1>1, <3>1 DEF StreamInv, NextBatch
        <3>3. Len(computed) \in Nat  BY DEF StreamInv
        <3>4. asked' \in Seq(Nat) /\ Len(asked') = BatchSize
            BY <3>2, <3>3, ConstantsType, ShareType
        <3>5. taken' <= MaxTaken  BY <2>1 DEF Asks, Held
        <3> QED BY <3>1, <3>4, <3>5 DEF Held
    <2>2. CASE TimesOut  BY <1>2, <2>2 DEF TimesOut, Held
    <2>3. CASE Crashes  BY <1>2, <2>3 DEF Crashes, Held
    <2>4. CASE Stop  BY <2>4 DEF Stop, Held, genVars
    <2>5. CASE GenCancelled  BY <1>2, <2>5 DEF GenCancelled, Held
    <2> QED BY <2>1, <2>2, <2>3, <2>4, <2>5
<1>4. Arrived' = Arrived  BY <1>1 DEF Arrived
<1>5. Held'  BY <1>1, <1>3, <1>4 DEF Held
<1>6. Ordered'  BY <1>1 DEF Ordered, Edge, Rising, Below
<1>7. OldestOverflow' /\ Counted'  BY <1>1 DEF OldestOverflow, Counted
<1> QED BY <1>5, <1>6, <1>7

\* A forward returns: its rows are newer than anything that was mined before.
LEMMA ReturnsKeeps ==
    ASSUME ArtifactsInv, StreamInv', Returns
    PROVE  ArtifactsInv'
<1> USE DEF ArtifactsInv
<1> DEFINE x == Len(computed)
<1>1. /\ x \in Nat /\ BatchSize \in Nat /\ BatchSize # 0
      /\ asked = Share(x, BatchSize) /\ computed \in Seq(Nat)
    BY ConstantsType DEF Returns, StreamInv, NextBatch
<1>2. PICK lost \in SUBSET Range(asked) :
          LET all == buffer \o Rows(asked, lost) IN
          /\ buffer' = Kept(all)
          /\ overflowed' = overflowed \union (Range(all) \ Range(Kept(all)))
          /\ mined' = mined \union (Range(asked) \ lost)
    BY DEF Returns
<1>3. /\ computed' = computed \o asked /\ pending' = <<>> /\ asked' = <<>>
      /\ UNCHANGED <<taken, stopping, payload, attempt, sender, received, abandoned>>
    BY DEF Returns, sendVars
<1> DEFINE rows == Rows(asked, lost)
           all == buffer \o rows
<1>4. asked \in Seq(Nat) /\ Len(asked) = BatchSize /\ Rising(asked)
    BY <1>1, ShareType, ShareRises
<1>5. /\ \A m \in Range(asked) : m < At(x + BatchSize)
      /\ \A m \in Nat : m < At(x) => \A k \in Range(asked) : m < k
    BY <1>1, ShareRises
<1>6. rows \in Seq(Nat) /\ Rising(rows) /\ Range(rows) = Range(asked) \ lost
    BY <1>4, RowsIs
<1>7. /\ buffer \in Seq(Nat) /\ Rising(buffer) /\ mined \in SUBSET Nat
      /\ \A m \in mined : m < At(x)
    BY DEF Held, Ordered, Edge
<1>8. /\ Range(buffer) \subseteq mined /\ Range(payload) \subseteq mined
      /\ \A i \in 1..Len(received) : Range(received[i]) \subseteq mined
    BY PostedMined
<1> HIDE DEF rows, x
<1>9. \A m \in mined, k \in Range(asked) : m < k  BY <1>5, <1>7
<1>10. Below(Range(buffer), Range(rows))  BY <1>6, <1>8, <1>9 DEF Below
<1>11. /\ all \in Seq(Nat) /\ Rising(all) /\ Range(all) = Range(buffer) \union Range(rows)
    BY <1>6, <1>7, <1>10, ConcatRises
<1>12. /\ buffer' = Kept(all) /\ mined' = mined \union Range(rows)
       /\ overflowed' = overflowed \union (Range(all) \ Range(Kept(all)))
    BY <1>2, <1>6 DEF rows
<1> HIDE DEF all
<1>13. /\ buffer' \in Seq(Nat) /\ Len(buffer') <= MaxArtifacts /\ Rising(buffer')
       /\ Range(buffer') \subseteq Range(all)
       /\ \A n \in Range(all) \ Range(buffer') :
             /\ \A m \in Range(buffer') : n < m
             /\ Cardinality(Range(buffer')) = MaxArtifacts
    BY <1>11, <1>12, KeptNewest
<1>14. mined' \in SUBSET Nat /\ overflowed' \in SUBSET Nat
    <2>1. Range(rows) \subseteq Nat /\ Range(all) \subseteq Nat
        BY <1>6, <1>11 DEF Range
    <2>2. overflowed \subseteq Nat  BY DEF Held
    <2> QED BY <1>7, <1>12, <2>1, <2>2
<1>15. Arrived' = Arrived  BY <1>3 DEF Arrived
<1>16. Held'
    <2>1. mined' = Range(buffer') \union Range(payload') \union Arrived' \union overflowed'
                   \union abandoned'
        <3>1. mined = Range(buffer) \union Range(payload) \union Arrived \union overflowed
                      \union abandoned
            BY DEF Held
        <3>2. Range(payload') = Range(payload) /\ abandoned' = abandoned  BY <1>3
        <3>3. overflowed' = overflowed \union (Range(all) \ Range(buffer'))  BY <1>12
        <3> QED BY <1>11, <1>12, <1>13, <1>15, <3>1, <3>2, <3>3
    <2>2. asked' \in Seq(Nat) /\ Len(asked') = 0 /\ Len(pending') = 0
        BY <1>3
    <2> QED BY <1>3, <1>13, <1>14, <2>1, <2>2 DEF Held
<1>17. Edge' = At(x + BatchSize)
    <2>1. Len(computed') = x + BatchSize
        BY <1>1, <1>3, <1>4, ConcatProperties DEF x
    <2> QED BY <2>1 DEF Edge, At
<1>18. \A n \in mined' : n < Edge'
    <2>1. x + BatchSize \in Nat /\ x < x + BatchSize  BY <1>1
    <2>2. At(x) \in Nat /\ At(x + BatchSize) \in Nat /\ At(x) < At(x + BatchSize)
        BY <1>1, <2>1, NonceRises
    <2>3. \A n \in mined : n \in Nat /\ n < At(x + BatchSize)  BY <1>7, <2>2
    <2>4. \A n \in Range(rows) : n < At(x + BatchSize)  BY <1>5, <1>6
    <2> QED BY <1>12, <1>17, <2>3, <2>4
<1>19. Ordered'
    <2>1. ASSUME NEW S, S \subseteq mined, Below(S, Range(buffer))
          PROVE  Below(S, Range(buffer'))
        BY <1>6, <1>9, <1>11, <1>13, <2>1 DEF Below
    <2>2. Below(Range(payload'), Range(buffer'))
        BY <1>3, <1>8, <2>1 DEF Ordered
    <2>3. \A i \in 1..Len(received') :
              /\ Below(Range(received'[i]), Range(buffer'))
              /\ received'[i] = payload' \/ Below(Range(received'[i]), Range(payload'))
        BY <1>3, <1>8, <2>1 DEF Ordered
    <2>4. \A i, j \in 1..Len(received') : i < j =>
              received'[i] = received'[j] \/ Below(Range(received'[i]), Range(received'[j]))
        BY <1>3 DEF Ordered
    <2> QED BY <1>13, <1>18, <2>2, <2>3, <2>4 DEF Ordered, Below, Rising
<1>20. OldestOverflow'
    <2> SUFFICES ASSUME NEW n \in overflowed'
                 PROVE  Cardinality({k \in mined' : k > n}) >= MaxArtifacts
        BY DEF OldestOverflow
    <2> DEFINE newer == {k \in mined' : k > n}
    <2>1. IsFiniteSet(mined')
        <3>1. x + BatchSize \in Nat  BY <1>1
        <3>2. \A m \in mined' : m < At(x + BatchSize)  BY <1>17, <1>18
        <3> QED BY <1>14, <3>1, <3>2, BelowFinite
    <2>2. newer \subseteq mined'  OBVIOUS
    <2>3. IsFiniteSet(newer)  BY <2>1, <2>2, FS_Subset
    <2>4. Cardinality(newer) \in Nat /\ MaxArtifacts \in Nat
        BY <2>3, FS_CardinalityType, StreamAssumption
    <2>5. CASE n \in overflowed
        <3> DEFINE before == {k \in mined : k > n}
        <3>1. before \subseteq newer  BY <1>12
        <3>2. Cardinality(before) >= MaxArtifacts  BY <2>5 DEF OldestOverflow
        <3> HIDE DEF before, newer
        <3>3. IsFiniteSet(before) /\ Cardinality(before) <= Cardinality(newer)
            BY <2>3, <3>1, FS_Subset
        <3>4. Cardinality(before) \in Nat  BY <3>3, FS_CardinalityType
        <3> QED BY <2>4, <3>2, <3>3, <3>4 DEF newer
    <2>6. CASE n \in Range(all) \ Range(buffer')
        <3>1. Range(buffer') \subseteq mined'  BY <1>8, <1>11, <1>12, <1>13
        <3>2. n \in Nat
            BY <1>14
        <3>3. \A m \in Range(buffer') : m \in Nat /\ n < m  BY <1>13, <1>14, <2>6, <3>1
        <3>4. Range(buffer') \subseteq newer  BY <3>1, <3>2, <3>3
        <3>5. Cardinality(Range(buffer')) = MaxArtifacts  BY <1>13, <2>6
        <3> HIDE DEF newer
        <3>6. Cardinality(Range(buffer')) <= Cardinality(newer)  BY <2>3, <3>4, FS_Subset
        <3> QED BY <2>4, <3>5, <3>6 DEF newer
    <2> QED BY <1>12, <2>5, <2>6
<1>21. Counted'  BY <1>3 DEF Counted
<1> QED BY <1>16, <1>19, <1>20, <1>21

\* The sender takes the whole buffer, or tries again.
LEMMA PostsKeeps ==
    ASSUME ArtifactsInv, StreamInv', Posts
    PROVE  ArtifactsInv'
<1> USE DEF ArtifactsInv
<1>1. /\ sender = "loop" /\ sender' = "posting"
      /\ UNCHANGED <<taken, pending, asked, gen, stopping, received, computed, mined,
                     overflowed, abandoned>>
    BY DEF Posts, genVars
<1>2. Arrived' = Arrived  BY <1>1 DEF Arrived
<1>3. <<>> \in Seq(Nat) /\ Len(<<>>) = 0 /\ Range(<<>>) = {}  BY DEF Range
<1>4. MaxRetries \in Nat /\ MaxRetries # 0 /\ MaxArtifacts \in Nat /\ attempt \in Nat
    BY StreamAssumption DEF Held
<1>5. CASE payload = <<>>
    <2>1. buffer # <<>> /\ payload' = buffer /\ buffer' = <<>> /\ attempt' = 1
        BY <1>5 DEF Posts
    <2>2. Held'  BY <1>1, <1>2, <1>3, <1>4, <1>5, <2>1 DEF Held
    <2>3. Ordered'
        <3>1. Rising(buffer') /\ Below(Range(payload'), Range(buffer'))
              /\ \A i \in 1..Len(received) : Below(Range(received[i]), Range(buffer'))
            BY <1>3, <2>1 DEF Rising, Below
        <3>2. \A i \in 1..Len(received) : Below(Range(received[i]), Range(payload'))
            BY <2>1 DEF Ordered
        <3> QED BY <1>1, <3>1, <3>2 DEF Ordered, Edge, Below
    <2>4. Copies(received, buffer) = {}
        <3> SUFFICES ASSUME NEW j \in 1..Len(received), received[j] = buffer PROVE FALSE
            BY DEF Copies
        <3>1. buffer \in Seq(Nat)  BY DEF Held
        <3>2. 1 \in DOMAIN buffer /\ buffer[1] \in Nat  BY <2>1, <3>1
        <3>3. buffer[1] \in Range(buffer)  BY <3>2 DEF Range
        <3>4. Below(Range(buffer), Range(buffer))  BY DEF Ordered
        <3>5. buffer[1] < buffer[1]  BY <3>3, <3>4 DEF Below
        <3> QED BY <3>2, <3>5
    <2>5. Cardinality(Copies(received', payload')) = 0  BY <1>1, <2>1, <2>4, FS_EmptySet
    <2>6. Counted'  BY <1>1, <2>1, <2>5 DEF Counted
    <2>7. OldestOverflow'  BY <1>1 DEF OldestOverflow
    <2> QED BY <2>2, <2>3, <2>6, <2>7
<1>6. CASE payload # <<>>
    <2>1. attempt' = attempt + 1 /\ UNCHANGED <<buffer, payload>>  BY <1>6 DEF Posts
    <2>2. attempt < MaxRetries /\ Cardinality(Copies(received, payload)) + 0 <= attempt
        BY <1>1, <1>6 DEF Counted
    <2>3. attempt' \in 0..MaxRetries /\ attempt' # 0  BY <1>4, <2>1, <2>2
    <2>4. Held'  BY <1>1, <1>2, <2>1, <2>3 DEF Held
    <2>5. Ordered'  BY <1>1, <2>1 DEF Ordered, Edge, Rising, Below
    <2>6. Counted'
        <3>1. Cardinality(Copies(received, payload)) \in Int
            <4>1. IsFiniteSet(1..Len(received))
                <5>1. Len(received) \in Nat  BY DEF Held
                <5> QED BY <5>1, FS_Interval
            <4>2. Copies(received, payload) \subseteq 1..Len(received)  BY DEF Copies
            <4>3. IsFiniteSet(Copies(received, payload))  BY <4>1, <4>2, FS_Subset
            <4> QED BY <4>3, FS_CardinalityType
        <3>2. Cardinality(Copies(received', payload')) + 1 <= attempt'
            BY <1>1, <1>4, <2>1, <2>2, <3>1
        <3> QED BY <1>1, <1>6, <2>1, <2>3, <3>2 DEF Counted
    <2>7. OldestOverflow'  BY <1>1 DEF OldestOverflow
    <2> QED BY <2>4, <2>5, <2>6, <2>7
<1> QED BY <1>5, <1>6

\* A post arrives or does not; it stands behind what has arrived before.
LEMMA PostMade ==
    ASSUME ArtifactsInv, sender = "posting",
           received' = received \/ received' = Append(received, payload),
           payload' = payload \/ payload' = <<>>,
           UNCHANGED <<buffer, computed, mined>>
    PROVE  /\ received' \in Seq(Seq(Nat)) /\ Ordered'
           /\ Arrived' = Arrived \union (IF received' = received THEN {} ELSE Range(payload))
           /\ Cardinality(Copies(received', payload)) <= attempt
           /\ \A i \in 1..Len(received') :
                 received'[i] # <<>> /\ Cardinality(Copies(received', received'[i])) <= MaxRetries
<1> USE DEF ArtifactsInv
<1>0. /\ received \in Seq(Seq(Nat)) /\ payload \in Seq(Nat) /\ payload # <<>>
      /\ attempt \in 0..MaxRetries /\ attempt # 0 /\ MaxRetries \in Nat
    BY StreamAssumption DEF Held, Counted
<1>1. Cardinality(Copies(received, payload)) + 1 <= attempt  BY <1>0 DEF Counted
<1>2. \A i \in 1..Len(received) :
          /\ received[i] # <<>> /\ Cardinality(Copies(received, received[i])) <= MaxRetries
          /\ received[i] = payload \/ Below(Range(received[i]), Range(payload))
    BY DEF Ordered, Counted
<1>3. IsFiniteSet(Copies(received, payload))
      /\ Cardinality(Copies(received, payload)) \in Nat
    <2>1. Len(received) \in Nat  BY <1>0
    <2>2. IsFiniteSet(1..Len(received))  BY <2>1, FS_Interval
    <2>3. Copies(received, payload) \subseteq 1..Len(received)  BY DEF Copies
    <2>4. IsFiniteSet(Copies(received, payload))  BY <2>2, <2>3, FS_Subset
    <2> QED BY <2>4, FS_CardinalityType
<1>4. Range(<<>>) = {}  BY DEF Range
<1>5. CASE received' = received
    <2>1. Ordered'
        <3>1. \A S : Below(S, Range(payload)) => Below(S, Range(payload'))
            BY <1>4 DEF Below
        <3>2. Below(Range(payload'), Range(buffer))  BY <1>4 DEF Ordered, Below
        <3>3. \A i \in 1..Len(received) :
                  received[i] = payload' \/ Below(Range(received[i]), Range(payload'))
            <4>1. CASE payload' = payload  BY <1>2, <4>1
            <4>2. CASE payload' = <<>>  BY <1>4, <4>2 DEF Below
            <4> QED BY <4>1, <4>2
        <3> QED BY <1>5, <3>2, <3>3 DEF Ordered, Edge, Rising, Below
    <2>2. Arrived' = Arrived  BY <1>5 DEF Arrived
    <2>3. Cardinality(Copies(received', payload)) <= attempt  BY <1>0, <1>1, <1>3, <1>5
    <2> QED BY <1>0, <1>2, <1>5, <2>1, <2>2, <2>3
<1>6. CASE received' = Append(received, payload)
    <2> DEFINE n == Len(received)
    <2>1. /\ received' \in Seq(Seq(Nat)) /\ Len(received') = n + 1
          /\ \A i \in 1..n : received'[i] = received[i]
          /\ received'[n + 1] = payload
          /\ Arrived' = Arrived \union Range(payload)
          /\ \A i \in 1..Len(received') : i \in 1..n \/ i = n + 1
          /\ n \in Nat /\ n + 1 \in 1..Len(received')
        BY <1>0, <1>6, ArrivedGrows
    <2>2. received' # received  BY <2>1
    <2> HIDE DEF n
    <2>3. \A s : Copies(received', s) =
                     IF s = payload THEN Copies(received, s) \union {n + 1}
                     ELSE Copies(received, s)
        <3>1. \A j \in 1..n : j \in 1..n + 1  BY <2>1
        <3> QED BY <2>1, <3>1 DEF Copies, n
    <2>4. Cardinality(Copies(received', payload)) <= attempt
        <3> DEFINE old == Copies(received, payload)
                   new == Copies(received', payload)
        <3>1. new = old \union {n + 1}  BY <2>3
        <3>2. IsFiniteSet(old) /\ Cardinality(old) \in Nat /\ Cardinality(old) + 1 <= attempt
            BY <1>1, <1>3
        <3>3. attempt \in Nat  BY <1>0
        <3> HIDE DEF old, new
        <3>4. Cardinality(new) = IF n + 1 \in old THEN Cardinality(old) ELSE Cardinality(old) + 1
            BY <3>1, <3>2, FS_AddElement
        <3>5. Cardinality(new) <= attempt  BY <3>2, <3>3, <3>4
        <3> QED BY <3>5 DEF new
    <2>5. ASSUME NEW i \in 1..Len(received')
          PROVE  received'[i] # <<>>
                 /\ Cardinality(Copies(received', received'[i])) <= MaxRetries
        <3>1. CASE received'[i] = payload
            <4>1. Cardinality(Copies(received', payload)) \in Nat
                <5>1. IsFiniteSet(Copies(received, payload) \union {n + 1})
                    BY <1>3, FS_AddElement
                <5>2. Copies(received', payload) = Copies(received, payload) \union {n + 1}
                    BY <2>3
                <5> QED BY <5>1, <5>2, FS_CardinalityType
            <4>2. Cardinality(Copies(received', payload)) <= MaxRetries
                BY <1>0, <2>4, <4>1
            <4> QED BY <1>0, <3>1, <4>2
        <3>2. CASE received'[i] # payload
            <4>1. i \in 1..Len(received) /\ received'[i] = received[i]
                BY <2>1, <3>2 DEF n
            <4>2. Copies(received', received'[i]) = Copies(received, received[i])
                BY <2>3, <3>2, <4>1
            <4> QED BY <1>2, <4>1, <4>2
        <3> QED BY <3>1, <3>2
    <2>6. Ordered'
        <3>1. \A i \in 1..Len(received') :
                  received'[i] = payload \/ Below(Range(received'[i]), Range(payload))
            BY <1>2, <2>1 DEF n
        <3>2. \A i \in 1..Len(received') :
                  received'[i] = payload' \/ Below(Range(received'[i]), Range(payload'))
            <4>1. CASE payload' = payload  BY <3>1, <4>1
            <4>2. CASE payload' = <<>>  BY <1>4, <4>2 DEF Below
            <4> QED BY <4>1, <4>2
        <3>3. \A i \in 1..Len(received') : Below(Range(received'[i]), Range(buffer'))
            BY <2>1 DEF Ordered, n
        <3>4. Below(Range(payload'), Range(buffer'))  BY <1>4 DEF Ordered, Below
        <3>5. ASSUME NEW i \in 1..Len(received'), NEW j \in 1..Len(received'), i < j
              PROVE  received'[i] = received'[j]
                     \/ Below(Range(received'[i]), Range(received'[j]))
            <4>1. CASE j = n + 1  BY <2>1, <3>1, <4>1
            <4>2. CASE j \in 1..n
                <5>1. i \in 1..n  BY <2>1, <3>5, <4>2
                <5> QED BY <2>1, <3>5, <4>2, <5>1 DEF Ordered, n
            <4> QED BY <2>1, <4>1, <4>2
        <3>6. Rising(buffer') /\ \A m \in mined' : m < Edge'
            BY DEF Ordered, Edge, Rising
        <3> QED BY <3>2, <3>3, <3>4, <3>5, <3>6 DEF Ordered, Below, Rising
    <2> QED BY <2>1, <2>2, <2>4, <2>5, <2>6
<1> QED BY <1>5, <1>6

\* The post is answered, or not.
LEMMA AnsweredKeeps ==
    ASSUME ArtifactsInv, StreamInv', Answered
    PROVE  ArtifactsInv'
<1> USE DEF ArtifactsInv
<1>1. /\ sender = "posting"
      /\ UNCHANGED <<taken, pending, asked, gen, stopping, buffer, computed, mined, overflowed>>
    BY DEF Answered, genVars
<1>2. PICK arrived \in BOOLEAN, success \in BOOLEAN :
          LET done == success \/ attempt >= MaxRetries IN
          /\ success => arrived
          /\ received' = IF arrived THEN Append(received, payload) ELSE received
          /\ payload' = IF done THEN <<>> ELSE payload
          /\ attempt' = IF done THEN 0 ELSE attempt
          /\ abandoned' = IF done /\ ~success THEN abandoned \union Range(payload) ELSE abandoned
          /\ sender' = IF ~done THEN "backoff" ELSE IF stopping THEN "done" ELSE "loop"
    BY DEF Answered
<1>3. /\ received' = received \/ received' = Append(received, payload)
      /\ payload' = payload \/ payload' = <<>>
    BY <1>2
<1>4. /\ received' \in Seq(Seq(Nat)) /\ Ordered'
      /\ Arrived' = Arrived \union (IF received' = received THEN {} ELSE Range(payload))
      /\ Cardinality(Copies(received', payload)) <= attempt
      /\ \A i \in 1..Len(received') :
            received'[i] # <<>> /\ Cardinality(Copies(received', received'[i])) <= MaxRetries
    BY <1>1, <1>3, PostMade
<1>5. <<>> \in Seq(Nat) /\ Len(<<>>) = 0 /\ Range(<<>>) = {}  BY DEF Range
<1>6. /\ payload \in Seq(Nat) /\ attempt \in 0..MaxRetries /\ MaxRetries \in Nat
      /\ MaxArtifacts \in Nat /\ received \in Seq(Seq(Nat))
    BY StreamAssumption DEF Held
<1>7. Range(payload) \subseteq Nat /\ abandoned \subseteq Nat  BY <1>6 DEF Range, Held
<1>8. mined' = Range(buffer') \union Range(payload') \union Arrived' \union overflowed'
               \union abandoned'
    <2>1. mined = Range(buffer) \union Range(payload) \union Arrived \union overflowed
                  \union abandoned
        BY DEF Held
    <2>2. CASE success
        <3>1. payload' = <<>> /\ abandoned' = abandoned /\ received' = Append(received, payload)
            BY <1>2, <2>2
        <3>2. received' # received
            <4>1. Len(received') = Len(received) + 1 /\ Len(received) \in Nat
                BY <1>6, <3>1, AppendProperties
            <4> QED BY <4>1
        <3> QED BY <1>1, <1>4, <1>5, <2>1, <3>1, <3>2
    <2>3. CASE ~success /\ attempt >= MaxRetries
        <3>1. payload' = <<>> /\ abandoned' = abandoned \union Range(payload)
            BY <1>2, <2>3
        <3> QED BY <1>1, <1>4, <1>5, <2>1, <3>1
    <2>4. CASE ~success /\ ~(attempt >= MaxRetries)
        <3>1. payload' = payload /\ abandoned' = abandoned
            BY <1>2, <2>4
        <3> QED BY <1>1, <1>4, <1>5, <2>1, <3>1
    <2> QED BY <2>2, <2>3, <2>4
<1>9. Held'
    <2>1. /\ payload' \in Seq(Nat) /\ Len(payload') <= MaxArtifacts
          /\ attempt' \in 0..MaxRetries /\ abandoned' \in SUBSET Nat
          /\ sender' \in {"loop", "posting", "backoff", "done"}
        BY <1>2, <1>5, <1>6, <1>7 DEF Held
    <2> QED BY <1>1, <1>4, <1>8, <2>1 DEF Held
<1>10. OldestOverflow'  BY <1>1 DEF OldestOverflow
<1>11. Counted'
    <2>1. CASE success \/ attempt >= MaxRetries
        <3>1. payload' = <<>> /\ sender' # "posting"  BY <1>2, <2>1
        <3> QED BY <1>4, <3>1 DEF Counted
    <2>2. CASE ~(success \/ attempt >= MaxRetries)
        <3>1. payload' = payload /\ attempt' = attempt /\ sender' = "backoff"
              /\ attempt < MaxRetries
            BY <1>2, <1>6, <2>2
        <3>2. Cardinality(Copies(received', payload)) \in Int
            <4>1. Len(received') \in Nat  BY <1>4
            <4>2. Copies(received', payload) \subseteq 1..Len(received')  BY DEF Copies
            <4>3. IsFiniteSet(Copies(received', payload))
                <5>1. IsFiniteSet(1..Len(received'))  BY <4>1, FS_Interval
                <5> QED BY <4>2, <5>1, FS_Subset
            <4> QED BY <4>3, FS_CardinalityType
        <3>3. Cardinality(Copies(received', payload')) + 0 <= attempt'
            BY <1>4, <3>1, <3>2
        <3> QED BY <1>4, <3>1, <3>3 DEF Counted
    <2> QED BY <2>1, <2>2
<1> QED BY <1>4, <1>9, <1>10, <1>11

\* The sender wakes up, exits, is cancelled in a post, or its buffers are cleared.
LEMMA SenderEndsKeeps ==
    ASSUME ArtifactsInv, StreamInv', WakesUp \/ SenderExits \/ SenderCancelled \/ Clears
    PROVE  ArtifactsInv'
<1> USE DEF ArtifactsInv
<1>0. <<>> \in Seq(Nat) /\ Len(<<>>) = 0 /\ Range(<<>>) = {}  BY DEF Range
<1>1. /\ UNCHANGED <<taken, pending, asked, gen, stopping, attempt, computed, mined, overflowed>>
      /\ sender' \in {"loop", "done"}
    BY DEF WakesUp, SenderExits, SenderCancelled, Clears, genVars
<1>2. OldestOverflow'  BY <1>1 DEF OldestOverflow
<1>3. CASE WakesUp \/ SenderExits
    <2>1. UNCHANGED <<buffer, payload, received, abandoned>>
          /\ sender \in {"loop", "backoff"}
        BY <1>3 DEF WakesUp, SenderExits
    <2>2. Arrived' = Arrived  BY <2>1 DEF Arrived
    <2>3. Held'  BY <1>1, <2>1, <2>2 DEF Held
    <2>4. Ordered'  BY <1>1, <2>1 DEF Ordered, Edge, Rising, Below
    <2>5. Counted'  BY <1>1, <2>1 DEF Counted
    <2> QED BY <1>2, <2>3, <2>4, <2>5
<1>4. CASE SenderCancelled
    <2>1. /\ UNCHANGED <<buffer, payload, abandoned>> /\ sender = "posting" /\ sender' = "done"
          /\ received' = received \/ received' = Append(received, payload)
        BY <1>4 DEF SenderCancelled
    <2>2. /\ received' \in Seq(Seq(Nat)) /\ Ordered'
          /\ Arrived' = Arrived \union (IF received' = received THEN {} ELSE Range(payload))
          /\ Cardinality(Copies(received', payload)) <= attempt
          /\ \A i \in 1..Len(received') :
                received'[i] # <<>> /\ Cardinality(Copies(received', received'[i])) <= MaxRetries
        BY <1>1, <2>1, PostMade
    <2>3. mined' = Range(buffer') \union Range(payload') \union Arrived' \union overflowed'
                   \union abandoned'
        BY <1>1, <2>1, <2>2 DEF Held
    <2>4. Held'  BY <1>1, <2>1, <2>2, <2>3 DEF Held
    <2>5. Counted'
        <3>1. Cardinality(Copies(received', payload)) \in Int
            <4>1. Len(received') \in Nat  BY <2>2
            <4>2. Copies(received', payload) \subseteq 1..Len(received')  BY DEF Copies
            <4>3. IsFiniteSet(Copies(received', payload))
                <5>1. IsFiniteSet(1..Len(received'))  BY <4>1, FS_Interval
                <5> QED BY <4>2, <5>1, FS_Subset
            <4> QED BY <4>3, FS_CardinalityType
        <3>2. Cardinality(Copies(received', payload')) + 0 <= attempt'
            BY <1>1, <2>1, <2>2, <3>1
        <3> QED BY <2>1, <2>2, <3>2 DEF Counted
    <2> QED BY <1>2, <2>2, <2>4, <2>5
<1>5. CASE Clears
    <2>1. /\ buffer' = <<>> /\ payload' = <<>> /\ received' = received /\ sender' # "posting"
          /\ abandoned' = abandoned \union Range(buffer) \union Range(payload)
        BY <1>5 DEF Clears
    <2>2. Arrived' = Arrived  BY <2>1 DEF Arrived
    <2>3. mined' = Range(buffer') \union Range(payload') \union Arrived' \union overflowed'
                   \union abandoned'
        BY <1>0, <1>1, <2>1, <2>2 DEF Held
    <2>4. abandoned' \in SUBSET Nat  BY <2>1 DEF Held, Range
    <2>5. MaxArtifacts \in Nat  BY StreamAssumption
    <2>6. Held'  BY <1>0, <1>1, <2>1, <2>3, <2>4, <2>5 DEF Held
    <2>7. Ordered'  BY <1>0, <1>1, <2>1 DEF Ordered, Edge, Rising, Below
    <2>8. Counted'  BY <2>1 DEF Counted
    <2> QED BY <1>2, <2>6, <2>7, <2>8
<1> QED BY <1>3, <1>4, <1>5

----------------------------------------------------------------------------

\* The invariant holds in every behaviour.
LEMMA ArtifactsInvariant == StreamSpec => []ArtifactsInv
<1>1. StreamInit => ArtifactsInv
    <2> SUFFICES ASSUME StreamInit PROVE ArtifactsInv  OBVIOUS
    <2> USE DEF StreamInit
    <2>1. <<>> \in Seq(Nat) /\ <<>> \in Seq(Seq(Nat)) /\ Len(<<>>) = 0 /\ Range(<<>>) = {}
        BY DEF Range
    <2>2. {MaxTaken, MaxArtifacts, MaxRetries} \subseteq Nat \ {0}  BY StreamAssumption
    <2>3. Arrived = {}  BY <2>1 DEF Arrived
    <2>4. Held
        <3>1. mined = Range(buffer) \union Range(payload) \union Arrived \union overflowed
                      \union abandoned
            BY <2>1, <2>3
        <3>2. {mined, overflowed, abandoned} \subseteq SUBSET Nat  OBVIOUS
        <3>3. /\ taken <= MaxTaken /\ Len(buffer) <= MaxArtifacts /\ Len(payload) <= MaxArtifacts
              /\ attempt \in 0..MaxRetries
            BY <2>1, <2>2
        <3> QED BY <2>1, <3>1, <3>2, <3>3 DEF Held
    <2>5. Ordered /\ Counted  BY <2>1 DEF Ordered, Counted, Rising, Below
    <2>6. OldestOverflow  BY DEF OldestOverflow
    <2> QED BY <2>4, <2>5, <2>6, InitInv DEF ArtifactsInv
<1>2. ArtifactsInv /\ [StreamNext]_streamVars => ArtifactsInv'
    <2> SUFFICES ASSUME ArtifactsInv, [StreamNext]_streamVars PROVE ArtifactsInv'  OBVIOUS
    <2>1. StreamInv'  BY StepInv DEF ArtifactsInv
    <2>2. CASE Asks \/ TimesOut \/ Crashes \/ Stop \/ GenCancelled
        BY <2>1, <2>2, GenerationKeeps
    <2>3. CASE Returns  BY <2>1, <2>3, ReturnsKeeps
    <2>4. CASE Posts  BY <2>1, <2>4, PostsKeeps
    <2>5. CASE Answered  BY <2>1, <2>5, AnsweredKeeps
    <2>6. CASE WakesUp \/ SenderExits \/ SenderCancelled \/ Clears
        BY <2>1, <2>6, SenderEndsKeeps
    <2>7. CASE UNCHANGED streamVars
        <3>1. /\ UNCHANGED <<taken, pending, asked, stopping, buffer, payload, attempt, sender>>
              /\ UNCHANGED <<received, computed, mined, overflowed, abandoned>>
            BY <2>7 DEF streamVars, genVars, sendVars
        <3>2. Arrived' = Arrived  BY <3>1 DEF Arrived
        <3>3. Held'  BY <3>1, <3>2 DEF ArtifactsInv, Held
        <3>4. Ordered'  BY <3>1 DEF ArtifactsInv, Ordered, Edge, Rising, Below
        <3>5. OldestOverflow' /\ Counted'  BY <3>1 DEF ArtifactsInv, OldestOverflow, Counted
        <3> QED BY <2>1, <3>3, <3>4, <3>5 DEF ArtifactsInv
    <2> QED BY <2>2, <2>3, <2>4, <2>5, <2>6, <2>7
            DEF StreamNext, GenerationStep, SenderStep, StopStep
<1> QED BY <1>1, <1>2, PTL DEF StreamSpec

\* Types, for any cap and any number of attempts: the buffer and the payload in retry each
\* stay within the cap (callbacks.py 54).
THEOREM StreamTypeCorrect == StreamSpec => []StreamTypeOK
<1>1. ArtifactsInv => StreamTypeOK
    <2> SUFFICES ASSUME ArtifactsInv PROVE StreamTypeOK  OBVIOUS
    <2>1. taken \in Nat /\ gen \in {"loop", "forward", "crashed", "cancelled"}
        BY DEF ArtifactsInv, StreamInv
    <2>2. MaxTaken \in Nat  BY StreamAssumption
    <2> QED BY <2>1, <2>2 DEF ArtifactsInv, Held, StreamTypeOK
<1> QED BY <1>1, ArtifactsInvariant, PTL

\* An artifact that has been mined is held, has reached the orchestrator, fell out at the
\* cap, where MaxArtifacts newer ones were mined, or was given up, and the buffer holds none that has been posted, however many
\* forwards time out and posts or their answers are lost (callbacks.py 48-128).
THEOREM NothingVanishes == StreamSpec => []ArtifactsAccounted
<1>1. ArtifactsInv => ArtifactsAccounted
    <2> SUFFICES ASSUME ArtifactsInv PROVE ArtifactsAccounted  OBVIOUS
    <2>1. ASSUME NEW x \in Range(buffer), x \in Arrived PROVE FALSE
        <3>1. DOMAIN received = 1..Len(received) /\ buffer \in Seq(Nat)
            BY DEF ArtifactsInv, Held
        <3>2. PICK i \in 1..Len(received) : x \in Range(received[i])
            BY <2>1, <3>1 DEF Arrived
        <3>3. x < x  BY <2>1, <3>2 DEF ArtifactsInv, Ordered, Below
        <3>4. x \in Nat  BY <2>1, <3>1 DEF Range
        <3> QED BY <3>3, <3>4
    <2>2. Range(buffer) \intersect Arrived = {}  BY <2>1
    <2> QED BY <2>2 DEF ArtifactsInv, Held, ArtifactsAccounted
<1> QED BY <1>1, ArtifactsInvariant, PTL

\* Posts arrive in the order of their nonces; one arrives at most once for each of its
\* attempts, and no other comes between (callbacks.py 78-128).
THEOREM PostsInOrder == StreamSpec => []PostsOrdered
<1>1. ArtifactsInv => PostsOrdered
    <2> SUFFICES ASSUME ArtifactsInv PROVE PostsOrdered  OBVIOUS
    <2>1. DOMAIN received = 1..Len(received)  BY DEF ArtifactsInv, Held
    <2>2. \A i, j \in DOMAIN received : i < j =>
              \/ received[i] = received[j]
              \/ \A m \in Range(received[i]), n \in Range(received[j]) : m < n
        BY <2>1 DEF ArtifactsInv, Ordered, Below
    <2>3. \A i \in DOMAIN received :
              Cardinality({j \in DOMAIN received : received[j] = received[i]}) <= MaxRetries
        BY <2>1 DEF ArtifactsInv, Counted, Copies
    <2> QED BY <2>2, <2>3 DEF PostsOrdered
<1> QED BY <1>1, ArtifactsInvariant, PTL
=============================================================================
