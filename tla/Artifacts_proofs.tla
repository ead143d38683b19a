-------------------------- MODULE Artifacts_proofs --------------------------
(***************************************************************************)
(* Theorems about Artifacts, for any files, messages and senders, and any  *)
(* number of writes, commands, faults and crashes.                         *)
(***************************************************************************)
EXTENDS Artifacts, FiniteSetTheorems, SequenceTheorems, TLAPS

----------------------------------------------------------------------------
(* Sets of numbers in order.                                               *)

Below(S, a) == {b \in S : b < a}

LEMMA RankBound ==
  ASSUME NEW S \in SUBSET Nat, IsFiniteSet(S), NEW a \in S
  PROVE  /\ Cardinality(S) \in Nat
         /\ Cardinality(Below(S, a)) \in 0..(Cardinality(S) - 1)
<1>1. IsFiniteSet(S \ {a}) /\ Cardinality(S \ {a}) = Cardinality(S) - 1
  BY FS_RemoveElement
<1>2. Below(S, a) \in SUBSET (S \ {a})
  BY DEF Below
<1>3. IsFiniteSet(Below(S, a)) /\ Cardinality(Below(S, a)) <= Cardinality(S \ {a})
  BY <1>1, <1>2, FS_Subset
<1> QED
  BY <1>1, <1>3, FS_CardinalityType

LEMMA RanksDiffer ==
  ASSUME NEW S \in SUBSET Nat, IsFiniteSet(S), NEW a \in S, NEW b \in S, a < b
  PROVE  Cardinality(Below(S, a)) < Cardinality(Below(S, b))
<1>1. IsFiniteSet(Below(S, b)) /\ Cardinality(Below(S, b)) \in Nat
  <2>1. Below(S, b) \in SUBSET S
    BY DEF Below
  <2> QED
    BY <2>1, FS_Subset, FS_CardinalityType
<1>2. Below(S, a) \in SUBSET Below(S, b) /\ Below(S, a) # Below(S, b)
  <2>1. a \in Below(S, b) /\ a \notin Below(S, a)
    BY DEF Below
  <2>2. \A c \in Below(S, a) : c \in Below(S, b)
    BY DEF Below
  <2> QED
    BY <2>1, <2>2
<1>3. IsFiniteSet(Below(S, a)) /\ Cardinality(Below(S, a)) <= Cardinality(Below(S, b))
      /\ Cardinality(Below(S, a)) # Cardinality(Below(S, b))
  BY <1>1, <1>2, FS_Subset
<1> QED
  BY <1>1, <1>3, FS_CardinalityType

LEMMA RanksAreHit ==
  ASSUME NEW S \in SUBSET Nat, IsFiniteSet(S), NEW n \in 0..(Cardinality(S) - 1)
  PROVE  \E a \in S : Cardinality(Below(S, a)) = n
<1> SUFFICES ASSUME \A a \in S : Cardinality(Below(S, a)) # n PROVE FALSE
  OBVIOUS
<1> DEFINE T == (0..(Cardinality(S) - 1)) \ {n}
<1> DEFINE f == [a \in S |-> Cardinality(Below(S, a))]
<1>0. Cardinality(S) \in Nat
  BY FS_CardinalityType
<1>1. IsFiniteSet(T) /\ Cardinality(T) < Cardinality(S)
  <2>1. IsFiniteSet(0..(Cardinality(S) - 1)) /\ Cardinality(0..(Cardinality(S) - 1)) = Cardinality(S)
    BY <1>0, FS_Interval
  <2>2. IsFiniteSet(T) /\ Cardinality(T) = Cardinality(S) - 1
    BY <2>1, FS_RemoveElement, ZenonT(60)
  <2> QED
    BY <1>0, <2>2
<1>2. f \in [S -> T]
  BY RankBound
<1>3. PICK x, y \in S : x # y /\ f[x] = f[y]
  <2> HIDE DEF T, f
  <2> QED
    BY <1>1, <1>2, FS_PigeonHole
<1>4. x < y \/ y < x
  BY <1>3
<1>5. CASE x < y
  BY <1>0, <1>3, <1>5, RanksDiffer, RankBound
<1>6. CASE y < x
  BY <1>0, <1>3, <1>6, RanksDiffer, RankBound
<1> QED
  BY <1>4, <1>5, <1>6

\* InOrder lists a set: each member once, and nothing else.
LEMMA InOrderLists ==
  ASSUME NEW S \in SUBSET Nat, IsFiniteSet(S)
  PROVE  /\ InOrder(S) \in Seq(S)
         /\ Len(InOrder(S)) = Cardinality(S)
         /\ ToSet(InOrder(S)) = S
         /\ \A i, k \in DOMAIN InOrder(S) : InOrder(S)[i] = InOrder(S)[k] => i = k
         /\ InOrder(S) = << >> => S = {}
<1>0. Cardinality(S) \in Nat
  BY FS_CardinalityType
<1>1. \A n \in 1..Cardinality(S) : InOrder(S)[n] \in S /\ Cardinality(Below(S, InOrder(S)[n])) = n - 1
  <2> SUFFICES ASSUME NEW n \in 1..Cardinality(S)
               PROVE  InOrder(S)[n] \in S /\ Cardinality(Below(S, InOrder(S)[n])) = n - 1
    OBVIOUS
  <2>1. n - 1 \in 0..(Cardinality(S) - 1)
    BY <1>0
  <2>2. \E a \in S : Cardinality(Below(S, a)) = n - 1
    BY <2>1, RanksAreHit
  <2>3. InOrder(S)[n] = CHOOSE a \in S : Cardinality(Below(S, a)) = n - 1
    BY DEF InOrder, Below
  <2> QED
    BY <2>2, <2>3
<1>2. DOMAIN InOrder(S) = 1..Cardinality(S) /\ InOrder(S) \in [1..Cardinality(S) -> S]
  BY <1>1 DEF InOrder
<1>3. InOrder(S) \in Seq(S)
  BY <1>0, <1>2, SeqDef
<1>4. Len(InOrder(S)) = Cardinality(S)
  BY <1>0, <1>2, <1>3, LenProperties
<1>5. \A i, k \in DOMAIN InOrder(S) : InOrder(S)[i] = InOrder(S)[k] => i = k
  <2> HIDE DEF InOrder
  <2> SUFFICES ASSUME NEW i \in 1..Cardinality(S), NEW k \in 1..Cardinality(S), InOrder(S)[i] = InOrder(S)[k]
               PROVE  i = k
    BY <1>2
  <2>1. i - 1 = k - 1
    BY <1>1
  <2> QED
    BY <1>0, <2>1
<1>6. ToSet(InOrder(S)) = S
  <2>1. ToSet(InOrder(S)) \subseteq S
    BY <1>2 DEF ToSet
  <2>2. ASSUME NEW a \in S PROVE \E n \in 1..Cardinality(S) : InOrder(S)[n] = a
    <3> DEFINE n == Cardinality(Below(S, a)) + 1
    <3>1. n \in 1..Cardinality(S) /\ n - 1 = Cardinality(Below(S, a))
      BY <1>0, RankBound
    <3>2. PICK b \in S : b = InOrder(S)[n] /\ Cardinality(Below(S, b)) = Cardinality(Below(S, a))
      BY <1>1, <3>1
    <3>3. Cardinality(Below(S, a)) \in Nat
      BY <1>0, RankBound
    <3>4. ~(a < b)
      BY <3>2, <3>3, RanksDiffer
    <3>5. ~(b < a)
      BY <3>2, <3>3, RanksDiffer
    <3>6. a \in Nat /\ b \in Nat
      OBVIOUS
    <3>7. a = b
      BY <3>4, <3>5, <3>6
    <3> QED
      BY <3>1, <3>2, <3>7
  <2> QED
    BY <1>2, <2>1, <2>2 DEF ToSet
<1>7. InOrder(S) = << >> => S = {}
  BY <1>6 DEF ToSet
<1> QED
  BY <1>3, <1>4, <1>5, <1>6, <1>7

LEMMA MaxIsMember ==
  ASSUME NEW S \in SUBSET Nat, IsFiniteSet(S), S # {}
  PROVE  Max(S) \in S
<1>0. Cardinality(S) \in Nat \ {0}
  BY FS_CardinalityType, FS_EmptySet
<1>1. PICK a \in S : Cardinality(Below(S, a)) = Cardinality(S) - 1
  BY <1>0, RanksAreHit
<1>2. \A b \in S : a >= b
  <2> SUFFICES ASSUME NEW b \in S, a < b PROVE FALSE
    OBVIOUS
  <2> QED
    BY <1>0, <1>1, RanksDiffer, RankBound
<1> QED
  BY <1>2 DEF Max

LEMMA MinIsLeast ==
  ASSUME NEW S \in SUBSET Nat, IsFiniteSet(S), S # {}
  PROVE  Min(S) \in S /\ \A b \in S : Min(S) <= b
<1>0. Cardinality(S) \in Nat \ {0}
  BY FS_CardinalityType, FS_EmptySet
<1>1. PICK a \in S : Cardinality(Below(S, a)) = 0
  BY <1>0, RanksAreHit
<1>2. \A b \in S : a =< b
  <2> SUFFICES ASSUME NEW b \in S, b < a PROVE FALSE
    OBVIOUS
  <2> QED
    BY <1>0, <1>1, RanksDiffer, RankBound
<1> QED
  BY <1>2 DEF Min

----------------------------------------------------------------------------
(* Types.                                                                  *)

Modes == {None, "turn", "recovered", "terminal", "direct", "send", "startup"}
Stands == {"rest", "turn", "generate", "stage", "recent", "text", "files", "send", "mark", "speak", "boot"}
ArtSet == [kind : Kinds, path : Paths \cup {None}, source : {"automatic", "telegram", "mcp"},
           ver : 0..MaxWrites, delivered : BOOLEAN, tries : Nat, quarantined : BOOLEAN,
           got : Nat, known : BOOLEAN, dropped : BOOLEAN, shared : BOOLEAN]
\* The jobs possible while there are n artifacts.
JobSet(n) == [how : Modes, pc : Stands,
              task : Tasks \cup {0}, want : SUBSET Request,
              held : [Branches -> Seq(1..n)], todo : Seq(1..n), round : 0..5,
              second : BOOLEAN, bad : SUBSET (0..n), owed : SUBSET (0..n),
              named : SUBSET Paths, since : SUBSET Paths]

ArtsTyped   == arts \in Seq(ArtSet)
JobsTyped   == job \in [Procs -> JobSet(Len(arts))]
MadeTyped   == made \in [Tasks -> SUBSET (1..Len(arts))]
RowTyped    == row \in [Tasks -> {"pending", "processing", "completed", "failed"}]
AnswerTyped == answer \in [Tasks -> [given : BOOLEAN, inline : SUBSET Images, named : SUBSET Paths,
                                     since : SUBSET Paths, seen : [Paths -> 0..MaxWrites]]]
\* A file has as many versions as it was written.
FileTyped   == /\ file \in [Paths -> 0..MaxWrites] /\ writes \in 0..MaxWrites
               /\ \A p \in Paths : file[p] <= writes
\* Whoever marks has the file in hand.
MarkHolds   == \A p \in Procs : job[p].pc = "mark" => job[p].todo # <<>>
Typed == ArtsTyped /\ JobsTyped /\ MadeTyped /\ RowTyped /\ AnswerTyped /\ FileTyped /\ MarkHolds

LEMMA TypedIsTypeOK == ASSUME Typed PROVE TypeOK
<1>1. Ids = 1..Len(arts) /\ Ids \cup {0} = 0..Len(arts)
  <2>1. Len(arts) \in Nat /\ DOMAIN arts = 1..Len(arts)
    BY LenProperties DEF Typed, ArtsTyped
  <2> QED
    BY <2>1 DEF Ids
<1>2. /\ file \in [Paths -> 0..MaxWrites] /\ arts \in Seq(ArtSet) 
      /\ row \in [Tasks -> {"pending", "processing", "completed", "failed"}]
      /\ job \in [Procs -> JobSet(Len(arts))]
      /\ made \in [Tasks -> SUBSET Ids]
  BY <1>1 DEF Typed, ArtsTyped, JobsTyped, MadeTyped, RowTyped, FileTyped
<1>3. job \in [Procs -> [how : Modes, pc : Stands,
              task : Tasks \cup {0}, want : SUBSET Request,
              held : [Branches -> Seq(Ids)], todo : Seq(Ids), round : 0..5,
              second : BOOLEAN, bad : SUBSET (Ids \cup {0}), owed : SUBSET (Ids \cup {0}),
              named : SUBSET Paths, since : SUBSET Paths]]
  BY <1>1, <1>2 DEF JobSet
<1> QED
  BY <1>2, <1>3 DEF Typed, AnswerTyped, TypeOK, ArtSet, Modes, Stands

LEMMA Bounds ==
  /\ MaxWrites \in Nat /\ MaxOps \in Nat /\ MaxFaults \in Nat /\ MaxCrashes \in Nat
  /\ GiveUp \in Nat /\ Tasks \subseteq Nat \ {0} /\ None \notin Paths
  /\ "worker" \in Procs /\ Procs \subseteq {"worker", "terminal", "chat", "ctl"}
BY ArtifactsAssumption DEF Procs

\* What a sequence of numbers up to n holds is also one of numbers up to m.
LEMMA JobsGrow ==
  ASSUME NEW n \in Nat, NEW m \in Nat, n <= m
  PROVE  JobSet(n) \subseteq JobSet(m)
<1>1. 1..n \subseteq 1..m /\ 0..n \subseteq 0..m
  OBVIOUS
<1>2. Seq(1..n) \subseteq Seq(1..m)
  BY <1>1, SeqMonotonic
<1>3. [Branches -> Seq(1..n)] \subseteq [Branches -> Seq(1..m)]
  BY <1>2
<1>4. SUBSET (0..n) \subseteq SUBSET (0..m)
  BY <1>1
<1> HIDE <1>1
<1>5. ASSUME NEW j \in JobSet(n) PROVE j \in JobSet(m)
  <2>1. j.held \in [Branches -> Seq(1..m)] /\ j.todo \in Seq(1..m) /\ j.bad \in SUBSET (0..m) /\ j.owed \in SUBSET (0..m)
    BY <1>2, <1>3, <1>4 DEF JobSet
  <2> QED
    BY <2>1 DEF JobSet
<1> QED
  BY <1>5

----------------------------------------------------------------------------
(* What the operations on the store do.                                    *)

LEMMA IdsAre ==
  ASSUME ArtsTyped
  PROVE  /\ Len(arts) \in Nat /\ Ids = 1..Len(arts) /\ arts \in [Ids -> ArtSet]
         /\ Ids \in SUBSET Nat /\ IsFiniteSet(Ids) /\ Ids \cup {0} = 0..Len(arts)
         /\ Len(arts) + 1 \in Nat /\ Len(arts) + 1 \notin Ids /\ 0 \notin Ids
<1>1. Len(arts) \in Nat /\ DOMAIN arts = 1..Len(arts) /\ arts \in [1..Len(arts) -> ArtSet]
  BY LenProperties DEF ArtsTyped
<1>2. IsFiniteSet(1..Len(arts))
  BY <1>1, FS_Interval
<1> QED
  BY <1>1, <1>2 DEF Ids

\* A change of some artifacts keeps how many there are.
LEMMA SameLength ==
  ASSUME ArtsTyped, NEW s \in [Ids -> ArtSet]
  PROVE  s \in Seq(ArtSet) /\ Len(s) = Len(arts) /\ DOMAIN s = Ids
<1>1. s \in Seq(ArtSet)
  BY IdsAre, SeqDef
<1>2. DOMAIN s = 1..Len(s) /\ Len(s) \in Nat
  BY <1>1, LenProperties
<1> QED
  BY <1>1, <1>2, IdsAre

LEMMA MarkedArts ==
  ASSUME ArtsTyped, NEW a \in Ids
  PROVE  /\ MarkDelivered(a) \in [Ids -> ArtSet]
         /\ MarkDelivered(a)[a] = [arts[a] EXCEPT !.delivered = TRUE, !.tries = 0, !.quarantined = FALSE]
         /\ \A b \in Ids : b # a => MarkDelivered(a)[b] = arts[b]
<1>1. arts \in [Ids -> ArtSet]
  BY IdsAre
<1>2. [arts[a] EXCEPT !.delivered = TRUE, !.tries = 0, !.quarantined = FALSE] \in ArtSet
  BY <1>1 DEF ArtSet
<1>3. MarkDelivered(a) = [arts EXCEPT ![a] = [arts[a] EXCEPT !.delivered = TRUE, !.tries = 0, !.quarantined = FALSE]]
  BY DEF MarkDelivered
<1> HIDE DEF Ids
<1> QED
  BY <1>1, <1>2, <1>3

LEMMA ToldArts ==
  ASSUME ArtsTyped, NEW S
  PROVE  /\ Tell(S) \in [Ids -> ArtSet]
         /\ \A b \in Ids : /\ Tell(S)[b] = [arts[b] EXCEPT !.known = arts[b].known \/ b \in S]
                           /\ Tell(S)[b].known <=> (arts[b].known \/ b \in S)
                           /\ b \notin S => Tell(S)[b] = arts[b]
<1>1. arts \in [Ids -> ArtSet]
  BY IdsAre
<1> DEFINE v(a) == [arts[a] EXCEPT !.known = arts[a].known \/ a \in S]
<1>2. Tell(S) = [a \in Ids |-> v(a)]
  BY DEF Tell
<1> HIDE DEF Ids
<1>3. ASSUME NEW b \in Ids
      PROVE  /\ v(b) \in ArtSet
             /\ v(b).known <=> (arts[b].known \/ b \in S)
             /\ b \notin S => v(b) = arts[b]
  <2>1. arts[b] \in ArtSet
    BY <1>1
  <2> DEFINE k == arts[b].known \/ b \in S
  <2>2. k \in BOOLEAN
    OBVIOUS
  <2>3. b \notin S => k = arts[b].known
    <3>1. arts[b].known \in BOOLEAN
      BY <2>1 DEF ArtSet
    <3> QED
      BY <3>1
  <2> HIDE DEF k
  <2>4. [arts[b] EXCEPT !.known = k] \in ArtSet /\ [arts[b] EXCEPT !.known = k].known = k
        /\ (k = arts[b].known => [arts[b] EXCEPT !.known = k] = arts[b])
    BY <2>1, <2>2 DEF ArtSet
  <2> QED
    BY <2>3, <2>4 DEF k
<1>4. Tell(S) \in [Ids -> ArtSet] /\ \A b \in Ids : Tell(S)[b] = v(b)
  <2> HIDE DEF v
  <2> QED
    BY <1>2, <1>3
<1>5. \A b \in Ids : Tell(S)[b] = [arts[b] EXCEPT !.known = arts[b].known \/ b \in S]
  BY <1>4, Zenon
<1> HIDE DEF v
<1> QED
  BY <1>3, <1>4, <1>5, Zenon

LEMMA SharedArts ==
  ASSUME ArtsTyped, NEW S
  PROVE  /\ Share(S) \in [Ids -> ArtSet]
         /\ \A b \in Ids :
              /\ Share(S)[b] = [arts[b] EXCEPT !.shared = arts[b].shared \/ (b \in S /\ b \in InHand)]
              /\ Share(S)[b].shared <=> (arts[b].shared \/ (b \in S /\ b \in InHand))
<1>1. arts \in [Ids -> ArtSet]
  BY IdsAre
<1> DEFINE v(a) == [arts[a] EXCEPT !.shared = arts[a].shared \/ (a \in S /\ a \in InHand)]
<1>2. Share(S) = [a \in Ids |-> v(a)]
  BY DEF Share
<1> HIDE DEF Ids, InHand
<1>3. ASSUME NEW b \in Ids
      PROVE  /\ v(b) \in ArtSet
             /\ v(b).shared
                  <=> (arts[b].shared \/ (b \in S /\ b \in InHand))
  <2>1. arts[b] \in ArtSet
    BY <1>1
  <2> DEFINE k == arts[b].shared \/ (b \in S /\ b \in InHand)
  <2>2. k \in BOOLEAN
    OBVIOUS
  <2> HIDE DEF k
  <2>4. [arts[b] EXCEPT !.shared = k] \in ArtSet /\ [arts[b] EXCEPT !.shared = k].shared = k
    BY <2>1, <2>2 DEF ArtSet
  <2> QED
    BY <2>4 DEF k
<1>4. Share(S) \in [Ids -> ArtSet] /\ \A b \in Ids : Share(S)[b] = v(b)
  <2> HIDE DEF v
  <2> QED
    BY <1>2, <1>3
<1>5. \A b \in Ids : Share(S)[b] = [arts[b] EXCEPT !.shared = arts[b].shared \/ (b \in S /\ b \in InHand)]
  BY <1>4, Zenon
<1> HIDE DEF v
<1> QED
  BY <1>3, <1>4, <1>5, Zenon

\* A delivery that fails, of a sender that tries only once (once), that is
\* bridgectl (asked) or the terminal lane (logs).
FailedArts(a, once, asked, logs) ==
  [RecordFailure(a, once) EXCEPT ![a].known = @ \/ asked,
                                 ![a].dropped = @ \/ (RecordFailure(a, once)[a].quarantined /\ logs)]

LEMMA FailuresRecorded ==
  ASSUME ArtsTyped, NEW a \in Ids, NEW once \in BOOLEAN, NEW asked \in BOOLEAN, NEW logs \in BOOLEAN
  PROVE  /\ FailedArts(a, once, asked, logs) \in [Ids -> ArtSet]
         /\ \A b \in Ids : b # a => FailedArts(a, once, asked, logs)[b] = arts[b]
         /\ LET x == arts[a]
                y == FailedArts(a, once, asked, logs)[a] IN
              /\ y.kind = x.kind /\ y.path = x.path /\ y.source = x.source
              /\ y.got = x.got /\ y.delivered = x.delivered /\ y.shared = x.shared
              /\ x.quarantined => y.quarantined
              /\ x.known => y.known
              /\ x.dropped => y.dropped
              /\ asked => y.known
              /\ logs /\ y.quarantined => y.dropped
<1>1. arts \in [Ids -> ArtSet] /\ arts[a] \in ArtSet
  BY IdsAre
<1> DEFINE q == arts[a].quarantined \/ once \/ arts[a].tries + 1 >= GiveUp
<1> DEFINE k == arts[a].known \/ asked
<1> DEFINE d == arts[a].dropped \/ (q /\ logs)
<1> DEFINE r == [arts[a] EXCEPT !.tries = @ + 1, !.quarantined = q]
<1> DEFINE y == [r EXCEPT !.known = k, !.dropped = d]
<1>2. q \in BOOLEAN /\ k \in BOOLEAN /\ d \in BOOLEAN
  OBVIOUS
<1>3. RecordFailure(a, once) = [arts EXCEPT ![a] = r]
  BY DEF RecordFailure
<1>4. r.quarantined = q /\ r.known = arts[a].known /\ r.dropped = arts[a].dropped
  <2> HIDE DEF q
  <2> QED
    BY <1>1 DEF ArtSet
<1>5. RecordFailure(a, once)[a] = r
  <2> HIDE DEF r
  <2> QED
    BY <1>1, <1>3
<1>6. FailedArts(a, once, asked, logs) = [arts EXCEPT ![a] = y]
  <2> HIDE DEF r
  <2>1. RecordFailure(a, once)[a].quarantined = q
    BY <1>4, <1>5
  <2>2. FailedArts(a, once, asked, logs)
          = [[arts EXCEPT ![a] = r] EXCEPT ![a].known = @ \/ asked, ![a].dropped = @ \/ (q /\ logs)]
    BY <1>3, <2>1 DEF FailedArts
  <2>3. [[arts EXCEPT ![a] = r] EXCEPT ![a].known = @ \/ asked, ![a].dropped = @ \/ (q /\ logs)]
          = [arts EXCEPT ![a] = [r EXCEPT !.known = r.known \/ asked, !.dropped = r.dropped \/ (q /\ logs)]]
    <3> HIDE DEF q
    <3> QED
      BY <1>1
  <2> QED
    BY <2>2, <2>3, <1>4
<1>7. /\ y \in ArtSet /\ y.quarantined = q /\ y.known = k /\ y.dropped = d
      /\ y.kind = arts[a].kind /\ y.path = arts[a].path /\ y.source = arts[a].source
      /\ y.got = arts[a].got /\ y.delivered = arts[a].delivered /\ y.shared = arts[a].shared
  <2> HIDE DEF q, k, d
  <2> DEFINE n == arts[a].tries + 1
  <2>1. n \in Nat
    BY <1>1 DEF ArtSet
  <2> HIDE DEF n
  <2>2. [arts[a] EXCEPT !.tries = n, !.quarantined = q] \in ArtSet
    BY <1>1, <1>2, <2>1 DEF ArtSet
  <2>3. r = [arts[a] EXCEPT !.tries = n, !.quarantined = q]
    BY DEF n
  <2>4. r \in ArtSet
    BY <2>2, <2>3
  <2> QED
    BY <1>1, <1>2, <2>2, <2>3 DEF ArtSet
<1>8. FailedArts(a, once, asked, logs)[a] = y /\ FailedArts(a, once, asked, logs) \in [Ids -> ArtSet]
      /\ \A b \in Ids : b # a => FailedArts(a, once, asked, logs)[b] = arts[b]
  <2> HIDE DEF y, FailedArts
  <2> QED
    BY <1>1, <1>6, <1>7
<1> QED
  <2>1. /\ arts[a].quarantined => q
        /\ arts[a].known => k
        /\ arts[a].dropped => d
        /\ asked => k
        /\ logs /\ q => d
    OBVIOUS
  <2> HIDE DEF y, FailedArts, q, k, d
  <2> QED
    BY <1>7, <1>8, <2>1

LEMMA NewArtifact ==
  ASSUME ArtsTyped, FileTyped, NEW kind \in Kinds, NEW path \in Paths \cup {None},
         NEW source \in {"automatic", "telegram", "mcp"}
  PROVE  /\ Artifact(kind, path, source) \in ArtSet
         /\ Artifact(kind, path, source).kind = kind
         /\ Artifact(kind, path, source).source = source
         /\ Artifact(kind, path, source).got = 0
         /\ ~Artifact(kind, path, source).delivered
         /\ ~Artifact(kind, path, source).quarantined
BY Bounds DEF Artifact, ArtSet, FileTyped

LEMMA AppendedArts ==
  ASSUME ArtsTyped, NEW x \in ArtSet
  PROVE  /\ Append(arts, x) \in Seq(ArtSet) /\ Len(Append(arts, x)) = Len(arts) + 1
         /\ DOMAIN Append(arts, x) = Ids \cup {Len(arts) + 1}
         /\ Append(arts, x)[Len(arts) + 1] = x
         /\ \A b \in Ids : Append(arts, x)[b] = arts[b]
<1>1. arts \in Seq(ArtSet)
  BY DEF ArtsTyped
<1>2. DOMAIN Append(arts, x) = 1..(Len(arts) + 1)
  BY <1>1, AppendProperties, LenProperties
<1> QED
  BY <1>1, <1>2, IdsAre, AppendProperties

----------------------------------------------------------------------------
(* What the steps do: each leaves the variables typed, and gives one       *)
(* process the job the lemma names.                                        *)

Others(p) == \A q \in Procs : q # p => job'[q] = job[q]

LEMMA Modalities == \A f \in Paths : Kind(f) \in Kinds
BY DEF Kind, Kinds, Paths

LEMMA RestIsJob ==
  ASSUME NEW n \in Nat
  PROVE  /\ Rest \in JobSet(n) /\ Startup \in JobSet(n)
         /\ Rest.held \in [Branches -> Seq(1..n)] /\ << >> \in Seq(1..n)
         /\ \A b \in Branches : Rest.held[b] = << >>
         /\ Rest.todo = << >> /\ Rest.pc = "rest" /\ Rest.how = None /\ Rest.task = 0 /\ Rest.round = 0
         /\ Rest.bad = {} /\ Rest.owed = {} /\ Rest.want = {} /\ Rest.named = {} /\ Rest.since = {}
         /\ Startup.todo = << >> /\ Startup.pc = "send" /\ Startup.how = "startup" /\ Startup.task = 0
         /\ Startup.round = 0 /\ Startup.bad = {} /\ Startup.owed = {} /\ Startup.want = {}
         /\ Startup.held = Rest.held
<1> DEFINE h == <<<< >>, << >>, << >>>>
<1>1. << >> \in Seq(1..n)
  OBVIOUS
<1>2. h \in [Branches -> Seq(1..n)] /\ \A b \in Branches : h[b] = << >>
  <2>1. DOMAIN h = Branches /\ Branches = {1, 2, 3}
    BY DEF Branches
  <2>2. h[1] = << >> /\ h[2] = << >> /\ h[3] = << >>
    OBVIOUS
  <2>3. h = [b \in Branches |-> << >>]
    BY <2>1, <2>2
  <2> QED
    BY <1>1, <2>3
<1>3. Rest = [how |-> None, pc |-> "rest", task |-> 0, want |-> {}, held |-> h,
              todo |-> << >>, round |-> 0, second |-> FALSE, bad |-> {}, owed |-> {},
              named |-> {}, since |-> {}]
  BY DEF Rest
<1> HIDE DEF h
<1>4. Rest \in JobSet(n)
  BY <1>1, <1>2, <1>3 DEF JobSet, Modes, Stands
<1>5. Startup = [Rest EXCEPT !.how = "startup", !.pc = "send"]
  BY DEF Startup
<1> QED
  BY <1>1, <1>2, <1>3, <1>4, <1>5 DEF JobSet, Modes, Stands

LEMMA JobIs ==
  ASSUME Typed, NEW p \in Procs
  PROVE  job[p] \in JobSet(Len(arts))
BY DEF Typed, JobsTyped

LEMMA StepTypes ==
  ASSUME Typed, NEW p \in Procs,
         arts' \in Seq(ArtSet), Len(arts') >= Len(arts),
         NEW j \in JobSet(Len(arts')), j.pc = "mark" => j.todo # << >>, job' = [job EXCEPT ![p] = j],
         RowTyped', MadeTyped', UNCHANGED <<file, answer, writes>>
  PROVE  Typed' /\ Others(p) /\ job'[p] = j
<1>1. Len(arts) \in Nat /\ Len(arts') \in Nat
  BY LenProperties DEF Typed, ArtsTyped
<1>2. job \in [Procs -> JobSet(Len(arts'))]
  BY <1>1, JobsGrow DEF Typed, JobsTyped
<1>3. job' \in [Procs -> JobSet(Len(arts'))] /\ Others(p) /\ job'[p] = j
  BY <1>2 DEF Others
<1>4. JobsTyped' /\ ArtsTyped' /\ FileTyped' /\ AnswerTyped'
  BY <1>3 DEF Typed, JobsTyped, ArtsTyped, FileTyped, AnswerTyped
<1>5. MarkHolds'
  BY <1>3 DEF Typed, MarkHolds, Others
<1> QED
  BY <1>3, <1>4, <1>5 DEF Typed

\* The same when the artifacts and the files of the messages stay.
LEMMA JobTypes ==
  ASSUME Typed, NEW p \in Procs,
         NEW j \in JobSet(Len(arts)), j.pc = "mark" => j.todo # << >>, job' = [job EXCEPT ![p] = j],
         RowTyped', UNCHANGED <<file, arts, made, answer, writes>>
  PROVE  Typed' /\ Others(p) /\ job'[p] = j
<1>1. arts' = arts /\ Len(arts) \in Nat /\ arts' \in Seq(ArtSet)
  BY LenProperties DEF Typed, ArtsTyped
<1>2. MadeTyped'
  BY <1>1 DEF Typed, MadeTyped
<1>3. j \in JobSet(Len(arts')) /\ Len(arts') >= Len(arts) /\ UNCHANGED <<file, answer, writes>>
  BY <1>1
<1> QED
  BY <1>1, <1>2, <1>3, StepTypes

\* The same when some artifacts change.
LEMMA ArtsTypes ==
  ASSUME Typed, NEW p \in Procs, arts' \in [Ids -> ArtSet],
         NEW j \in JobSet(Len(arts)), j.pc = "mark" => j.todo # << >>, job' = [job EXCEPT ![p] = j],
         RowTyped', UNCHANGED <<file, answer, writes>>,
         \/ made' = made
         \/ \E t \in Tasks, a \in Ids : made' = [made EXCEPT ![t] = @ \cup {a}]
  PROVE  /\ Typed' /\ Others(p) /\ job'[p] = j /\ Ids' = Ids /\ Len(arts') = Len(arts)
<1>1. ArtsTyped
  BY DEF Typed
<1>2. Len(arts') = Len(arts) /\ arts' \in Seq(ArtSet) /\ Ids' = Ids /\ Len(arts) \in Nat /\ Ids = 1..Len(arts)
  BY <1>1, SameLength, IdsAre DEF Ids
<1>3. MadeTyped'
  <2>1. made \in [Tasks -> SUBSET Ids]
    BY <1>2 DEF Typed, MadeTyped
  <2>2. made' \in [Tasks -> SUBSET Ids]
    BY <2>1
  <2> QED
    BY <1>2, <2>2 DEF MadeTyped
<1>4. j \in JobSet(Len(arts')) /\ Len(arts') >= Len(arts) /\ UNCHANGED <<file, answer, writes>>
  BY <1>2
<1> QED
  BY <1>2, <1>3, <1>4, StepTypes

\* The same when an artifact is added.
LEMMA AddTypes ==
  ASSUME Typed, NEW p \in Procs, NEW x \in ArtSet, arts' = Append(arts, x),
         NEW j \in JobSet(Len(arts) + 1), j.pc = "mark" => j.todo # << >>, job' = [job EXCEPT ![p] = j],
         \/ made' = made
         \/ \E t \in Tasks : made' = [made EXCEPT ![t] = @ \cup {Len(arts) + 1}],
         UNCHANGED <<file, row, answer, writes>>
  PROVE  /\ Typed' /\ Others(p) /\ job'[p] = j
         /\ Ids' = Ids \cup {Len(arts) + 1} /\ arts'[Len(arts) + 1] = x
         /\ \A b \in Ids : arts'[b] = arts[b]
<1>1. ArtsTyped /\ Len(arts) \in Nat
  BY IdsAre DEF Typed
<1>2. /\ Len(arts') = Len(arts) + 1 /\ arts' \in Seq(ArtSet)
      /\ Ids' = Ids \cup {Len(arts) + 1} /\ arts'[Len(arts) + 1] = x
      /\ \A b \in Ids : arts'[b] = arts[b]
  BY <1>1, AppendedArts DEF Ids
<1>3. MadeTyped'
  <2>1. made \in [Tasks -> SUBSET (1..(Len(arts) + 1))]
    BY <1>1 DEF Typed, MadeTyped
  <2>2. Len(arts) + 1 \in 1..(Len(arts) + 1)
    BY <1>1
  <2>3. made' \in [Tasks -> SUBSET (1..(Len(arts) + 1))]
    BY <2>1, <2>2
  <2> QED
    BY <1>2, <2>3 DEF MadeTyped
<1>4. RowTyped'
  BY DEF Typed, RowTyped
<1>5. j \in JobSet(Len(arts')) /\ Len(arts') >= Len(arts) /\ UNCHANGED <<file, answer, writes>>
  BY <1>1, <1>2
<1> QED
  BY <1>2, <1>3, <1>4, <1>5, StepTypes

LEMMA SettleTypes ==
  ASSUME Typed, NEW t \in Tasks \cup {0}, NEW s \in {"pending", "processing", "completed", "failed"},
         Settle(t, s)
  PROVE  /\ RowTyped'
         /\ t = 0 => row' = row
         /\ t \in Tasks => row'[t] = s
         /\ \A u \in Tasks : u # t => row'[u] = row[u]
<1>1. 0 \notin Tasks
  BY Bounds
<1> QED
  BY <1>1 DEF Settle, Typed, RowTyped

SendJob(j, s) == [j EXCEPT !.pc = "send", !.todo = s, !.held = Rest.held, !.second = FALSE, !.bad = {}]

LEMMA SendsIs ==
  ASSUME Typed, NEW p \in Procs, NEW n \in Nat, Len(arts) <= n, NEW s \in Seq(1..n)
  PROVE  /\ Sends(p, s) = [job EXCEPT ![p] = SendJob(job[p], s)]
         /\ SendJob(job[p], s) \in JobSet(n)
         /\ SendJob(job[p], s).pc = "send" /\ SendJob(job[p], s).todo = s
         /\ SendJob(job[p], s).held = Rest.held /\ SendJob(job[p], s).bad = {}
         /\ SendJob(job[p], s).how = job[p].how /\ SendJob(job[p], s).task = job[p].task
         /\ SendJob(job[p], s).owed = job[p].owed /\ SendJob(job[p], s).want = job[p].want
         /\ SendJob(job[p], s).round = job[p].round
<1>1. Rest.held \in [Branches -> Seq(1..n)]
  BY RestIsJob
<1>2. job[p] \in JobSet(n)
  <2>1. Len(arts) \in Nat
    BY LenProperties DEF Typed, ArtsTyped
  <2> QED
    BY <2>1, JobIs, JobsGrow
<1>3. job \in [Procs -> JobSet(Len(arts))]
  BY DEF Typed, JobsTyped
<1>4. Sends(p, s) = [job EXCEPT ![p] = SendJob(job[p], s)]
  BY <1>3 DEF Sends, SendJob
<1>5. "send" \in Stands
  BY DEF Stands
<1> QED
  BY <1>1, <1>2, <1>4, <1>5 DEF SendJob, JobSet

LEMMA HandsAreIds ==
  ASSUME Typed, NEW p \in Procs
  PROVE  /\ InHands(p) \in Seq(1..Len(arts))
         /\ Branches = {1, 2, 3}
         /\ \A b \in Branches : job[p].held[b] \in Seq(1..Len(arts))
         /\ job[p].todo \in Seq(1..Len(arts))
<1>1. job[p].held \in [Branches -> Seq(1..Len(arts))] /\ job[p].todo \in Seq(1..Len(arts))
  BY JobIs DEF JobSet
<1>2. Branches = {1, 2, 3}
  BY DEF Branches
<1>3. job[p].held[1] \in Seq(1..Len(arts)) /\ job[p].held[2] \in Seq(1..Len(arts)) /\ job[p].held[3] \in Seq(1..Len(arts))
  BY <1>1, <1>2
<1>4. job[p].held[1] \o job[p].held[2] \in Seq(1..Len(arts))
  BY <1>3, ConcatProperties
<1> QED
  BY <1>1, <1>2, <1>3, <1>4, ConcatProperties DEF InHands

\* The file a sender is at.
LEMMA HeadIsId ==
  ASSUME Typed, NEW p \in Procs, job[p].todo # << >>
  PROVE  Head(job[p].todo) \in Ids /\ Tail(job[p].todo) \in Seq(1..Len(arts))
<1>1. job[p].todo \in Seq(1..Len(arts)) /\ ArtsTyped
  BY HandsAreIds DEF Typed
<1>2. Head(job[p].todo) \in 1..Len(arts) /\ Tail(job[p].todo) \in Seq(1..Len(arts))
  BY <1>1, HeadTailProperties
<1> QED
  BY <1>1, <1>2, IdsAre

\* Staging.
StagedHeld(p, r, a) ==
  IF job[p].pc = "files" THEN job[p].held ELSE [job[p].held EXCEPT ![r.branch] = Append(@, a)]
StagedJob(p, r, a) == [job[p] EXCEPT !.want = @ \ {r}, !.held = StagedHeld(p, r, a)]

LEMMA StagedIs ==
  ASSUME Typed, NEW p \in Procs, NEW n \in Nat, Len(arts) <= n,
         NEW r \in job[p].want, NEW a \in 1..n, Staged(p, r, a)
  PROVE  /\ r \in Request
         /\ job' = [job EXCEPT ![p] = StagedJob(p, r, a)]
         /\ StagedJob(p, r, a) \in JobSet(n)
         /\ StagedJob(p, r, a).pc = job[p].pc /\ StagedJob(p, r, a).todo = job[p].todo
         /\ StagedJob(p, r, a).how = job[p].how /\ StagedJob(p, r, a).task = job[p].task
         /\ StagedJob(p, r, a).bad = job[p].bad /\ StagedJob(p, r, a).owed = job[p].owed
         /\ StagedJob(p, r, a).round = job[p].round
         /\ StagedJob(p, r, a).want \subseteq job[p].want
         /\ StagedJob(p, r, a).held = StagedHeld(p, r, a)
<1>1. job[p] \in JobSet(n)
  <2>1. Len(arts) \in Nat
    BY LenProperties DEF Typed, ArtsTyped
  <2> QED
    BY <2>1, JobIs, JobsGrow
<1>2. r \in Request /\ r.branch \in Branches
  BY <1>1 DEF JobSet, Request
<1> DEFINE h == StagedHeld(p, r, a)
<1>3. h \in [Branches -> Seq(1..n)]
  <2>1. job[p].held \in [Branches -> Seq(1..n)]
    BY <1>1 DEF JobSet
  <2>2. Append(job[p].held[r.branch], a) \in Seq(1..n)
    BY <1>2, <2>1, AppendProperties
  <2> QED
    BY <2>1, <2>2 DEF StagedHeld
<1>4. job' = [job EXCEPT ![p].want = @ \ {r}, ![p].held[r.branch] = IF job[p].pc = "files" THEN @ ELSE Append(@, a)]
  BY DEF Staged, At
<1>5. StagedJob(p, r, a) = [job[p] EXCEPT !.want = @ \ {r}, !.held = h]
  BY DEF StagedJob
<1>6. h = [job[p].held EXCEPT ![r.branch] = IF job[p].pc = "files" THEN @ ELSE Append(@, a)]
  <2>1. job[p].held \in [Branches -> Seq(1..n)]
    BY <1>1 DEF JobSet
  <2> QED
    BY <1>2, <2>1 DEF StagedHeld
<1>7. job \in [Procs -> JobSet(Len(arts))]
  BY DEF Typed, JobsTyped
<1>8. job' = [job EXCEPT ![p] = StagedJob(p, r, a)]
  <2>1. [job EXCEPT ![p].want = @ \ {r}, ![p].held[r.branch] = IF job[p].pc = "files" THEN @ ELSE Append(@, a)]
        = [job EXCEPT ![p] = [job[p] EXCEPT !.want = @ \ {r},
             !.held = [job[p].held EXCEPT ![r.branch] = IF job[p].pc = "files" THEN @ ELSE Append(@, a)]]]
    BY <1>1, <1>7 DEF JobSet
  <2> QED
    BY <1>4, <1>5, <1>6, <2>1
<1> HIDE DEF h
<1>9. StagedJob(p, r, a) \in JobSet(n)
  BY <1>1, <1>3, <1>5 DEF JobSet
<1> QED
  <2>1. /\ StagedJob(p, r, a).pc = job[p].pc /\ StagedJob(p, r, a).todo = job[p].todo
        /\ StagedJob(p, r, a).how = job[p].how /\ StagedJob(p, r, a).task = job[p].task
        /\ StagedJob(p, r, a).bad = job[p].bad /\ StagedJob(p, r, a).owed = job[p].owed
        /\ StagedJob(p, r, a).round = job[p].round
        /\ StagedJob(p, r, a).want = job[p].want \ {r}
        /\ StagedJob(p, r, a).held = h
    BY <1>1, <1>5 DEF JobSet
  <2> QED
    BY <1>2, <1>8, <1>9, <2>1 DEF h

----------------------------------------------------------------------------
(* The effects of the actions.                                             *)

\* The artifact is what it was, and nothing is known of it that was not.
SameSort(b) == arts'[b].kind = arts[b].kind /\ arts'[b].source = arts[b].source
SameFate(b) == /\ arts'[b].delivered = arts[b].delivered /\ arts'[b].quarantined = arts[b].quarantined
               /\ arts'[b].dropped = arts[b].dropped /\ arts'[b].got = arts[b].got
SameShare(b) == arts'[b].shared = arts[b].shared
SameNews(b)  == arts'[b].known = arts[b].known
Same(b) == SameSort(b) /\ SameFate(b) /\ SameShare(b) /\ SameNews(b)

LEMMA SameArts ==
  ASSUME UNCHANGED arts
  PROVE  Ids' = Ids /\ \A b \in Ids : Same(b)
BY DEF Ids, Same, SameSort, SameFate, SameShare, SameNews

\* An artifact goes to the hands of p and to the message it works for.
MadeFor(p, a) == made' = IF job[p].task = 0 THEN made ELSE [made EXCEPT ![job[p].task] = @ \cup {a}]

LEMMA TaskOf ==
  ASSUME Typed, NEW p \in Procs
  PROVE  job[p].task \in Tasks \cup {0} /\ 0 \notin Tasks
BY JobIs, Bounds DEF JobSet

LEMMA ReusesEffect ==
  ASSUME Typed, NEW p \in Procs, Reuses(p)
  PROVE  /\ Typed' /\ Others(p) /\ Ids' = Ids /\ row' = row
         /\ \E r \in job[p].want, a \in Ids :
              /\ r \in Request /\ Waiting(a) /\ arts[a].source = "automatic"
              /\ job'[p] = StagedJob(p, r, a) /\ MadeFor(p, a)
              /\ \A b \in Ids : /\ SameSort(b) /\ SameFate(b)
                                /\ b # a => SameNews(b) /\ SameShare(b)
                                /\ arts[b].shared => arts'[b].shared
              /\ job[p].pc # "files" /\ a \in InHand => arts'[a].shared
<1>0. ArtsTyped /\ Len(arts) \in Nat /\ Ids = 1..Len(arts) /\ arts \in [Ids -> ArtSet]
  BY IdsAre DEF Typed
<1>1. PICK r \in job[p].want :
        /\ Existing(r.path) # {}
        /\ LET a == Max(Existing(r.path)) IN
             /\ Staged(p, r, a)
             /\ arts' = [(IF At(p, "files") THEN arts ELSE Share({a})) EXCEPT ![a].known = FALSE]
        /\ UNCHANGED <<file, row, answer, bounded>>
  BY DEF Reuses
<1> DEFINE a == Max(Existing(r.path))
<1>2. a \in Existing(r.path)
  <2>1. Existing(r.path) \in SUBSET Ids
    BY DEF Existing
  <2>2. IsFiniteSet(Existing(r.path)) /\ Existing(r.path) \in SUBSET Nat
    BY <1>0, <2>1, IdsAre, FS_Subset
  <2> QED
    BY <1>1, <2>2, MaxIsMember
<1>3. a \in Ids /\ Waiting(a) /\ arts[a].source = "automatic" /\ Staged(p, r, a)
  BY <1>1, <1>2 DEF Existing
<1> DEFINE s == IF At(p, "files") THEN arts ELSE Share({a})
<1>4. /\ s \in [Ids -> ArtSet]
      /\ \A b \in Ids : /\ s[b].kind = arts[b].kind /\ s[b].source = arts[b].source
                        /\ s[b].delivered = arts[b].delivered /\ s[b].quarantined = arts[b].quarantined
                        /\ s[b].dropped = arts[b].dropped /\ s[b].got = arts[b].got
                        /\ s[b].known = arts[b].known
                        /\ arts[b].shared => s[b].shared
                        /\ b # a => s[b].shared = arts[b].shared
      /\ job[p].pc # "files" /\ a \in InHand => s[a].shared
  <2>1. CASE At(p, "files")
    BY <1>0, <2>1 DEF At
  <2>2. CASE ~At(p, "files")
    <3> DEFINE S == Share({a})
    <3>1. /\ S \in [Ids -> ArtSet]
          /\ \A b \in Ids : /\ S[b] = [arts[b] EXCEPT !.shared = arts[b].shared \/ (b \in {a} /\ b \in InHand)]
                            /\ S[b].shared <=> (arts[b].shared \/ (b \in {a} /\ b \in InHand))
      BY <1>0, SharedArts
    <3>2. s = S
      BY <2>2
    <3> HIDE DEF S, s, InHand, Ids, a
    <3>3. ASSUME NEW b \in Ids
          PROVE  /\ S[b].kind = arts[b].kind /\ S[b].source = arts[b].source
                 /\ S[b].delivered = arts[b].delivered /\ S[b].quarantined = arts[b].quarantined
                 /\ S[b].dropped = arts[b].dropped /\ S[b].got = arts[b].got
                 /\ S[b].known = arts[b].known
                 /\ arts[b].shared => S[b].shared
                 /\ b # a => S[b].shared = arts[b].shared
      <4>1. arts[b] \in ArtSet /\ S[b] \in ArtSet
        BY <1>0, <3>1
      <4>2. S[b].shared \in BOOLEAN /\ arts[b].shared \in BOOLEAN
        BY <4>1 DEF ArtSet
      <4>3. b # a => S[b].shared = arts[b].shared
        BY <3>1, <4>2
      <4> DEFINE k == arts[b].shared \/ (b \in {a} /\ b \in InHand)
      <4>4. S[b] = [arts[b] EXCEPT !.shared = k]
        BY <3>1
      <4> HIDE DEF k
      <4> QED
        BY <3>1, <4>1, <4>3, <4>4 DEF ArtSet
    <3> QED
      BY <1>3, <3>1, <3>2, <3>3
  <2> QED
    BY <2>1, <2>2
<1>5. arts' = [s EXCEPT ![a] = [s[a] EXCEPT !.known = FALSE]]
  BY <1>1
<1> HIDE DEF s, a, Ids
<1>6. /\ arts' \in [Ids -> ArtSet]
      /\ \A b \in Ids : b # a => arts'[b] = s[b]
      /\ arts'[a] = [s[a] EXCEPT !.known = FALSE]
  <2>1. s[a] \in ArtSet
    BY <1>3, <1>4
  <2>2. [s[a] EXCEPT !.known = FALSE] \in ArtSet
    BY <2>1 DEF ArtSet
  <2> QED
    BY <1>3, <1>4, <1>5, <2>2
<1>7. \A b \in Ids : /\ SameSort(b) /\ SameFate(b)
                     /\ b # a => SameNews(b) /\ SameShare(b)
                     /\ arts[b].shared => arts'[b].shared
  <2> SUFFICES ASSUME NEW b \in Ids
               PROVE  /\ SameSort(b) /\ SameFate(b)
                      /\ b # a => SameNews(b) /\ SameShare(b)
                      /\ arts[b].shared => arts'[b].shared
    OBVIOUS
  <2>1. CASE b = a
    <3>1. s[a] \in ArtSet
      BY <1>3, <1>4
    <3> QED
      BY <1>4, <1>6, <2>1, <3>1 DEF SameSort, SameFate, ArtSet
  <2>2. CASE b # a
    BY <1>4, <1>6, <2>2 DEF SameSort, SameFate, SameNews, SameShare
  <2> QED
    BY <2>1, <2>2
<1>8. job[p].pc # "files" /\ a \in InHand => arts'[a].shared
  <2>1. s[a] \in ArtSet
    BY <1>3, <1>4
  <2> QED
    BY <1>4, <1>6, <2>1 DEF ArtSet
<1>9. /\ r \in Request
      /\ job' = [job EXCEPT ![p] = StagedJob(p, r, a)]
      /\ StagedJob(p, r, a) \in JobSet(Len(arts))
      /\ StagedJob(p, r, a).pc = job[p].pc /\ StagedJob(p, r, a).todo = job[p].todo
  BY <1>0, <1>3, StagedIs
<1>10. MadeFor(p, a)
  BY <1>3 DEF Staged, MadeFor
<1>11. /\ RowTyped' /\ row' = row /\ UNCHANGED <<file, answer, writes>>
       /\ \/ made' = made
          \/ \E t \in Tasks, c \in Ids : made' = [made EXCEPT ![t] = @ \cup {c}]
       /\ StagedJob(p, r, a).pc = "mark" => StagedJob(p, r, a).todo # << >>
  BY <1>1, <1>3, <1>9, <1>10, TaskOf DEF MadeFor, Typed, RowTyped, MarkHolds, bounded
<1>12. Typed' /\ Others(p) /\ job'[p] = StagedJob(p, r, a) /\ Ids' = Ids
  BY <1>6, <1>9, <1>11, ArtsTypes
<1> QED
  BY <1>3, <1>7, <1>8, <1>9, <1>10, <1>11, <1>12

\* A change of what is asked for.
WantJob(p, W) == [job[p] EXCEPT !.want = W]
LEMMA WantIs ==
  ASSUME Typed, NEW p \in Procs, NEW W \in SUBSET Request
  PROVE  /\ WantJob(p, W) \in JobSet(Len(arts))
         /\ WantJob(p, W).want = W
         /\ WantJob(p, W).pc = job[p].pc /\ WantJob(p, W).todo = job[p].todo
         /\ WantJob(p, W).how = job[p].how /\ WantJob(p, W).task = job[p].task
         /\ WantJob(p, W).bad = job[p].bad /\ WantJob(p, W).owed = job[p].owed
         /\ WantJob(p, W).round = job[p].round /\ WantJob(p, W).held = job[p].held
         /\ WantJob(p, W).pc = "mark" => WantJob(p, W).todo # << >>
<1>1. job[p] \in JobSet(Len(arts))
  BY JobIs
<1>2. job[p].pc = "mark" => job[p].todo # << >>
  BY DEF Typed, MarkHolds
<1> QED
  BY <1>1, <1>2 DEF WantJob, JobSet

LEMMA StartsCopyEffect ==
  ASSUME Typed, NEW p \in Procs, StartsCopy(p)
  PROVE  /\ Typed' /\ Others(p) /\ UNCHANGED <<arts, row, made>>
         /\ \E W \in SUBSET Request : job'[p] = WantJob(p, W) /\ (job[p].want = {} => W = {})
<1>0. job[p] \in JobSet(Len(arts)) /\ job \in [Procs -> JobSet(Len(arts))]
  BY JobIs DEF Typed, JobsTyped
<1>1. PICK r \in job[p].want :
        /\ job' = [job EXCEPT ![p].want = (@ \ {r}) \cup {[r EXCEPT !.copying = TRUE]}]
        /\ UNCHANGED <<file, arts, row, answer, made, bounded>>
  BY DEF StartsCopy
<1> DEFINE W == (job[p].want \ {r}) \cup {[r EXCEPT !.copying = TRUE]}
<1>2. job[p].want \in SUBSET Request /\ r \in Request
  BY <1>0 DEF JobSet
<1>3. [r EXCEPT !.copying = TRUE] \in Request
  BY <1>2 DEF Request
<1>4. W \in SUBSET Request
  BY <1>2, <1>3
<1>5. job' = [job EXCEPT ![p] = WantJob(p, W)]
  BY <1>1 DEF WantJob
<1>6. RowTyped' /\ UNCHANGED <<file, arts, made, answer, writes>> /\ row' = row
  BY <1>1 DEF Typed, RowTyped, bounded
<1> HIDE DEF W
<1>7. Typed' /\ Others(p) /\ job'[p] = WantJob(p, W)
  BY <1>4, <1>5, <1>6, WantIs, JobTypes
<1> QED
  BY <1>4, <1>6, <1>7

LEMMA CopyFailsEffect ==
  ASSUME Typed, NEW p \in Procs, CopyFails(p)
  PROVE  /\ Typed' /\ Others(p) /\ UNCHANGED <<arts, row, made>>
         /\ \E W \in SUBSET Request : job'[p] = WantJob(p, W) /\ (job[p].want = {} => W = {})
<1>0. job[p] \in JobSet(Len(arts)) /\ job \in [Procs -> JobSet(Len(arts))]
  BY JobIs DEF Typed, JobsTyped
<1>1. PICK r \in job[p].want :
        /\ job' = [job EXCEPT ![p].want = @ \ {r}]
        /\ UNCHANGED <<file, arts, row, answer, made, writes>>
  BY DEF CopyFails, Fault
<1> DEFINE W == job[p].want \ {r}
<1>2. W \in SUBSET Request
  BY <1>0 DEF JobSet
<1>3. job' = [job EXCEPT ![p] = WantJob(p, W)]
  BY <1>1 DEF WantJob
<1>4. RowTyped' /\ UNCHANGED <<file, arts, made, answer, writes>> /\ row' = row
  BY <1>1 DEF Typed, RowTyped
<1> HIDE DEF W
<1>5. Typed' /\ Others(p) /\ job'[p] = WantJob(p, W)
  BY <1>2, <1>3, <1>4, WantIs, JobTypes
<1>6. job[p].want = {} => W = {}
  BY <1>1
<1> QED
  BY <1>2, <1>4, <1>5, <1>6

LEMMA CopiesEffect ==
  ASSUME Typed, NEW p \in Procs, Copies(p)
  PROVE  /\ Typed' /\ Others(p) /\ row' = row
         /\ Ids' = Ids \cup {Len(arts) + 1}
         /\ \A b \in Ids : arts'[b] = arts[b]
         /\ LET x == arts'[Len(arts) + 1] IN
              x.source = "automatic" /\ x.got = 0 /\ ~x.delivered /\ ~x.quarantined
         /\ MadeFor(p, Len(arts) + 1)
         /\ \E r \in job[p].want : r \in Request /\ job'[p] = StagedJob(p, r, Len(arts) + 1)
<1>0. job[p] \in JobSet(Len(arts)) /\ ArtsTyped /\ FileTyped /\ Len(arts) \in Nat
  BY JobIs, IdsAre DEF Typed
<1>1. PICK r \in job[p].want :
        /\ arts' = Append(arts, Artifact(Kind(r.path), r.path, "automatic"))
        /\ Staged(p, r, Len(arts) + 1)
        /\ UNCHANGED <<file, row, answer, bounded>>
  BY DEF Copies
<1>2. r \in Request /\ r.path \in Paths /\ Kind(r.path) \in Kinds
  BY <1>0, Modalities DEF JobSet, Request
<1> DEFINE x == Artifact(Kind(r.path), r.path, "automatic")
<1>3. x \in ArtSet /\ x.source = "automatic" /\ x.got = 0 /\ ~x.delivered /\ ~x.quarantined
  BY <1>0, <1>2, NewArtifact
<1>4. /\ job' = [job EXCEPT ![p] = StagedJob(p, r, Len(arts) + 1)]
      /\ StagedJob(p, r, Len(arts) + 1) \in JobSet(Len(arts) + 1)
      /\ StagedJob(p, r, Len(arts) + 1).pc = job[p].pc /\ StagedJob(p, r, Len(arts) + 1).todo = job[p].todo
  <2>1. Len(arts) + 1 \in Nat /\ Len(arts) <= Len(arts) + 1 /\ Len(arts) + 1 \in 1..(Len(arts) + 1)
    BY <1>0
  <2> QED
    BY <1>1, <2>1, StagedIs
<1>5. MadeFor(p, Len(arts) + 1)
  BY <1>1 DEF Staged, MadeFor
<1>6. /\ UNCHANGED <<file, row, answer, writes>> /\ row' = row
      /\ \/ made' = made
         \/ \E t \in Tasks : made' = [made EXCEPT ![t] = @ \cup {Len(arts) + 1}]
      /\ StagedJob(p, r, Len(arts) + 1).pc = "mark" => StagedJob(p, r, Len(arts) + 1).todo # << >>
  BY <1>1, <1>4, <1>5, TaskOf DEF MadeFor, Typed, MarkHolds, bounded
<1>7. arts' = Append(arts, x)
  BY <1>1
<1> HIDE DEF x
<1>8. /\ Typed' /\ Others(p) /\ job'[p] = StagedJob(p, r, Len(arts) + 1)
      /\ Ids' = Ids \cup {Len(arts) + 1} /\ arts'[Len(arts) + 1] = x
      /\ \A b \in Ids : arts'[b] = arts[b]
  BY <1>3, <1>4, <1>6, <1>7, AddTypes
<1> QED
  BY <1>2, <1>3, <1>5, <1>6, <1>8

LEMMA AskIs ==
  ASSUME NEW S \in SUBSET Paths, NEW b \in Branches
  PROVE  Ask(S, b) \in SUBSET Request
<1>1. ASSUME NEW x \in Ask(S, b) PROVE x \in Request
  <2>1. x \in [path : S, branch : {b}, copying : {FALSE}]
    BY DEF Ask
  <2>2. S \subseteq Paths /\ {b} \subseteq Branches /\ {FALSE} \subseteq BOOLEAN
    OBVIOUS
  <2> QED
    BY <2>1, <2>2 DEF Request
<1> QED
  BY <1>1

LEMMA SweepsRecentEffect ==
  ASSUME Typed, NEW p \in Procs, SweepsRecent(p)
  PROVE  /\ Typed' /\ Others(p) /\ UNCHANGED <<arts, row, made>>
         /\ job[p].pc = "stage" /\ job[p].how = "turn"
         /\ \E W \in SUBSET Request : job'[p] = [job[p] EXCEPT !.pc = "recent", !.want = W]
<1>0. job[p] \in JobSet(Len(arts)) /\ job \in [Procs -> JobSet(Len(arts))]
  BY JobIs DEF Typed, JobsTyped
<1> DEFINE staged == {arts[a].path : a \in HeldBy(p)}
<1> DEFINE W == Ask((Images \cap Since(p)) \ staged, 3)
<1>1. /\ job' = [job EXCEPT ![p].pc = "recent", ![p].want = W]
      /\ UNCHANGED <<file, arts, row, answer, made, bounded>>
      /\ job[p].pc = "stage" /\ job[p].how = "turn"
  BY DEF SweepsRecent, At
<1>2. W \in SUBSET Request
  <2>1. (Images \cap Since(p)) \ staged \in SUBSET Paths /\ 3 \in Branches
    BY DEF Paths, Branches
  <2> QED
    BY <2>1, AskIs
<1> HIDE DEF W
<1>3. [job[p] EXCEPT !.pc = "recent", !.want = W] \in JobSet(Len(arts))
      /\ [job[p] EXCEPT !.pc = "recent", !.want = W].pc = "recent"
  BY <1>0, <1>2 DEF JobSet, Stands
<1>4. job' = [job EXCEPT ![p] = [job[p] EXCEPT !.pc = "recent", !.want = W]]
  BY <1>1
<1>5. RowTyped' /\ UNCHANGED <<file, arts, made, answer, writes>> /\ row' = row
  BY <1>1 DEF Typed, RowTyped, bounded
<1>6. Typed' /\ Others(p) /\ job'[p] = [job[p] EXCEPT !.pc = "recent", !.want = W]
  BY <1>3, <1>4, <1>5, JobTypes
<1> QED
  BY <1>1, <1>2, <1>5, <1>6

\* What is in hand is about to be sent.
LEMMA SendsHandsEffect ==
  ASSUME Typed, NEW p \in Procs, job' = Sends(p, InHands(p)),
         UNCHANGED <<file, arts, row, answer, made, bounded>>
  PROVE  /\ Typed' /\ Others(p) /\ UNCHANGED <<arts, row, made>>
         /\ job'[p] = SendJob(job[p], InHands(p))
<1>1. Len(arts) \in Nat /\ InHands(p) \in Seq(1..Len(arts))
  BY HandsAreIds, IdsAre DEF Typed
<1>2. /\ job' = [job EXCEPT ![p] = SendJob(job[p], InHands(p))]
      /\ SendJob(job[p], InHands(p)) \in JobSet(Len(arts))
      /\ SendJob(job[p], InHands(p)).pc = "send"
  BY <1>1, SendsIs
<1>3. RowTyped' /\ UNCHANGED <<file, arts, made, answer, writes>> /\ row' = row
  BY DEF Typed, RowTyped, bounded
<1>4. Typed' /\ Others(p) /\ job'[p] = SendJob(job[p], InHands(p))
  BY <1>2, <1>3, JobTypes
<1> QED
  BY <1>3, <1>4

LEMMA SendBeginsEffect ==
  ASSUME Typed, NEW p \in Procs, SendBegins(p)
  PROVE  /\ Typed' /\ Others(p) /\ UNCHANGED <<arts, row, made>>
         /\ job[p].pc = "stage" /\ job[p].want = {}
         /\ job'[p] = SendJob(job[p], InHands(p))
BY SendsHandsEffect DEF SendBegins, At

FilesJob(p) == [job[p] EXCEPT !.pc = "files", !.bad = {}, !.want = Ask(FilesOf(p), 1)]

LEMMA FilesAre ==
  ASSUME Typed, NEW p \in Procs
  PROVE  /\ Ask(FilesOf(p), 1) \in SUBSET Request
         /\ FilesJob(p) \in JobSet(Len(arts))
         /\ FilesJob(p).pc = "files" /\ FilesJob(p).bad = {} 
         /\ FilesJob(p).todo = job[p].todo /\ FilesJob(p).held = job[p].held
         /\ FilesJob(p).how = job[p].how /\ FilesJob(p).task = job[p].task
         /\ FilesJob(p).owed = job[p].owed /\ FilesJob(p).round = job[p].round
<1>0. job[p] \in JobSet(Len(arts))
  BY JobIs
<1>1. Since(p) \subseteq Paths
  <2>1. job[p].since \subseteq Paths
    BY <1>0 DEF JobSet
  <2>2. \A t \in Tasks : answer[t].since \subseteq Paths
    BY DEF Typed, AnswerTyped
  <2> QED
    BY <2>1, <2>2, TaskOf DEF Since
<1>2. FilesOf(p) \in SUBSET Paths /\ 1 \in Branches
  BY <1>1 DEF FilesOf, Branches
<1>3. Ask(FilesOf(p), 1) \in SUBSET Request
  BY <1>2, AskIs
<1> QED
  BY <1>0, <1>3 DEF FilesJob, JobSet, Stands

LEMMA TextIsSentEffect ==
  ASSUME Typed, NEW p \in Procs, TextIsSent(p)
  PROVE  /\ Typed' /\ Others(p) /\ UNCHANGED <<arts, row, made>> /\ AtText(p)
         /\ IF job[p].how = "terminal"
              THEN job'[p] = [job[p] EXCEPT !.pc = "files", !.want = Ask(FilesOf(p), 1)]
              ELSE job'[p] = SendJob(job[p], InHands(p))
<1>1. /\ AtText(p) /\ UNCHANGED <<file, arts, row, answer, made, bounded>>
      /\ job' = IF job[p].how = "terminal"
                  THEN [job EXCEPT ![p].pc = "files", ![p].want = Ask(FilesOf(p), 1)]
                  ELSE Sends(p, InHands(p))
  BY DEF TextIsSent
<1>2. CASE job[p].how = "terminal"
  <2> DEFINE j == [job[p] EXCEPT !.pc = "files", !.want = Ask(FilesOf(p), 1)]
  <2>0. job[p] \in JobSet(Len(arts)) /\ Ask(FilesOf(p), 1) \in SUBSET Request
    BY JobIs, FilesAre
  <2>1. j \in JobSet(Len(arts)) /\ j.pc = "files"
    BY <2>0 DEF JobSet, Stands
  <2>2. job' = [job EXCEPT ![p] = j]
    BY <1>1, <1>2
  <2>3. RowTyped' /\ UNCHANGED <<file, arts, made, answer, writes>> /\ row' = row
    BY <1>1 DEF Typed, RowTyped, bounded
  <2> HIDE DEF j
  <2>4. Typed' /\ Others(p) /\ job'[p] = j
    BY <2>1, <2>2, <2>3, JobTypes
  <2> QED
    BY <1>1, <1>2, <2>3, <2>4 DEF j
<1>3. CASE job[p].how # "terminal"
  <2>1. job' = Sends(p, InHands(p))
    BY <1>1, <1>3
  <2>2. /\ Typed' /\ Others(p) /\ UNCHANGED <<arts, row, made>>
        /\ job'[p] = SendJob(job[p], InHands(p))
    BY <1>1, <2>1, SendsHandsEffect
  <2> QED
    BY <1>1, <1>3, <2>2
<1> QED
  BY <1>2, <1>3

\* A job ends; after an answer found again the start goes on.
Ended(p) == IF job[p].how = "recovered" THEN Startup ELSE Rest
LEMMA RestingTypes ==
  ASSUME Typed, NEW p \in Procs, Resting(p), arts' \in [Ids -> ArtSet], RowTyped',
         UNCHANGED <<file, made, answer, writes>>
  PROVE  Typed' /\ Others(p) /\ job'[p] = Ended(p) /\ Ids' = Ids
<1>0. Len(arts) \in Nat
  BY LenProperties DEF Typed, ArtsTyped
<1>1. Ended(p) \in JobSet(Len(arts)) /\ Ended(p).pc # "mark"
  BY <1>0, RestIsJob DEF Ended
<1>2. job' = [job EXCEPT ![p] = Ended(p)]
  BY DEF Resting, Ended
<1>3. /\ Ended(p).pc = "mark" => Ended(p).todo # << >>
      /\ UNCHANGED <<file, answer, writes>>
      /\ \/ made' = made
         \/ \E t \in Tasks, a \in Ids : made' = [made EXCEPT ![t] = @ \cup {a}]
  BY <1>1
<1> QED
  BY <1>1, <1>2, <1>3, ArtsTypes

\* The same when no artifact changes.
LEMMA RestsEffect ==
  ASSUME Typed, NEW p \in Procs, Resting(p), RowTyped', UNCHANGED <<file, arts, made, answer, writes>>
  PROVE  Typed' /\ Others(p) /\ UNCHANGED <<arts, made>> /\ job'[p] = Ended(p)
<1>1. arts' \in [Ids -> ArtSet] /\ UNCHANGED <<file, made, answer, writes>>
  BY IdsAre DEF Typed
<1> QED
  BY <1>1, RestingTypes

LEMMA TextFailsEffect ==
  ASSUME Typed, NEW p \in Procs, TextFails(p)
  PROVE  /\ Typed' /\ Others(p) /\ UNCHANGED <<arts, made>> /\ job'[p] = Ended(p)
         /\ AtText(p) /\ Settle(job[p].task, "failed")
<1>1. Settle(job[p].task, "failed") /\ Resting(p) /\ UNCHANGED <<file, arts, made, answer, writes>> /\ AtText(p)
  BY DEF TextFails, Fault
<1>2. RowTyped'
  BY <1>1, SettleTypes, TaskOf
<1> QED
  BY <1>1, <1>2, RestsEffect

LEMMA BreaksOffEffect ==
  ASSUME Typed, NEW p \in Procs, BreaksOff(p)
  PROVE  /\ Typed' /\ Others(p) /\ UNCHANGED <<arts, made>> /\ job'[p] = Ended(p)
         /\ Through(p) /\ Settle(job[p].task, "failed")
<1>1. Settle(job[p].task, "failed") /\ Resting(p) /\ UNCHANGED <<file, arts, made, answer, writes>> /\ Through(p)
  BY DEF BreaksOff, bounded
<1>2. RowTyped'
  BY <1>1, SettleTypes, TaskOf
<1> QED
  BY <1>1, <1>2, RestsEffect

LEMMA SayingFailsEffect ==
  ASSUME Typed, NEW p \in Procs, SayingFails(p)
  PROVE  /\ Typed' /\ Others(p) /\ UNCHANGED <<arts, made>> /\ job'[p] = Ended(p)
         /\ Through(p) /\ Settle(job[p].task, "failed")
<1>1. Settle(job[p].task, "failed") /\ Resting(p) /\ UNCHANGED <<file, arts, made, answer, writes>> /\ Through(p)
  BY DEF SayingFails, Fault
<1>2. RowTyped'
  BY <1>1, SettleTypes, TaskOf
<1> QED
  BY <1>1, <1>2, RestsEffect

LEMMA ReplyEndsEffect ==
  ASSUME Typed, NEW p \in Procs, ReplyEnds(p)
  PROVE  /\ Typed' /\ Others(p) /\ UNCHANGED <<arts, made>> /\ job'[p] = Ended(p)
         /\ Through(p) /\ job[p].how = "direct"
         /\ Settle(job[p].task, IF job[p].bad = {} THEN "completed" ELSE "failed")
<1>1. /\ Settle(job[p].task, IF job[p].bad = {} THEN "completed" ELSE "failed")
      /\ Resting(p) /\ UNCHANGED <<file, arts, made, answer, writes>> /\ Through(p) /\ job[p].how = "direct"
  BY DEF ReplyEnds, bounded
<1>2. RowTyped'
  BY <1>1, SettleTypes, TaskOf
<1> QED
  BY <1>1, <1>2, RestsEffect

LEMMA SendEndsEffect ==
  ASSUME Typed, NEW p \in Procs, SendEnds(p)
  PROVE  /\ Typed' /\ Others(p) /\ UNCHANGED <<arts, made, row>> /\ job'[p] = Ended(p)
         /\ Through(p)
<1>1. Resting(p) /\ UNCHANGED <<file, arts, made, answer, writes>> /\ Through(p) /\ row' = row
  BY DEF SendEnds, bounded
<1>2. RowTyped'
  BY <1>1, SMTT(30) DEF Typed, RowTyped
<1> QED
  BY <1>1, <1>2, RestsEffect

LEMMA ArrivesEffect ==
  ASSUME Typed, NEW p \in Procs, Arrives(p)
  PROVE  LET a == Head(job[p].todo) IN
         /\ Typed' /\ Others(p) /\ UNCHANGED <<row, made>> /\ Ids' = Ids
         /\ job[p].pc = "send" /\ job[p].todo # << >> /\ a \in Ids
         /\ job'[p] = [job[p] EXCEPT !.pc = "mark"]
         /\ \A b \in Ids : /\ SameSort(b) /\ SameShare(b) /\ SameNews(b)
                           /\ b # a => SameFate(b)
         /\ arts'[a].got = arts[a].got + 1 /\ arts'[a].delivered = arts[a].delivered
         /\ arts'[a].quarantined = arts[a].quarantined /\ arts'[a].dropped = arts[a].dropped
<1> DEFINE a == Head(job[p].todo)
<1>1. /\ job[p].pc = "send" /\ job[p].todo # << >>
      /\ arts' = [arts EXCEPT ![a].got = @ + 1]
      /\ job' = [job EXCEPT ![p].pc = "mark"]
      /\ UNCHANGED <<file, row, answer, made, bounded>>
  BY DEF Arrives, At
<1>2. a \in Ids /\ ArtsTyped /\ arts \in [Ids -> ArtSet]
  BY <1>1, HeadIsId, IdsAre DEF Typed
<1>3. job[p] \in JobSet(Len(arts))
  BY JobIs
<1> DEFINE j == [job[p] EXCEPT !.pc = "mark"]
<1>4. j \in JobSet(Len(arts)) /\ (j.pc = "mark" => j.todo # << >>)
  BY <1>1, <1>3 DEF JobSet, Stands
<1>5. job' = [job EXCEPT ![p] = j]
  BY <1>1
<1> HIDE DEF a, j, Ids
<1> DEFINE y == [arts[a] EXCEPT !.got = arts[a].got + 1]
<1>6. /\ y \in ArtSet /\ y.got = arts[a].got + 1
      /\ y.delivered = arts[a].delivered /\ y.quarantined = arts[a].quarantined /\ y.dropped = arts[a].dropped
      /\ y.kind = arts[a].kind /\ y.source = arts[a].source /\ y.shared = arts[a].shared /\ y.known = arts[a].known
  <2> DEFINE n == arts[a].got + 1
  <2>1. arts[a] \in ArtSet /\ n \in Nat
    BY <1>2 DEF ArtSet
  <2> HIDE DEF n
  <2>2. y = [arts[a] EXCEPT !.got = n]
    BY DEF n
  <2> HIDE DEF y
  <2>3. y \in ArtSet /\ y.got = n
        /\ y.delivered = arts[a].delivered /\ y.quarantined = arts[a].quarantined /\ y.dropped = arts[a].dropped
        /\ y.kind = arts[a].kind /\ y.source = arts[a].source /\ y.shared = arts[a].shared /\ y.known = arts[a].known
    BY <2>1, <2>2 DEF ArtSet
  <2> QED
    BY <2>3 DEF n
<1>7. arts' = [arts EXCEPT ![a] = y]
  BY <1>1
<1> HIDE DEF y
<1>8. arts' \in [Ids -> ArtSet] /\ arts'[a] = y /\ \A b \in Ids : b # a => arts'[b] = arts[b]
  BY <1>2, <1>6, <1>7
<1>9. RowTyped' /\ UNCHANGED <<file, answer, writes>> /\ row' = row /\ made' = made
  BY <1>1 DEF Typed, RowTyped, bounded
<1>10. Typed' /\ Others(p) /\ job'[p] = j /\ Ids' = Ids
  BY <1>4, <1>5, <1>8, <1>9, ArtsTypes
<1>11. \A b \in Ids : /\ SameSort(b) /\ SameShare(b) /\ SameNews(b)
                      /\ b # a => SameFate(b)
  BY <1>6, <1>8 DEF SameSort, SameShare, SameNews, SameFate
<1> QED
  BY <1>1, <1>2, <1>6, <1>8, <1>9, <1>10, <1>11 DEF a, j

DoneJob(p) == [job[p] EXCEPT !.pc = "send", !.todo = Tail(job[p].todo), !.second = FALSE]

LEMMA MarksEffect ==
  ASSUME Typed, NEW p \in Procs, Marks(p)
  PROVE  LET a == Head(job[p].todo) IN
         /\ Typed' /\ Others(p) /\ UNCHANGED <<row, made>> /\ Ids' = Ids
         /\ job[p].pc = "mark" /\ job[p].todo # << >> /\ a \in Ids
         /\ job'[p] = DoneJob(p)
         /\ \A b \in Ids : /\ SameSort(b) /\ SameShare(b) /\ SameNews(b)
                           /\ b # a => SameFate(b)
         /\ arts'[a].got = arts[a].got /\ arts'[a].delivered
<1> DEFINE a == Head(job[p].todo)
<1>1. /\ job[p].pc = "mark" /\ arts' = MarkDelivered(a)
      /\ job' = [job EXCEPT ![p].pc = "send", ![p].todo = Tail(@), ![p].second = FALSE]
      /\ UNCHANGED <<file, row, answer, made, bounded>>
  BY DEF Marks, At
<1>2. job[p].todo # << >>
  BY <1>1 DEF Typed, MarkHolds
<1>3. a \in Ids /\ Tail(job[p].todo) \in Seq(1..Len(arts)) /\ ArtsTyped /\ arts \in [Ids -> ArtSet]
  BY <1>2, HeadIsId, IdsAre DEF Typed
<1>4. DoneJob(p) \in JobSet(Len(arts)) /\ DoneJob(p).pc = "send"
  <2>1. job[p] \in JobSet(Len(arts))
    BY JobIs
  <2> QED
    BY <1>3, <2>1 DEF DoneJob, JobSet, Stands
<1>5. job' = [job EXCEPT ![p] = DoneJob(p)]
  <2>1. job \in [Procs -> JobSet(Len(arts))]
    BY DEF Typed, JobsTyped
  <2> QED
    BY <1>1, <2>1 DEF DoneJob
<1> HIDE DEF a, Ids
<1>6. /\ arts' \in [Ids -> ArtSet]
      /\ arts'[a] = [arts[a] EXCEPT !.delivered = TRUE, !.tries = 0, !.quarantined = FALSE]
      /\ \A b \in Ids : b # a => arts'[b] = arts[b]
  BY <1>1, <1>3, MarkedArts
<1>7. /\ arts'[a].delivered /\ arts'[a].got = arts[a].got
      /\ arts'[a].kind = arts[a].kind /\ arts'[a].source = arts[a].source
      /\ arts'[a].shared = arts[a].shared /\ arts'[a].known = arts[a].known
  <2>1. arts[a] \in ArtSet
    BY <1>3
  <2> QED
    BY <1>6, <2>1 DEF ArtSet
<1>8. RowTyped' /\ UNCHANGED <<file, answer, writes>> /\ row' = row /\ made' = made
  BY <1>1 DEF Typed, RowTyped, bounded
<1>9. Typed' /\ Others(p) /\ job'[p] = DoneJob(p) /\ Ids' = Ids
  BY <1>4, <1>5, <1>6, <1>8, ArtsTypes
<1>10. \A b \in Ids : /\ SameSort(b) /\ SameShare(b) /\ SameNews(b)
                      /\ b # a => SameFate(b)
  BY <1>6, <1>7 DEF SameSort, SameShare, SameNews, SameFate
<1> QED
  BY <1>1, <1>2, <1>3, <1>7, <1>8, <1>9, <1>10 DEF a

LEMMA ReplyIsLostEffect ==
  ASSUME Typed, NEW p \in Procs, ReplyIsLost(p)
  PROVE  LET a == Head(job[p].todo) IN
         /\ Typed' /\ UNCHANGED <<row, made, job>> /\ Ids' = Ids /\ a \in Ids
         /\ \A b \in Ids : /\ SameSort(b) /\ SameNews(b)
                           /\ b # a => SameFate(b) /\ SameShare(b)
         /\ arts'[a].delivered = arts[a].delivered /\ arts'[a].shared
         /\ arts'[a].quarantined = arts[a].quarantined /\ arts'[a].dropped = arts[a].dropped
<1> DEFINE a == Head(job[p].todo)
<1>1. /\ job[p].todo # << >>
      /\ arts' = [arts EXCEPT ![a].got = @ + 1, ![a].shared = TRUE]
      /\ UNCHANGED <<file, row, answer, job, made, writes>>
  BY DEF ReplyIsLost, Fault
<1>2. a \in Ids /\ ArtsTyped /\ arts \in [Ids -> ArtSet]
  BY <1>1, HeadIsId, IdsAre DEF Typed
<1>3. job[p] \in JobSet(Len(arts)) /\ (job[p].pc = "mark" => job[p].todo # << >>)
  BY JobIs DEF Typed, MarkHolds
<1>4. job' = [job EXCEPT ![p] = job[p]]
  BY <1>1 DEF Typed, JobsTyped
<1> HIDE DEF a, Ids
<1> DEFINE y == [arts[a] EXCEPT !.got = arts[a].got + 1, !.shared = TRUE]
<1>6. /\ y \in ArtSet /\ y.shared
      /\ y.delivered = arts[a].delivered /\ y.quarantined = arts[a].quarantined /\ y.dropped = arts[a].dropped
      /\ y.kind = arts[a].kind /\ y.source = arts[a].source /\ y.known = arts[a].known
  <2> DEFINE n == arts[a].got + 1
  <2>1. arts[a] \in ArtSet /\ n \in Nat
    BY <1>2 DEF ArtSet
  <2> HIDE DEF n
  <2>2. y = [arts[a] EXCEPT !.got = n, !.shared = TRUE]
    BY DEF n
  <2> HIDE DEF y
  <2> QED
    BY <2>1, <2>2 DEF ArtSet
<1>7. arts' = [arts EXCEPT ![a] = y]
  BY <1>1, <1>2
<1> HIDE DEF y
<1>8. arts' \in [Ids -> ArtSet] /\ arts'[a] = y /\ \A b \in Ids : b # a => arts'[b] = arts[b]
  BY <1>2, <1>6, <1>7
<1>9. RowTyped' /\ UNCHANGED <<file, answer, writes>> /\ row' = row /\ made' = made /\ job' = job
  BY <1>1 DEF Typed, RowTyped
<1>10. Typed' /\ Ids' = Ids
  BY <1>3, <1>4, <1>8, <1>9, ArtsTypes
<1>11. \A b \in Ids : /\ SameSort(b) /\ SameNews(b)
                      /\ b # a => SameFate(b) /\ SameShare(b)
  BY <1>6, <1>8 DEF SameSort, SameShare, SameNews, SameFate
<1> QED
  BY <1>2, <1>6, <1>8, <1>9, <1>10, <1>11 DEF a

LEMMA FallsBackEffect ==
  ASSUME Typed, NEW p \in Procs, FallsBack(p)
  PROVE  /\ Typed' /\ Others(p) /\ UNCHANGED <<arts, row, made>>
         /\ job'[p] = [job[p] EXCEPT !.second = TRUE] /\ job[p].pc = "send"
<1>1. /\ job[p].pc = "send" /\ job' = [job EXCEPT ![p].second = TRUE]
      /\ UNCHANGED <<file, arts, row, answer, made, writes>>
  BY DEF FallsBack, Fault, At
<1> DEFINE j == [job[p] EXCEPT !.second = TRUE]
<1>2. job[p] \in JobSet(Len(arts))
  BY JobIs
<1>3. j \in JobSet(Len(arts)) /\ j.pc = "send"
  BY <1>1, <1>2 DEF JobSet
<1>4. job' = [job EXCEPT ![p] = j]
  BY <1>1
<1>5. RowTyped' /\ UNCHANGED <<file, arts, made, answer, writes>> /\ row' = row
  BY <1>1 DEF Typed, RowTyped
<1> HIDE DEF j
<1>6. Typed' /\ Others(p) /\ job'[p] = j
  BY <1>3, <1>4, <1>5, JobTypes
<1> QED
  BY <1>1, <1>5, <1>6 DEF j

FailedJob(p) == [job[p] EXCEPT !.todo = Tail(job[p].todo), !.second = FALSE,
                               !.bad = job[p].bad \cup {Head(job[p].todo)}]

LEMMA DeliveryFailsEffect ==
  ASSUME Typed, NEW p \in Procs, DeliveryFails(p)
  PROVE  LET a == Head(job[p].todo) IN
         /\ Typed' /\ Others(p) /\ UNCHANGED <<row, made>> /\ Ids' = Ids /\ a \in Ids
         /\ job[p].pc = "send" /\ job[p].todo # << >>
         /\ job'[p] = FailedJob(p)
         /\ \A b \in Ids : /\ SameSort(b) /\ SameShare(b)
                           /\ b # a => SameFate(b) /\ SameNews(b)
         /\ arts'[a].got = arts[a].got /\ arts'[a].delivered = arts[a].delivered
         /\ arts[a].quarantined => arts'[a].quarantined
         /\ arts[a].known => arts'[a].known
         /\ arts[a].dropped => arts'[a].dropped
         /\ job[p].how = "send" => arts'[a].known
         /\ job[p].how = "terminal" /\ arts'[a].quarantined => arts'[a].dropped
<1> DEFINE a == Head(job[p].todo)
<1> DEFINE once == OnlyOnce(p)
<1> DEFINE asked == job[p].how = "send"
<1> DEFINE logs == job[p].how = "terminal"
<1>1. /\ job[p].pc = "send" /\ job[p].todo # << >>
      /\ arts' = FailedArts(a, once, asked, logs)
      /\ job' = [job EXCEPT ![p].todo = Tail(@), ![p].second = FALSE, ![p].bad = @ \cup {a}]
      /\ UNCHANGED <<file, row, answer, made, writes>>
  BY DEF DeliveryFails, At, Fault, FailedArts
<1>2. a \in Ids /\ Tail(job[p].todo) \in Seq(1..Len(arts)) /\ ArtsTyped /\ Ids = 1..Len(arts) /\ Len(arts) \in Nat
  BY <1>1, HeadIsId, IdsAre DEF Typed
<1>3. FailedJob(p) \in JobSet(Len(arts)) /\ FailedJob(p).pc = "send"
  <2>1. job[p] \in JobSet(Len(arts)) /\ a \in 0..Len(arts)
    BY <1>2, JobIs
  <2> QED
    BY <1>1, <1>2, <2>1 DEF FailedJob, JobSet
<1>4. job' = [job EXCEPT ![p] = FailedJob(p)]
  <2>1. job \in [Procs -> JobSet(Len(arts))]
    BY DEF Typed, JobsTyped
  <2> QED
    BY <1>1, <2>1 DEF FailedJob
<1>5. once \in BOOLEAN /\ asked \in BOOLEAN /\ logs \in BOOLEAN
  BY DEF OnlyOnce
<1> DEFINE Y == FailedArts(a, once, asked, logs)
<1>6. /\ Y \in [Ids -> ArtSet]
      /\ \A b \in Ids : b # a => Y[b] = arts[b]
      /\ Y[a].kind = arts[a].kind /\ Y[a].source = arts[a].source
      /\ Y[a].got = arts[a].got /\ Y[a].delivered = arts[a].delivered /\ Y[a].shared = arts[a].shared
      /\ arts[a].quarantined => Y[a].quarantined
      /\ arts[a].known => Y[a].known
      /\ arts[a].dropped => Y[a].dropped
      /\ asked => Y[a].known
      /\ logs /\ Y[a].quarantined => Y[a].dropped
  <2> HIDE DEF a, once, asked, logs, Ids, FailedArts
  <2> QED
    BY <1>2, <1>5, FailuresRecorded
<1>7. RowTyped' /\ UNCHANGED <<file, answer, writes>> /\ row' = row /\ made' = made /\ arts' = Y
  BY <1>1 DEF Typed, RowTyped
<1> HIDE DEF Y, a, once, Ids
<1>8. Typed' /\ Others(p) /\ job'[p] = FailedJob(p) /\ Ids' = Ids
  BY <1>3, <1>4, <1>6, <1>7, ArtsTypes
<1>9. \A b \in Ids : /\ SameSort(b) /\ SameShare(b)
                     /\ b # a => SameFate(b) /\ SameNews(b)
  BY <1>6, <1>7 DEF SameSort, SameShare, SameNews, SameFate
<1> QED
  BY <1>1, <1>2, <1>6, <1>7, <1>8, <1>9, ZenonT(60) DEF a

LEMMA AnswerIsOutEffect ==
  ASSUME Typed, NEW p \in Procs, AnswerIsOut(p)
  PROVE  /\ Typed' /\ Others(p) /\ UNCHANGED <<row, made>> /\ Ids' = Ids
         /\ Through(p) /\ job[p].how \in {"turn", "recovered"} /\ job[p].round = 0
         /\ job'[p] = FilesJob(p)
         /\ \A b \in Ids : /\ SameSort(b) /\ SameShare(b) /\ SameFate(b)
                           /\ arts'[b].known <=> (arts[b].known \/ b \in job[p].bad)
<1>1. /\ Through(p) /\ job[p].how \in {"turn", "recovered"} /\ job[p].round = 0
      /\ arts' = Tell(job[p].bad)
      /\ job' = [job EXCEPT ![p].pc = "files", ![p].bad = {}, ![p].want = Ask(FilesOf(p), 1)]
      /\ UNCHANGED <<file, row, answer, made, bounded>>
  BY DEF AnswerIsOut
<1>2. /\ arts' \in [Ids -> ArtSet] /\ arts \in [Ids -> ArtSet]
      /\ \A b \in Ids : /\ arts'[b] = [arts[b] EXCEPT !.known = arts[b].known \/ b \in job[p].bad]
                        /\ arts'[b].known <=> (arts[b].known \/ b \in job[p].bad)
  BY <1>1, ToldArts, IdsAre DEF Typed
<1>3. \A b \in Ids : SameSort(b) /\ SameShare(b) /\ SameFate(b)
  <2> HIDE DEF Ids
  <2> SUFFICES ASSUME NEW b \in Ids PROVE SameSort(b) /\ SameShare(b) /\ SameFate(b)
    OBVIOUS
  <2> DEFINE k == arts[b].known \/ b \in job[p].bad
  <2>1. arts'[b] = [arts[b] EXCEPT !.known = k] /\ arts[b] \in ArtSet
    BY <1>2
  <2> HIDE DEF k
  <2> QED
    BY <2>1 DEF ArtSet, SameSort, SameShare, SameFate
<1>4. job' = [job EXCEPT ![p] = FilesJob(p)]
  BY <1>1 DEF FilesJob
<1>5. /\ FilesJob(p) \in JobSet(Len(arts)) /\ FilesJob(p).pc = "files"
      /\ RowTyped' /\ UNCHANGED <<file, answer, writes>> /\ row' = row /\ made' = made
  BY <1>1, FilesAre DEF Typed, RowTyped, bounded
<1>6. Typed' /\ Others(p) /\ job'[p] = FilesJob(p) /\ Ids' = Ids
  BY <1>2, <1>4, <1>5, ArtsTypes
<1> QED
  BY <1>1, <1>2, <1>3, <1>5, <1>6

LEMMA RoundsAre ==
  ASSUME NEW h \in {"turn", "recovered", "terminal", "startup"}
  PROVE  /\ DOMAIN Rounds[h] \subseteq 1..5
         /\ \A n \in DOMAIN Rounds[h] : Rounds[h][n] \in Kinds \cup {"reply"}
         /\ \A k \in Kinds : \E n \in DOMAIN Rounds[h] : Rounds[h][n] = k
<1> DEFINE four == <<"document", "image", "video", "audio">>
<1> DEFINE five == <<"image", "document", "video", "reply", "audio">>
<1> DEFINE iva == <<"image", "document", "video", "audio">>
<1>1. /\ Rounds["turn"] = five /\ Rounds["recovered"] = iva
      /\ Rounds["terminal"] = four /\ Rounds["startup"] = iva
  BY DEF Rounds
<1>2. DOMAIN four = 1..4 /\ DOMAIN iva = 1..4 /\ DOMAIN five = 1..5
  OBVIOUS
<1>3. 1..4 = {1, 2, 3, 4} /\ 1..5 = {1, 2, 3, 4, 5}
  OBVIOUS
<1>4. four[1] = "document" /\ four[2] = "image" /\ four[3] = "video" /\ four[4] = "audio"
  OBVIOUS
<1>5. iva[1] = "image" /\ iva[2] = "document" /\ iva[3] = "video" /\ iva[4] = "audio"
  OBVIOUS
<1>6. five[1] = "image" /\ five[2] = "document" /\ five[3] = "video" /\ five[4] = "reply" /\ five[5] = "audio"
  OBVIOUS
<1> HIDE DEF four, five, iva
<1>7. CASE h = "terminal"
  BY <1>1, <1>2, <1>3, <1>4, <1>7 DEF Kinds
<1>8. CASE h \in {"recovered", "startup"}
  BY <1>1, <1>2, <1>3, <1>5, <1>8 DEF Kinds
<1>9. CASE h = "turn"
  BY <1>1, <1>2, <1>3, <1>6, <1>9 DEF Kinds
<1> QED
  BY <1>7, <1>8, <1>9

\* The list of a modality: what waits, each artifact once.
LEMMA UndeliveredLists ==
  ASSUME ArtsTyped, NEW kind
  PROVE  /\ Undelivered(kind) \in Seq(1..Len(arts))
         /\ ToSet(Undelivered(kind)) = {a \in Ids : Waiting(a) /\ arts[a].kind = kind}
         /\ \A i, k \in DOMAIN Undelivered(kind) : Undelivered(kind)[i] = Undelivered(kind)[k] => i = k
         /\ Undelivered(kind) = << >> => {a \in Ids : Waiting(a) /\ arts[a].kind = kind} = {}
<1> DEFINE S == {a \in Ids : Waiting(a) /\ arts[a].kind = kind}
<1>1. Ids = 1..Len(arts) /\ Ids \in SUBSET Nat /\ IsFiniteSet(Ids)
  BY IdsAre
<1>2. S \in SUBSET Ids
  OBVIOUS
<1>3. IsFiniteSet(S) /\ S \in SUBSET Nat
  BY <1>1, <1>2, FS_Subset
<1>4. Undelivered(kind) = InOrder(S)
  BY DEF Undelivered
<1> HIDE DEF S
<1>5. /\ InOrder(S) \in Seq(S) /\ ToSet(InOrder(S)) = S
      /\ \A i, k \in DOMAIN InOrder(S) : InOrder(S)[i] = InOrder(S)[k] => i = k
      /\ InOrder(S) = << >> => S = {}
  BY <1>3, InOrderLists
<1>6. InOrder(S) \in Seq(1..Len(arts))
  BY <1>1, <1>2, <1>5, SeqMonotonic
<1> QED
  BY <1>4, <1>5, <1>6 DEF S

\* The list of the round.
ListOf(kind) == IF kind = "reply" THEN << >> ELSE Undelivered(kind)
RoundJob(p, n, kind) ==
  [SendJob(job[p], ListOf(kind)) EXCEPT !.round = n, !.owed = job[p].owed \cup job[p].bad,
                                        !.pc = IF kind = "reply" THEN "speak" ELSE "send"]

LEMMA GoesOnEffect ==
  ASSUME Typed, NEW p \in Procs, GoesOn(p)
  PROVE  /\ Typed' /\ Others(p) /\ UNCHANGED <<row, made>> /\ Ids' = Ids
         /\ Listing(p) /\ job[p].how \in {"turn", "recovered", "terminal", "startup"}
         /\ \E n \in Later(p) :
              LET kind == Rounds[job[p].how][n] IN
              /\ n \in 1..5 /\ \A m \in Later(p) : n <= m
              /\ job'[p] = RoundJob(p, n, kind)
              /\ RoundJob(p, n, kind).pc = IF kind = "reply" THEN "speak" ELSE "send"
              /\ RoundJob(p, n, kind).todo = ListOf(kind) /\ RoundJob(p, n, kind).held = Rest.held
              /\ RoundJob(p, n, kind).how = job[p].how /\ RoundJob(p, n, kind).task = job[p].task
              /\ RoundJob(p, n, kind).want = job[p].want /\ RoundJob(p, n, kind).bad = {}
              /\ RoundJob(p, n, kind).owed = job[p].owed \cup job[p].bad
              /\ RoundJob(p, n, kind).round = n
              /\ \A b \in Ids : /\ SameSort(b) /\ SameFate(b) /\ SameNews(b)
                                /\ arts'[b].shared <=> (arts[b].shared \/ (b \in ToSet(ListOf(kind)) /\ b \in InHand))
<1>0. ArtsTyped /\ Len(arts) \in Nat /\ arts \in [Ids -> ArtSet]
  BY IdsAre DEF Typed
<1>1. /\ Listing(p) /\ job[p].how \in {"turn", "recovered", "terminal", "startup"} /\ NextRound(p)
      /\ UNCHANGED <<file, row, answer, made, bounded>>
  BY DEF GoesOn
<1> DEFINE n == Min(Later(p))
<1> DEFINE kind == Rounds[job[p].how][n]
<1>2. n \in Later(p) /\ n \in 1..5 /\ \A m \in Later(p) : n <= m
  <2>1. Later(p) # {} /\ Later(p) \in SUBSET (1..5)
    BY <1>1, RoundsAre DEF NextRound, Later
  <2>2. IsFiniteSet(Later(p)) /\ Later(p) \in SUBSET Nat
    <3>1. PICK m \in Nat : m = 5
      OBVIOUS
    <3>2. IsFiniteSet(1..m)
      BY FS_Interval
    <3> QED
      BY <2>1, <3>1, <3>2, FS_Subset
  <2> QED
    BY <2>1, <2>2, MinIsLeast, SMTT(60)
<1>3. /\ job' = [job EXCEPT ![p] = [[Sends(p, ListOf(kind))[p] EXCEPT !.round = n, !.owed = @ \cup job[p].bad]
                                      EXCEPT !.pc = IF kind = "reply" THEN "speak" ELSE "send"]]
      /\ arts' = Share(ToSet(ListOf(kind)))
  BY <1>1 DEF NextRound, ListOf
<1>4. ListOf(kind) \in Seq(1..Len(arts))
  BY <1>0, UndeliveredLists, RestIsJob DEF ListOf
<1> HIDE DEF n, kind
<1> DEFINE j == SendJob(job[p], ListOf(kind))
<1> DEFINE c == IF kind = "reply" THEN "speak" ELSE "send"
<1> DEFINE o == job[p].owed \cup job[p].bad
<1>5. /\ Sends(p, ListOf(kind)) = [job EXCEPT ![p] = j]
      /\ j \in JobSet(Len(arts)) /\ j.todo = ListOf(kind) /\ j.held = Rest.held /\ j.bad = {}
      /\ j.how = job[p].how /\ j.task = job[p].task /\ j.owed = job[p].owed /\ j.want = job[p].want
  <2>1. ListOf(kind) \in Seq(1..Len(arts)) /\ Len(arts) \in Nat /\ Len(arts) <= Len(arts)
    BY <1>0, <1>4
  <2> HIDE DEF ListOf, SendJob, Sends
  <2>2. \A s \in Seq(1..Len(arts)) :
           /\ Sends(p, s) = [job EXCEPT ![p] = SendJob(job[p], s)]
           /\ SendJob(job[p], s) \in JobSet(Len(arts)) /\ SendJob(job[p], s).todo = s
           /\ SendJob(job[p], s).held = Rest.held /\ SendJob(job[p], s).bad = {}
           /\ SendJob(job[p], s).how = job[p].how /\ SendJob(job[p], s).task = job[p].task
           /\ SendJob(job[p], s).owed = job[p].owed /\ SendJob(job[p], s).want = job[p].want
    <3> SUFFICES ASSUME NEW s \in Seq(1..Len(arts))
                 PROVE  /\ Sends(p, s) = [job EXCEPT ![p] = SendJob(job[p], s)]
                        /\ SendJob(job[p], s) \in JobSet(Len(arts)) /\ SendJob(job[p], s).todo = s
                        /\ SendJob(job[p], s).held = Rest.held /\ SendJob(job[p], s).bad = {}
                        /\ SendJob(job[p], s).how = job[p].how /\ SendJob(job[p], s).task = job[p].task
                        /\ SendJob(job[p], s).owed = job[p].owed /\ SendJob(job[p], s).want = job[p].want
      OBVIOUS
    <3>1. Sends(p, s) = [job EXCEPT ![p] = SendJob(job[p], s)]
      BY <2>1, SendsIs, SMTT(60)
    <3>2. SendJob(job[p], s) \in JobSet(Len(arts)) /\ SendJob(job[p], s).todo = s
      BY <2>1, SendsIs
    <3>3. SendJob(job[p], s).held = Rest.held /\ SendJob(job[p], s).bad = {}
      BY <2>1, SendsIs, ZenonT(60)
    <3>4. SendJob(job[p], s).how = job[p].how /\ SendJob(job[p], s).task = job[p].task
      BY <2>1, SendsIs, ZenonT(90)
    <3>5. SendJob(job[p], s).owed = job[p].owed /\ SendJob(job[p], s).want = job[p].want
      BY JobIs DEF SendJob, JobSet
    <3> QED
      BY <3>1, <3>2, <3>3, <3>4, <3>5, Zenon
  <2> QED
    BY <2>1, <2>2
<1>6. c \in Stands /\ o \in SUBSET (0..Len(arts)) /\ n \in 0..5 /\ c # "mark"
  <2>1. job[p] \in JobSet(Len(arts))
    BY JobIs
  <2> QED
    BY <1>2, <2>1 DEF JobSet, Stands
<1>7. RoundJob(p, n, kind) = [j EXCEPT !.round = n, !.owed = o, !.pc = c]
  BY DEF RoundJob
<1>8. job' = [job EXCEPT ![p] = RoundJob(p, n, kind)]
  <2>1. Sends(p, ListOf(kind))[p] = j
    <3> HIDE DEF j
    <3>1. p \in DOMAIN job
      BY DEF Typed, JobsTyped
    <3> QED
      BY <1>5, <3>1
  <2>2. [[j EXCEPT !.round = n, !.owed = @ \cup job[p].bad] EXCEPT !.pc = c] = RoundJob(p, n, kind)
    <3> HIDE DEF j, c
    <3>1. o = j.owed \cup job[p].bad
      BY <1>5
    <3> HIDE DEF o
    <3> QED
      BY <1>5, <1>7, <3>1 DEF JobSet
  <2> QED
    BY <1>3, <2>1, <2>2
<1> HIDE DEF j, o
<1>9. /\ RoundJob(p, n, kind) \in JobSet(Len(arts))
      /\ RoundJob(p, n, kind).pc = c
      /\ RoundJob(p, n, kind).todo = j.todo /\ RoundJob(p, n, kind).held = j.held
      /\ RoundJob(p, n, kind).how = j.how /\ RoundJob(p, n, kind).task = j.task
      /\ RoundJob(p, n, kind).want = j.want /\ RoundJob(p, n, kind).bad = j.bad
      /\ RoundJob(p, n, kind).owed = o
      /\ RoundJob(p, n, kind).round = n
  <2> HIDE DEF c
  <2> QED
    BY <1>5, <1>6, <1>7 DEF JobSet
<1> DEFINE L == ToSet(ListOf(kind))
<1>10. /\ arts' \in [Ids -> ArtSet]
       /\ \A b \in Ids :
            /\ arts'[b] = [arts[b] EXCEPT !.shared = arts[b].shared \/ (b \in L /\ b \in InHand)]
            /\ arts'[b].shared <=> (arts[b].shared \/ (b \in L /\ b \in InHand))
  BY <1>0, <1>3, SharedArts
<1>11. \A b \in Ids : SameSort(b) /\ SameFate(b) /\ SameNews(b)
  <2> HIDE DEF Ids, InHand
  <2> SUFFICES ASSUME NEW b \in Ids PROVE SameSort(b) /\ SameFate(b) /\ SameNews(b)
    OBVIOUS
  <2> DEFINE k == arts[b].shared \/ (b \in L /\ b \in InHand)
  <2>1. arts'[b] = [arts[b] EXCEPT !.shared = k] /\ arts[b] \in ArtSet
    BY <1>0, <1>10
  <2> HIDE DEF k
  <2> QED
    BY <2>1 DEF ArtSet, SameSort, SameNews, SameFate
<1>12. RowTyped' /\ UNCHANGED <<file, answer, writes>> /\ row' = row /\ made' = made
  BY <1>1 DEF Typed, RowTyped, bounded
<1>13. Typed' /\ Others(p) /\ job'[p] = RoundJob(p, n, kind) /\ Ids' = Ids
  BY <1>6, <1>8, <1>9, <1>10, <1>12, ArtsTypes
<1>14. /\ job'[p] = RoundJob(p, n, kind)
       /\ RoundJob(p, n, kind).pc = IF kind = "reply" THEN "speak" ELSE "send"
       /\ RoundJob(p, n, kind).todo = ListOf(kind) /\ RoundJob(p, n, kind).held = Rest.held
       /\ RoundJob(p, n, kind).how = job[p].how /\ RoundJob(p, n, kind).task = job[p].task
       /\ RoundJob(p, n, kind).want = job[p].want /\ RoundJob(p, n, kind).bad = {}
       /\ RoundJob(p, n, kind).owed = job[p].owed \cup job[p].bad
       /\ RoundJob(p, n, kind).round = n
       /\ \A b \in Ids : /\ SameSort(b) /\ SameFate(b) /\ SameNews(b)
                         /\ arts'[b].shared <=> (arts[b].shared \/ (b \in ToSet(ListOf(kind)) /\ b \in InHand))
  BY <1>5, <1>9, <1>10, <1>11, <1>13 DEF o
<1> HIDE DEF RoundJob, ListOf, L, c, Ids, InHand
<1> QED
  BY <1>1, <1>2, <1>12, <1>13, <1>14 DEF kind

LEMMA FinishesEffect ==
  ASSUME Typed, NEW p \in Procs, Finishes(p)
  PROVE  /\ Typed' /\ Others(p) /\ UNCHANGED made /\ Ids' = Ids
         /\ Listing(p) /\ job[p].how \in {"turn", "recovered", "terminal", "startup"} /\ Later(p) = {}
         /\ job'[p] = Ended(p)
         /\ Settle(job[p].task, IF job[p].how = "turn" /\ job[p].owed \cup job[p].bad # {}
                                  THEN "failed" ELSE "completed")
         /\ \A b \in Ids : /\ SameSort(b) /\ SameShare(b) /\ SameFate(b)
                           /\ arts[b].known => arts'[b].known
<1> DEFINE lost == job[p].owed \cup job[p].bad
<1>1. /\ Listing(p) /\ job[p].how \in {"turn", "recovered", "terminal", "startup"} /\ Later(p) = {}
      /\ arts' = IF job[p].how = "turn" THEN Tell(lost) ELSE arts
      /\ Settle(job[p].task, IF job[p].how = "turn" /\ lost # {} THEN "failed" ELSE "completed")
      /\ Resting(p) /\ UNCHANGED <<file, answer, made, bounded>>
  BY DEF Finishes
<1>2. ArtsTyped /\ arts \in [Ids -> ArtSet]
  BY IdsAre DEF Typed
<1>3. /\ arts' \in [Ids -> ArtSet]
      /\ \A b \in Ids : /\ SameSort(b) /\ SameShare(b) /\ SameFate(b)
                        /\ arts[b].known => arts'[b].known
  <2>1. CASE job[p].how = "turn"
    <3>1. /\ arts' \in [Ids -> ArtSet]
          /\ \A b \in Ids : /\ arts'[b] = [arts[b] EXCEPT !.known = arts[b].known \/ b \in lost]
                            /\ arts'[b].known <=> (arts[b].known \/ b \in lost)
      BY <1>1, <1>2, <2>1, ToldArts
    <3> HIDE DEF Ids, lost
    <3>2. ASSUME NEW b \in Ids PROVE SameSort(b) /\ SameShare(b) /\ SameFate(b)
      <4> DEFINE k == arts[b].known \/ b \in lost
      <4>1. arts'[b] = [arts[b] EXCEPT !.known = k] /\ arts[b] \in ArtSet
        BY <1>2, <3>1
      <4> HIDE DEF k
      <4> QED
        BY <4>1 DEF ArtSet, SameSort, SameShare, SameFate
    <3> QED
      BY <3>1, <3>2
  <2>2. CASE job[p].how # "turn"
    BY <1>1, <1>2, <2>2 DEF SameSort, SameShare, SameFate
  <2> QED
    BY <2>1, <2>2
<1>4. RowTyped'
  BY <1>1, SettleTypes, TaskOf
<1>5. UNCHANGED <<file, made, answer, writes>> /\ made' = made
  BY <1>1 DEF bounded
<1>6. Typed' /\ Others(p) /\ job'[p] = Ended(p) /\ Ids' = Ids
  BY <1>1, <1>3, <1>4, <1>5, RestingTypes
<1> QED
  BY <1>1, <1>3, <1>5, <1>6

\* What was just made is sent at once.
LEMMA SendsNewTypes ==
  ASSUME Typed, NEW p \in Procs, NEW x \in ArtSet, arts' = Append(arts, x), MadeFor(p, Len(arts) + 1),
         job' = Sends(p, <<Len(arts) + 1>>), UNCHANGED <<file, row, answer, bounded>>
  PROVE  /\ Typed' /\ Others(p) /\ UNCHANGED row
         /\ Ids' = Ids \cup {Len(arts) + 1} /\ arts'[Len(arts) + 1] = x
         /\ \A b \in Ids : arts'[b] = arts[b]
         /\ job'[p] = SendJob(job[p], <<Len(arts) + 1>>)
<1>1. Len(arts) \in Nat
  BY LenProperties DEF Typed, ArtsTyped
<1> DEFINE m == Len(arts) + 1
<1>2. m \in Nat /\ Len(arts) <= m /\ <<m>> \in Seq(1..m)
  BY <1>1
<1> HIDE DEF m
<1>3. job' = [job EXCEPT ![p] = SendJob(job[p], <<m>>)]
  <2>1. job' = Sends(p, <<m>>)
    BY DEF m
  <2>2. job \in [Procs -> JobSet(Len(arts))]
    BY DEF Typed, JobsTyped
  <2> QED
    BY <2>1, <2>2 DEF Sends, SendJob
<1>4. SendJob(job[p], <<m>>) \in JobSet(m) /\ SendJob(job[p], <<m>>).pc = "send"
  BY <1>2, SendsIs
<1>5. \/ made' = made
      \/ \E t \in Tasks : made' = [made EXCEPT ![t] = @ \cup {m}]
  BY TaskOf DEF MadeFor, m
<1>6. UNCHANGED <<file, row, answer, writes>> /\ (SendJob(job[p], <<m>>).pc = "mark" => SendJob(job[p], <<m>>).todo # << >>)
  BY <1>4 DEF bounded
<1>7. /\ Typed' /\ Others(p) /\ job'[p] = SendJob(job[p], <<m>>)
      /\ Ids' = Ids \cup {m} /\ arts'[m] = x
      /\ \A b \in Ids : arts'[b] = arts[b]
  BY <1>3, <1>4, <1>5, <1>6, AddTypes DEF m
<1> QED
  BY <1>7 DEF m

LEMMA SpeaksEffect ==
  ASSUME Typed, NEW p \in Procs, Speaks(p), job[p].task \in Tasks
  PROVE  /\ Typed' /\ Others(p) /\ UNCHANGED row /\ job[p].pc = "speak"
         /\ Ids' = Ids \cup {Len(arts) + 1}
         /\ LET x == arts'[Len(arts) + 1] IN x.got = 0 /\ ~x.delivered /\ ~x.quarantined
         /\ \A b \in Ids : arts'[b] = arts[b]
         /\ MadeFor(p, Len(arts) + 1)
         /\ job'[p] = SendJob(job[p], <<Len(arts) + 1>>)
<1> DEFINE x == Artifact("audio", None, "automatic")
<1>1. /\ job[p].pc = "speak" /\ arts' = Append(arts, x)
      /\ made' = [made EXCEPT ![job[p].task] = @ \cup {Len(arts) + 1}]
      /\ job' = Sends(p, <<Len(arts) + 1>>)
      /\ UNCHANGED <<file, row, answer, bounded>>
  BY DEF Speaks, At
<1>2. x \in ArtSet /\ x.got = 0 /\ ~x.delivered /\ ~x.quarantined
  BY NewArtifact DEF Typed, Kinds
<1>3. MadeFor(p, Len(arts) + 1)
  BY <1>1, TaskOf DEF MadeFor
<1> HIDE DEF x
<1> QED
  BY <1>1, <1>2, <1>3, SendsNewTypes

LEMMA GeneratesEffect ==
  ASSUME Typed, NEW p \in Procs, Generates(p)
  PROVE  /\ Typed' /\ Others(p) /\ UNCHANGED row /\ job[p].pc = "generate"
         /\ Ids' = Ids \cup {Len(arts) + 1}
         /\ LET x == arts'[Len(arts) + 1] IN x.got = 0 /\ ~x.delivered /\ ~x.quarantined /\ x.source = "telegram"
         /\ \A b \in Ids : arts'[b] = arts[b]
         /\ MadeFor(p, Len(arts) + 1)
         /\ job'[p] = SendJob(job[p], <<Len(arts) + 1>>)
<1> DEFINE x == Artifact("image", None, "telegram")
<1>1. /\ job[p].pc = "generate" /\ arts' = Append(arts, x)
      /\ MadeFor(p, Len(arts) + 1)
      /\ job' = Sends(p, <<Len(arts) + 1>>)
      /\ UNCHANGED <<file, row, answer, bounded>>
  BY DEF Generates, At, MadeFor
<1>2. x \in ArtSet /\ x.got = 0 /\ ~x.delivered /\ ~x.quarantined /\ x.source = "telegram"
  BY NewArtifact DEF Typed, Kinds
<1> HIDE DEF x
<1> QED
  BY <1>1, <1>2, SendsNewTypes

\* Nothing was made, and that is what failed.
NothingJob(p) == [SendJob(job[p], << >>) EXCEPT !.bad = {0}]
LEMMA NothingTypes ==
  ASSUME Typed, NEW p \in Procs, job' = [Sends(p, << >>) EXCEPT ![p].bad = {0}],
         UNCHANGED <<file, arts, row, answer, made, writes>>
  PROVE  /\ Typed' /\ Others(p) /\ UNCHANGED <<arts, row, made>> /\ job'[p] = NothingJob(p)
         /\ NothingJob(p).pc = "send" /\ NothingJob(p).todo = << >>
         /\ NothingJob(p).held = Rest.held /\ NothingJob(p).bad = {0}
         /\ NothingJob(p).how = job[p].how /\ NothingJob(p).task = job[p].task
         /\ NothingJob(p).owed = job[p].owed /\ NothingJob(p).want = job[p].want
         /\ NothingJob(p).round = job[p].round
<1>1. Len(arts) \in Nat /\ << >> \in Seq(1..Len(arts)) /\ {0} \in SUBSET (0..Len(arts))
  BY LenProperties DEF Typed, ArtsTyped
<1>2. Rest.held \in [Branches -> Seq(1..Len(arts))]
  BY <1>1, RestIsJob
<1>3. NothingJob(p) = [job[p] EXCEPT !.pc = "send", !.todo = << >>, !.held = Rest.held, !.second = FALSE,
                                     !.bad = {0}]
  <2>1. job[p] \in JobSet(Len(arts))
    BY JobIs
  <2> QED
    BY <2>1 DEF NothingJob, SendJob, JobSet
<1>4. /\ NothingJob(p) \in JobSet(Len(arts))
      /\ NothingJob(p).pc = "send" /\ NothingJob(p).todo = << >>
      /\ NothingJob(p).held = Rest.held /\ NothingJob(p).bad = {0}
      /\ NothingJob(p).how = job[p].how /\ NothingJob(p).task = job[p].task
      /\ NothingJob(p).owed = job[p].owed /\ NothingJob(p).want = job[p].want
      /\ NothingJob(p).round = job[p].round
  <2>1. job[p] \in JobSet(Len(arts))
    BY JobIs
  <2> QED
    BY <1>1, <1>2, <1>3, <2>1, ZenonT(90) DEF JobSet, Stands
<1>5. job' = [job EXCEPT ![p] = NothingJob(p)]
  <2>1. Sends(p, << >>) = [job EXCEPT ![p] = SendJob(job[p], << >>)]
    <3>1. job \in [Procs -> JobSet(Len(arts))]
      BY DEF Typed, JobsTyped
    <3> QED
      BY <3>1 DEF Sends, SendJob
  <2>2. [[job EXCEPT ![p] = SendJob(job[p], << >>)] EXCEPT ![p].bad = {0}]
         = [job EXCEPT ![p] = [SendJob(job[p], << >>) EXCEPT !.bad = {0}]]
    <3>1. p \in DOMAIN job
      BY DEF Typed, JobsTyped
    <3> QED
      BY <3>1
  <2> QED
    BY <2>1, <2>2 DEF NothingJob
<1>6. RowTyped' /\ UNCHANGED <<file, arts, made, answer, writes>> /\ UNCHANGED <<arts, row, made>>
  BY DEF Typed, RowTyped
<1>7. NothingJob(p).pc = "mark" => NothingJob(p).todo # << >>
  BY <1>4
<1>8. NothingJob(p) \in JobSet(Len(arts))
  BY <1>4
<1>9. Typed' /\ Others(p) /\ job'[p] = NothingJob(p)
  <2> HIDE DEF NothingJob
  <2> QED
    BY <1>5, <1>6, <1>7, <1>8, JobTypes
<1> QED
  BY <1>4, <1>6, <1>9

LEMMA SpeechFailsEffect ==
  ASSUME Typed, NEW p \in Procs, SpeechFails(p)
  PROVE  /\ job[p].pc = "speak" /\ job' = [Sends(p, << >>) EXCEPT ![p].bad = {0}]
         /\ UNCHANGED <<file, arts, row, answer, made, writes>>
BY DEF SpeechFails, At, Fault

LEMMA GenerationFailsEffect ==
  ASSUME Typed, NEW p \in Procs, GenerationFails(p)
  PROVE  /\ job[p].pc = "generate" /\ job' = [Sends(p, << >>) EXCEPT ![p].bad = {0}]
         /\ UNCHANGED <<file, arts, row, answer, made, writes>>
BY DEF GenerationFails, At, Fault

SpeakJob(p) == [job[p] EXCEPT !.pc = "speak", !.round = 1]
LEMMA SaysGeneratedEffect ==
  ASSUME Typed, NEW p \in Procs, SaysGenerated(p)
  PROVE  /\ Typed' /\ Others(p) /\ UNCHANGED made /\ Ids' = Ids
         /\ Through(p) /\ job[p].how = "direct" /\ job[p].round = 0
         /\ \A b \in Ids : /\ SameSort(b) /\ SameShare(b) /\ SameFate(b)
                           /\ arts'[b].known <=> (arts[b].known \/ b \in job[p].bad)
         /\ \/ /\ job[p].bad = {} /\ job[p].task \in Speak
               /\ job'[p] = SpeakJob(p) /\ row' = row
            \/ /\ job'[p] = Ended(p)
               /\ Settle(job[p].task, IF job[p].bad = {} THEN "completed" ELSE "failed")
<1>1. /\ Through(p) /\ job[p].how = "direct" /\ job[p].round = 0
      /\ arts' = Tell(job[p].bad)
      /\ IF job[p].bad = {} /\ job[p].task \in Speak
           THEN job' = [job EXCEPT ![p].pc = "speak", ![p].round = 1] /\ UNCHANGED row
           ELSE Resting(p) /\ Settle(job[p].task, IF job[p].bad = {} THEN "completed" ELSE "failed")
      /\ UNCHANGED <<file, answer, made, bounded>>
  BY DEF SaysGenerated
<1>2. /\ arts' \in [Ids -> ArtSet] /\ arts \in [Ids -> ArtSet]
      /\ \A b \in Ids : /\ arts'[b] = [arts[b] EXCEPT !.known = arts[b].known \/ b \in job[p].bad]
                        /\ arts'[b].known <=> (arts[b].known \/ b \in job[p].bad)
  BY <1>1, ToldArts, IdsAre DEF Typed
<1>3. \A b \in Ids : SameSort(b) /\ SameShare(b) /\ SameFate(b)
  <2> HIDE DEF Ids
  <2> SUFFICES ASSUME NEW b \in Ids PROVE SameSort(b) /\ SameShare(b) /\ SameFate(b)
    OBVIOUS
  <2> DEFINE k == arts[b].known \/ b \in job[p].bad
  <2>1. arts'[b] = [arts[b] EXCEPT !.known = k] /\ arts[b] \in ArtSet
    BY <1>2
  <2> HIDE DEF k
  <2> QED
    BY <2>1 DEF ArtSet, SameSort, SameShare, SameFate
<1>4. UNCHANGED <<file, made, answer, writes>> /\ made' = made
  BY <1>1 DEF bounded
<1>5. CASE job[p].bad = {} /\ job[p].task \in Speak
  <2>1. SpeakJob(p) \in JobSet(Len(arts)) /\ SpeakJob(p).pc = "speak"
    <3>1. job[p] \in JobSet(Len(arts)) /\ 1 \in 0..5
      BY JobIs
    <3> QED
      BY <3>1 DEF SpeakJob, JobSet, Stands
  <2>2. job' = [job EXCEPT ![p] = SpeakJob(p)]
    BY <1>1, <1>5 DEF SpeakJob
  <2>3. RowTyped' /\ row' = row /\ UNCHANGED <<file, answer, writes>>
    BY <1>1, <1>4, <1>5 DEF Typed, RowTyped
  <2>4. Typed' /\ Others(p) /\ job'[p] = SpeakJob(p) /\ Ids' = Ids
    BY <1>2, <1>4, <2>1, <2>2, <2>3, ArtsTypes
  <2> QED
    BY <1>1, <1>2, <1>3, <1>4, <1>5, <2>3, <2>4
<1>6. CASE ~(job[p].bad = {} /\ job[p].task \in Speak)
  <2>1. Resting(p) /\ Settle(job[p].task, IF job[p].bad = {} THEN "completed" ELSE "failed")
    BY <1>1, <1>6
  <2>2. RowTyped'
    BY <2>1, SettleTypes, TaskOf
  <2>3. Typed' /\ Others(p) /\ job'[p] = Ended(p) /\ Ids' = Ids
    BY <1>2, <1>4, <2>1, <2>2, RestingTypes
  <2> QED
    BY <1>1, <1>2, <1>3, <1>4, <2>1, <2>3
<1> QED
  BY <1>5, <1>6

----------------------------------------------------------------------------
(* What begins a job, and what happens beside the jobs.                    *)

LEMMA BeginTypes ==
  ASSUME Typed, NEW p \in Procs,
         NEW j \in JobSet(Len(arts)), j.pc = "mark" => j.todo # << >>, job' = [job EXCEPT ![p] = j],
         RowTyped', MadeTyped', AnswerTyped', UNCHANGED <<file, arts, writes>>
  PROVE  Typed' /\ Others(p) /\ job'[p] = j
<1>1. job' \in [Procs -> JobSet(Len(arts))] /\ Others(p) /\ job'[p] = j
  BY DEF Typed, JobsTyped, Others
<1>2. JobsTyped' /\ ArtsTyped' /\ FileTyped' /\ AnswerTyped'
  BY <1>1 DEF Typed, JobsTyped, ArtsTyped, FileTyped
<1>3. MarkHolds'
  BY <1>1 DEF Typed, MarkHolds, Others
<1> QED
  BY <1>1, <1>2, <1>3 DEF Typed

NewJob(h, c, t, W) == [Rest EXCEPT !.how = h, !.pc = c, !.task = t, !.want = W]
LEMMA NewJobIs ==
  ASSUME NEW n \in Nat, NEW h \in Modes, NEW c \in Stands, NEW t \in Tasks \cup {0}, NEW W \in SUBSET Request
  PROVE  /\ NewJob(h, c, t, W) \in JobSet(n)
         /\ NewJob(h, c, t, W).how = h /\ NewJob(h, c, t, W).pc = c
         /\ NewJob(h, c, t, W).task = t /\ NewJob(h, c, t, W).want = W
         /\ NewJob(h, c, t, W).todo = << >> /\ NewJob(h, c, t, W).held = Rest.held
         /\ NewJob(h, c, t, W).bad = {} /\ NewJob(h, c, t, W).owed = {} /\ NewJob(h, c, t, W).round = 0
<1>1. /\ Rest \in JobSet(n) /\ Rest.todo = << >> /\ Rest.bad = {} /\ Rest.owed = {} /\ Rest.round = 0
  BY RestIsJob
<1> QED
  BY <1>1 DEF NewJob, JobSet

LEMMA PlainNewJob ==
  ASSUME NEW h, NEW c, NEW t
  PROVE  [Rest EXCEPT !.how = h, !.pc = c, !.task = t] = NewJob(h, c, t, {})
<1>1. Rest \in JobSet(0) /\ Rest.want = {}
  BY RestIsJob
<1> QED
  BY <1>1 DEF NewJob, JobSet

\* Its message has no files yet.
LEMMA MadeAfresh ==
  ASSUME Typed, NEW t \in Tasks, made' = [made EXCEPT ![t] = {}], arts' = arts
  PROVE  MadeTyped' /\ made'[t] = {} /\ \A u \in Tasks : u # t => made'[u] = made[u]
BY DEF Typed, MadeTyped

LEMMA SameTypes ==
  ASSUME Typed
  PROVE  /\ arts' = arts /\ made' = made => MadeTyped'
         /\ row' = row => RowTyped'
         /\ answer' = answer => AnswerTyped'
BY DEF Typed, MadeTyped, RowTyped, AnswerTyped

LEMMA AnswersEffect ==
  ASSUME Typed, NEW t \in Tasks, Answers(t)
  PROVE  /\ Typed' /\ Others("worker") /\ UNCHANGED <<arts, row, made>>
         /\ job["worker"].pc = "turn" /\ job["worker"].task = t
         /\ \E W \in SUBSET Request : job'["worker"] = [job["worker"] EXCEPT !.pc = "stage", !.want = W]
<1>1. PICK inline \in SUBSET {i \in Images : file[i] > 0}, named \in SUBSET {f \in Paths : file[f] > 0} :
       /\ answer' = [answer EXCEPT ![t] = [given |-> TRUE, inline |-> inline, named |-> named,
                                           since |-> @.since, seen |-> file]]
       /\ job' = [job EXCEPT !["worker"].pc = "stage",
            !["worker"].want = Ask(inline, 1) \cup Ask(named \cap Images \cap answer[t].since, 2)]
  BY DEF Answers
<1>2. job["worker"].pc = "turn" /\ job["worker"].task = t /\ UNCHANGED <<file, arts, row, made, bounded>>
  BY DEF Answers, At
<1> DEFINE W == Ask(inline, 1) \cup Ask(named \cap Images \cap answer[t].since, 2)
<1>3. W \in SUBSET Request
  <2>1. /\ inline \in SUBSET Paths /\ named \cap Images \cap answer[t].since \in SUBSET Paths
        /\ 1 \in Branches /\ 2 \in Branches
    BY DEF Paths, Branches
  <2>2. Ask(inline, 1) \in SUBSET Request /\ Ask(named \cap Images \cap answer[t].since, 2) \in SUBSET Request
    BY <2>1, AskIs
  <2> QED
    BY <2>2
<1> DEFINE j == [job["worker"] EXCEPT !.pc = "stage", !.want = W]
<1>4. job' = [job EXCEPT !["worker"] = j]
  BY <1>1
<1> HIDE DEF W
<1>5. j \in JobSet(Len(arts)) /\ j.pc = "stage"
  <2>1. job["worker"] \in JobSet(Len(arts))
    BY Bounds, JobIs
  <2> QED
    BY <1>3, <2>1 DEF JobSet, Stands
<1> HIDE DEF j
<1>6. AnswerTyped'
  <2>1. inline \in SUBSET Images /\ named \in SUBSET Paths /\ file \in [Paths -> 0..MaxWrites]
    BY DEF Typed, FileTyped
  <2>2. answer[t].since \in SUBSET Paths
    BY DEF Typed, AnswerTyped
  <2>3. [given |-> TRUE, inline |-> inline, named |-> named, since |-> answer[t].since, seen |-> file]
          \in [given : BOOLEAN, inline : SUBSET Images, named : SUBSET Paths,
               since : SUBSET Paths, seen : [Paths -> 0..MaxWrites]]
    BY <2>1, <2>2
  <2> QED
    BY <1>1, <2>3 DEF Typed, AnswerTyped
<1>7. RowTyped' /\ MadeTyped' /\ UNCHANGED <<file, arts, writes>>
  BY <1>2, SameTypes DEF bounded
<1>8. Typed' /\ Others("worker") /\ job'["worker"] = j
  BY <1>4, <1>5, <1>6, <1>7, Bounds, BeginTypes
<1> QED
  BY <1>2, <1>3, <1>8 DEF j

LEMMA TurnBeginsEffect ==
  ASSUME Typed, NEW t \in Tasks, TurnBegins(t)
  PROVE  /\ Typed' /\ Others("worker") /\ UNCHANGED arts
         /\ NextUp(t) /\ Settle(t, "processing")
         /\ made'[t] = {} /\ \A u \in Tasks : u # t => made'[u] = made[u]
         /\ job'["worker"] = NewJob("turn", "turn", t, {})
<1>1. /\ NextUp(t) /\ Settle(t, "processing") /\ Begin("worker", "turn", "turn", t)
      /\ answer' = [answer EXCEPT ![t] = NoAnswer] /\ made' = [made EXCEPT ![t] = {}]
      /\ UNCHANGED <<file, arts, bounded>>
  BY DEF TurnBegins
<1>2. job' = [job EXCEPT !["worker"] = NewJob("turn", "turn", t, {})]
  BY <1>1, PlainNewJob DEF Begin
<1>3. NewJob("turn", "turn", t, {}) \in JobSet(Len(arts)) /\ NewJob("turn", "turn", t, {}).pc = "turn"
  <2>1. Len(arts) \in Nat /\ "turn" \in Modes /\ "turn" \in Stands /\ t \in Tasks \cup {0} /\ {} \in SUBSET Request
    BY LenProperties DEF Typed, ArtsTyped, Modes, Stands
  <2> QED
    BY <2>1, NewJobIs
<1>4. AnswerTyped'
  <2>1. [p \in Paths |-> 0] \in [Paths -> 0..MaxWrites]
    BY Bounds
  <2>2. NoAnswer \in [given : BOOLEAN, inline : SUBSET Images, named : SUBSET Paths,
                      since : SUBSET Paths, seen : [Paths -> 0..MaxWrites]]
    BY <2>1 DEF NoAnswer
  <2> QED
    BY <1>1, <2>2 DEF Typed, AnswerTyped
<1>5. RowTyped'
  BY <1>1, SettleTypes
<1>6. UNCHANGED <<file, arts, writes>> /\ MadeTyped' /\ made'[t] = {} /\ \A u \in Tasks : u # t => made'[u] = made[u]
  BY <1>1, MadeAfresh DEF bounded
<1>7. Typed' /\ Others("worker") /\ job'["worker"] = NewJob("turn", "turn", t, {})
  BY <1>2, <1>3, <1>4, <1>5, <1>6, Bounds, BeginTypes
<1> QED
  BY <1>1, <1>6, <1>7

LEMMA PictureBeginsEffect ==
  ASSUME Typed, NEW t \in Tasks, PictureBegins(t)
  PROVE  /\ Typed' /\ Others("worker") /\ UNCHANGED <<arts, row>>
         /\ NextUp(t)
         /\ made'[t] = {} /\ \A u \in Tasks : u # t => made'[u] = made[u]
         /\ job'["worker"] = NewJob("direct", "generate", t, {})
<1>1. /\ NextUp(t) /\ Begin("worker", "direct", "generate", t)
      /\ made' = [made EXCEPT ![t] = {}]
      /\ UNCHANGED <<file, arts, row, answer, bounded>>
  BY DEF PictureBegins
<1>2. job' = [job EXCEPT !["worker"] = NewJob("direct", "generate", t, {})]
  BY <1>1, PlainNewJob DEF Begin
<1>3. NewJob("direct", "generate", t, {}) \in JobSet(Len(arts)) /\ NewJob("direct", "generate", t, {}).pc = "generate"
  <2>1. Len(arts) \in Nat /\ "direct" \in Modes /\ "generate" \in Stands /\ t \in Tasks \cup {0} /\ {} \in SUBSET Request
    BY LenProperties DEF Typed, ArtsTyped, Modes, Stands
  <2> QED
    BY <2>1, NewJobIs
<1>4. AnswerTyped' /\ RowTyped'
  BY <1>1, SameTypes
<1>5. UNCHANGED <<file, arts, writes>> /\ MadeTyped' /\ made'[t] = {} /\ \A u \in Tasks : u # t => made'[u] = made[u]
  BY <1>1, MadeAfresh DEF bounded
<1>6. Typed' /\ Others("worker") /\ job'["worker"] = NewJob("direct", "generate", t, {})
  BY <1>2, <1>3, <1>4, <1>5, Bounds, BeginTypes
<1> QED
  BY <1>1, <1>5, <1>6

LEMMA RecoversEffect ==
  ASSUME Typed, NEW t \in Tasks, Recovers(t)
  PROVE  /\ Typed' /\ Others("worker") /\ UNCHANGED <<arts, row>>
         /\ job["worker"].pc = "boot" /\ row[t] = "processing"
         /\ made'[t] = {} /\ \A u \in Tasks : u # t => made'[u] = made[u]
         /\ \E W \in SUBSET Request : job'["worker"] = NewJob("recovered", "stage", t, W)
<1> DEFINE W == Ask(answer[t].inline, 1)
<1>1. /\ job["worker"].pc = "boot" /\ row[t] = "processing"
      /\ job' = [job EXCEPT !["worker"] = NewJob("recovered", "stage", t, W)]
      /\ made' = [made EXCEPT ![t] = {}]
      /\ UNCHANGED <<file, arts, row, answer, bounded>>
  BY DEF Recovers, At, NewJob
<1>2. W \in SUBSET Request
  <2>1. answer[t].inline \in SUBSET Paths /\ 1 \in Branches
    BY DEF Typed, AnswerTyped, Paths, Branches
  <2> QED
    BY <2>1, AskIs
<1> HIDE DEF W
<1>3. NewJob("recovered", "stage", t, W) \in JobSet(Len(arts)) /\ NewJob("recovered", "stage", t, W).pc = "stage"
  <2>1. Len(arts) \in Nat /\ "recovered" \in Modes /\ "stage" \in Stands /\ t \in Tasks \cup {0}
    BY LenProperties DEF Typed, ArtsTyped, Modes, Stands
  <2> QED
    BY <1>2, <2>1, NewJobIs
<1>4. AnswerTyped' /\ RowTyped'
  BY <1>1, SameTypes
<1>5. UNCHANGED <<file, arts, writes>> /\ MadeTyped' /\ made'[t] = {} /\ \A u \in Tasks : u # t => made'[u] = made[u]
  BY <1>1, MadeAfresh DEF bounded
<1>6. Typed' /\ Others("worker") /\ job'["worker"] = NewJob("recovered", "stage", t, W)
  BY <1>1, <1>3, <1>4, <1>5, Bounds, BeginTypes
<1> QED
  BY <1>1, <1>2, <1>5, <1>6

LEMMA AbandonsEffect ==
  ASSUME Typed, NEW t \in Tasks, Abandons(t)
  PROVE  /\ Typed' /\ Others("worker") /\ UNCHANGED <<arts, made>>
         /\ job["worker"].pc = "boot" /\ row[t] = "processing"
         /\ \E s \in {"failed", "pending"} : Settle(t, s)
         /\ job'["worker"] = Startup
<1>1. PICK s \in {"failed", "pending"} : Settle(t, s)
  BY DEF Abandons
<1>2. /\ job["worker"].pc = "boot" /\ row[t] = "processing" /\ job' = [job EXCEPT !["worker"] = Startup]
      /\ UNCHANGED <<file, arts, answer, made, bounded>>
  BY DEF Abandons, At
<1>3. Startup \in JobSet(Len(arts)) /\ Startup.pc = "send"
  <2>1. Len(arts) \in Nat
    BY LenProperties DEF Typed, ArtsTyped
  <2> QED
    BY <2>1, RestIsJob
<1>4. AnswerTyped' /\ MadeTyped' /\ UNCHANGED <<file, arts, writes>>
  BY <1>2, SameTypes DEF bounded
<1>5. RowTyped'
  BY <1>1, SettleTypes
<1>6. Typed' /\ Others("worker") /\ job'["worker"] = Startup
  BY <1>2, <1>3, <1>4, <1>5, Bounds, BeginTypes
<1> QED
  BY <1>1, <1>2, <1>6

\* A command or a terminal run begins: a job without a message.
LEMMA CommandTypes ==
  ASSUME Typed, NEW p \in Procs, NEW h \in Modes, NEW c \in Stands \ {"mark"}, NEW W \in SUBSET Request,
         job' = [job EXCEPT ![p] = NewJob(h, c, 0, W)],
         UNCHANGED <<file, arts, row, answer, made, writes>>
  PROVE  Typed' /\ Others(p) /\ UNCHANGED <<arts, row, made>> /\ job'[p] = NewJob(h, c, 0, W)
<1>1. NewJob(h, c, 0, W) \in JobSet(Len(arts)) /\ NewJob(h, c, 0, W).pc = c
  <2>1. Len(arts) \in Nat /\ c \in Stands
    BY LenProperties DEF Typed, ArtsTyped
  <2>2. Rest \in JobSet(Len(arts))
    BY <2>1, RestIsJob
  <2> QED
    BY <2>1, <2>2 DEF NewJob, JobSet
<1>2. RowTyped' /\ UNCHANGED <<file, arts, made, answer, writes>> /\ UNCHANGED <<arts, row, made>>
  BY SameTypes
<1>3. NewJob(h, c, 0, W).pc = "mark" => NewJob(h, c, 0, W).todo # << >>
  BY <1>1
<1>4. Typed' /\ Others(p) /\ job'[p] = NewJob(h, c, 0, W)
  BY <1>1, <1>2, <1>3, JobTypes
<1> QED
  BY <1>2, <1>4

LEMMA TerminalBeginsEffect ==
  ASSUME Typed, TerminalBegins
  PROVE  /\ Typed' /\ "terminal" \in Procs /\ Others("terminal") /\ UNCHANGED <<arts, row, made>>
         /\ job["terminal"].pc = "rest" /\ job'["terminal"] = NewJob("terminal", "turn", 0, {})
<1>1. /\ "terminal" \in Procs /\ job["terminal"].pc = "rest"
      /\ job' = [job EXCEPT !["terminal"] = NewJob("terminal", "turn", 0, {})]
      /\ UNCHANGED <<file, arts, row, answer, made, writes>>
  BY PlainNewJob DEF TerminalBegins, Procs, Idle, At, Begin, Op
<1>2. "terminal" \in Modes /\ "turn" \in Stands \ {"mark"} /\ {} \in SUBSET Request
  BY DEF Modes, Stands
<1> QED
  BY <1>1, <1>2, CommandTypes

LEMMA ImageCommandEffect ==
  ASSUME Typed, ImageCommand
  PROVE  /\ Typed' /\ "chat" \in Procs /\ Others("chat") /\ UNCHANGED <<arts, row, made>>
         /\ job["chat"].pc = "rest" /\ job'["chat"] = NewJob("direct", "generate", 0, {})
<1>1. /\ "chat" \in Procs /\ job["chat"].pc = "rest"
      /\ job' = [job EXCEPT !["chat"] = NewJob("direct", "generate", 0, {})]
      /\ UNCHANGED <<file, arts, row, answer, made, writes>>
  BY PlainNewJob DEF ImageCommand, Procs, Idle, At, Begin, Op
<1>2. "direct" \in Modes /\ "generate" \in Stands \ {"mark"} /\ {} \in SUBSET Request
  BY DEF Modes, Stands
<1> QED
  BY <1>1, <1>2, CommandTypes

LEMMA SendCommandEffect ==
  ASSUME Typed, NEW path \in Paths, SendCommand(path)
  PROVE  /\ Typed' /\ "ctl" \in Procs /\ Others("ctl") /\ UNCHANGED <<arts, row, made>>
         /\ job["ctl"].pc = "rest" /\ \E W \in SUBSET Request : job'["ctl"] = NewJob("send", "stage", 0, W)
<1> DEFINE W == Ask({path}, 1)
<1>1. /\ "ctl" \in Procs /\ job["ctl"].pc = "rest"
      /\ job' = [job EXCEPT !["ctl"] = [Rest EXCEPT !.how = "send", !.pc = "stage", !.want = W]]
      /\ UNCHANGED <<file, arts, row, answer, made, writes>>
  BY DEF SendCommand, Procs, Idle, At, Op
<1>2. W \in SUBSET Request
  BY AskIs DEF Branches
<1>3. [Rest EXCEPT !.how = "send", !.pc = "stage", !.want = W] = NewJob("send", "stage", 0, W)
  <2>1. Rest \in JobSet(0) /\ Rest.task = 0
    BY RestIsJob
  <2> HIDE DEF W
  <2> QED
    BY <2>1 DEF NewJob, JobSet
<1> HIDE DEF W
<1>4. "send" \in Modes /\ "stage" \in Stands \ {"mark"}
  BY DEF Modes, Stands
<1>5. job' = [job EXCEPT !["ctl"] = NewJob("send", "stage", 0, W)]
  BY <1>1, <1>3
<1>6. Typed' /\ Others("ctl") /\ UNCHANGED <<arts, row, made>> /\ job'["ctl"] = NewJob("send", "stage", 0, W)
  <2>1. "ctl" \in Procs /\ UNCHANGED <<file, arts, row, answer, made, writes>>
    BY <1>1
  <2> QED
    BY <1>2, <1>4, <1>5, <2>1, CommandTypes
<1> QED
  BY <1>1, <1>2, <1>6

LEMMA TerminalAnswersEffect ==
  ASSUME Typed, TerminalAnswers
  PROVE  /\ Typed' /\ "terminal" \in Procs /\ Others("terminal") /\ UNCHANGED <<arts, row, made>>
         /\ job["terminal"].pc = "turn"
         /\ \E F \in SUBSET Paths : job'["terminal"] = [job["terminal"] EXCEPT !.pc = "text", !.named = F]
<1>1. PICK named \in SUBSET {f \in Paths : file[f] > 0} :
        job' = [job EXCEPT !["terminal"].pc = "text", !["terminal"].named = named]
  BY DEF TerminalAnswers
<1>2. "terminal" \in Procs /\ job["terminal"].pc = "turn" /\ UNCHANGED <<file, arts, row, answer, made, bounded>>
  BY DEF TerminalAnswers, Procs, At
<1> DEFINE j == [job["terminal"] EXCEPT !.pc = "text", !.named = named]
<1>3. j \in JobSet(Len(arts)) /\ j.pc = "text"
  <2>1. job["terminal"] \in JobSet(Len(arts)) /\ named \in SUBSET Paths
    BY <1>2, JobIs
  <2> QED
    BY <2>1 DEF JobSet, Stands
<1>4. job' = [job EXCEPT !["terminal"] = j]
  BY <1>1
<1> HIDE DEF j
<1>5. RowTyped' /\ UNCHANGED <<file, arts, made, answer, writes>>
  BY <1>2, SameTypes DEF bounded
<1>6. Typed' /\ Others("terminal") /\ job'["terminal"] = j
  BY <1>2, <1>3, <1>4, <1>5, JobTypes
<1> QED
  BY <1>2, <1>6 DEF j

LEMMA WritesEffect ==
  ASSUME Typed, NEW path \in Paths, Writes(path)
  PROVE  /\ Typed' /\ UNCHANGED <<arts, row, made>>
         /\ \A p \in Procs : job'[p] = [job[p] EXCEPT !.since = job'[p].since]
<1>1. /\ writes < MaxWrites /\ writes' = writes + 1
      /\ file' = [file EXCEPT ![path] = @ + 1]
      /\ answer' = [t \in Tasks |->
           IF row[t] = "processing" THEN [answer[t] EXCEPT !.since = @ \cup {path}] ELSE answer[t]]
      /\ job' = [p \in Procs |->
           IF job[p].how = "terminal" THEN [job[p] EXCEPT !.since = @ \cup {path}] ELSE job[p]]
      /\ UNCHANGED <<arts, row, made>>
  BY DEF Writes
<1>2. /\ writes \in 0..MaxWrites /\ MaxWrites \in Nat /\ file \in [Paths -> 0..MaxWrites]
      /\ \A p \in Paths : file[p] <= writes
  BY Bounds DEF Typed, FileTyped
<1>3. FileTyped'
  <2>1. file[path] + 1 \in 0..MaxWrites /\ writes' \in 0..MaxWrites
    BY <1>1, <1>2
  <2>2. file' \in [Paths -> 0..MaxWrites] /\ file'[path] = file[path] + 1
        /\ \A p \in Paths : p # path => file'[p] = file[p]
    BY <1>1, <1>2, <2>1
  <2>3. \A p \in Paths : file'[p] <= writes'
    <3>1. ASSUME NEW p \in Paths PROVE file'[p] <= writes'
      <4>1. file[p] <= writes /\ file[p] \in 0..MaxWrites /\ writes' = writes + 1
        BY <1>1, <1>2
      <4>2. file'[p] = file[p] \/ file'[p] = file[p] + 1
        BY <2>2
      <4> QED
        BY <1>2, <4>1, <4>2
    <3> QED
      BY <3>1
  <2> QED
    BY <2>1, <2>2, <2>3 DEF FileTyped
<1>4. AnswerTyped'
  <2> DEFINE A == [given : BOOLEAN, inline : SUBSET Images, named : SUBSET Paths,
                   since : SUBSET Paths, seen : [Paths -> 0..MaxWrites]]
  <2>1. ASSUME NEW t \in Tasks PROVE answer[t] \in A /\ [answer[t] EXCEPT !.since = @ \cup {path}] \in A
    <3>1. answer[t] \in A
      BY DEF Typed, AnswerTyped
    <3> QED
      BY <3>1
  <2> HIDE DEF A
  <2>2. answer' \in [Tasks -> A]
    BY <1>1, <2>1
  <2> QED
    BY <2>2 DEF AnswerTyped, A
<1>5. ASSUME NEW p \in Procs
      PROVE  /\ job'[p] \in JobSet(Len(arts)) /\ job'[p] = [job[p] EXCEPT !.since = job'[p].since]
             /\ job'[p].pc = job[p].pc /\ job'[p].todo = job[p].todo
  <2>1. job[p] \in JobSet(Len(arts))
    BY JobIs
  <2>2. CASE job[p].how = "terminal"
    <3> DEFINE s == job[p].since \cup {path}
    <3>1. job'[p] = [job[p] EXCEPT !.since = s]
      BY <1>1, <2>2
    <3>2. s \in SUBSET Paths
      BY <2>1 DEF JobSet
    <3> HIDE DEF s
    <3> QED
      BY <2>1, <3>1, <3>2 DEF JobSet
  <2>3. CASE job[p].how # "terminal"
    <3>1. job'[p] = job[p]
      BY <1>1, <2>3
    <3> QED
      BY <2>1, <3>1 DEF JobSet
  <2> QED
    BY <2>2, <2>3
<1>6. JobsTyped' /\ MarkHolds' /\ ArtsTyped' /\ RowTyped' /\ MadeTyped'
  <2>1. DOMAIN job' = Procs /\ job' = [p \in Procs |-> job'[p]]
    BY <1>1
  <2>2. job' \in [Procs -> JobSet(Len(arts))]
    BY <1>5, <2>1
  <2>3. MarkHolds'
    BY <1>5 DEF Typed, MarkHolds
  <2> QED
    BY <1>1, <2>2, <2>3, SameTypes DEF JobsTyped, ArtsTyped, Typed
<1> QED
  BY <1>1, <1>3, <1>4, <1>5, <1>6 DEF Typed

LEMMA ToolMakesEffect ==
  ASSUME Typed, NEW kind \in ToolKinds, ToolMakes(kind)
  PROVE  /\ Typed' /\ UNCHANGED <<job, row, made>>
         /\ Ids' = Ids \cup {Len(arts) + 1}
         /\ LET x == arts'[Len(arts) + 1] IN x.got = 0 /\ ~x.delivered /\ ~x.quarantined
         /\ \A b \in Ids : arts'[b] = arts[b]
<1> DEFINE x == Artifact(kind, None, "mcp")
<1>1. arts' = Append(arts, x) /\ UNCHANGED <<file, row, answer, job, made, writes>>
  BY DEF ToolMakes, Op
<1>2. x \in ArtSet /\ x.got = 0 /\ ~x.delivered /\ ~x.quarantined
  <2>1. kind \in Kinds
    BY ArtifactsAssumption DEF Kinds
  <2> QED
    BY <2>1, NewArtifact DEF Typed
<1> HIDE DEF x
<1>3. "worker" \in Procs /\ job["worker"] \in JobSet(Len(arts) + 1)
      /\ (job["worker"].pc = "mark" => job["worker"].todo # << >>)
  <2>1. Len(arts) \in Nat
    BY LenProperties DEF Typed, ArtsTyped
  <2>2. Len(arts) + 1 \in Nat /\ Len(arts) <= Len(arts) + 1
    BY <2>1
  <2> QED
    BY <2>1, <2>2, Bounds, JobIs, JobsGrow DEF Typed, MarkHolds
<1>4. job' = [job EXCEPT !["worker"] = job["worker"]] /\ UNCHANGED <<file, row, answer, writes>>
  BY <1>1 DEF Typed, JobsTyped
<1>5. /\ Typed' /\ Ids' = Ids \cup {Len(arts) + 1} /\ arts'[Len(arts) + 1] = x
      /\ \A b \in Ids : arts'[b] = arts[b]
  <2>1. made' = made \/ \E t \in Tasks : made' = [made EXCEPT ![t] = @ \cup {Len(arts) + 1}]
    BY <1>1
  <2>2. /\ "worker" \in Procs /\ x \in ArtSet /\ arts' = Append(arts, x)
        /\ job["worker"] \in JobSet(Len(arts) + 1) /\ (job["worker"].pc = "mark" => job["worker"].todo # << >>)
    BY <1>1, <1>2, <1>3
  <2> QED
    BY <1>4, <2>1, <2>2, AddTypes
<1> QED
  BY <1>1, <1>2, <1>5

\* What the daemon leaves behind when it dies.
LEMMA CrashEffect ==
  ASSUME Typed, Crash
  PROVE  /\ Typed' /\ Ids' = Ids /\ UNCHANGED <<row, made>>
         /\ \A p \in Procs : \/ p = "ctl" /\ job'[p] = job[p]
                             \/ p # "ctl" /\ p # "worker" /\ job'[p] = Rest
                             \/ p = "worker" /\ (job'[p] = Startup \/ job'[p] = [Startup EXCEPT !.pc = "boot"])
         /\ \A b \in Ids : /\ SameSort(b) /\ SameFate(b) /\ SameNews(b)
                           /\ arts[b].shared => arts'[b].shared
         /\ \A p \in Procs : p # "ctl" /\ job[p].pc = "mark" => arts'[Head(job[p].todo)].shared
<1> DEFINE unmarked == {Head(job[p].todo) : p \in {q \in Procs \ {"ctl"} : At(q, "mark")}}
<1> DEFINE boot == IF \E t \in Tasks : row[t] = "processing" THEN [Startup EXCEPT !.pc = "boot"] ELSE Startup
<1>1. /\ arts' = [a \in Ids |-> [arts[a] EXCEPT !.shared = @ \/ a \in unmarked]]
      /\ job' = [p \in Procs |-> IF p = "ctl" THEN job[p] ELSE IF p = "worker" THEN boot ELSE Rest]
      /\ UNCHANGED <<file, row, answer, made, writes>>
  BY DEF Crash
<1>2. \A p \in Procs : p # "ctl" /\ job[p].pc = "mark" => Head(job[p].todo) \in unmarked /\ Head(job[p].todo) \in Ids
  BY HeadIsId DEF At, Typed, MarkHolds
<1> HIDE DEF unmarked
<1>3. ArtsTyped /\ arts \in [Ids -> ArtSet] /\ Len(arts) \in Nat
  BY IdsAre DEF Typed
<1>4. /\ arts' \in [Ids -> ArtSet]
      /\ \A b \in Ids : /\ SameSort(b) /\ SameFate(b) /\ SameNews(b)
                        /\ arts[b].shared => arts'[b].shared
                        /\ b \in unmarked => arts'[b].shared
  <2> HIDE DEF Ids
  <2> DEFINE k(b) == arts[b].shared \/ b \in unmarked
  <2>1. \A b \in Ids : k(b) \in BOOLEAN /\ (arts[b].shared => k(b)) /\ (b \in unmarked => k(b))
    OBVIOUS
  <2>2. arts' = [b \in Ids |-> [arts[b] EXCEPT !.shared = k(b)]]
    BY <1>1
  <2> HIDE DEF k
  <2>3. ASSUME NEW b \in Ids
        PROVE  /\ [arts[b] EXCEPT !.shared = k(b)] \in ArtSet /\ [arts[b] EXCEPT !.shared = k(b)].shared = k(b)
               /\ arts'[b] = [arts[b] EXCEPT !.shared = k(b)]
               /\ SameSort(b) /\ SameFate(b) /\ SameNews(b)
    <3>1. arts[b] \in ArtSet /\ k(b) \in BOOLEAN /\ arts'[b] = [arts[b] EXCEPT !.shared = k(b)]
      BY <1>3, <2>1, <2>2
    <3> QED
      BY <3>1 DEF ArtSet, SameSort, SameFate, SameNews
  <2>4. arts' \in [Ids -> ArtSet]
    BY <2>2, <2>3
  <2> QED
    BY <2>1, <2>3, <2>4
<1>5. ArtsTyped' /\ Len(arts') = Len(arts) /\ Ids' = Ids
  BY <1>3, <1>4, SameLength DEF ArtsTyped, Ids
<1>6. /\ boot \in JobSet(Len(arts)) /\ boot.pc # "mark" /\ (boot = Startup \/ boot = [Startup EXCEPT !.pc = "boot"])
      /\ Rest \in JobSet(Len(arts)) /\ Rest.pc # "mark"
  <2>1. Startup \in JobSet(Len(arts)) /\ Startup.pc = "send" /\ Rest \in JobSet(Len(arts)) /\ Rest.pc = "rest"
    BY <1>3, RestIsJob
  <2>2. [Startup EXCEPT !.pc = "boot"] \in JobSet(Len(arts)) /\ [Startup EXCEPT !.pc = "boot"].pc = "boot"
    BY <2>1 DEF JobSet, Stands
  <2> QED
    BY <2>1, <2>2
<1> HIDE DEF boot
<1>7. \A p \in Procs : job'[p] = IF p = "ctl" THEN job[p] ELSE IF p = "worker" THEN boot ELSE Rest
  BY <1>1
<1>8. JobsTyped' /\ MarkHolds'
  <2>1. \A p \in Procs : job'[p] \in JobSet(Len(arts)) /\ (job'[p].pc = "mark" => job'[p].todo # << >>)
    BY <1>6, <1>7, JobIs DEF Typed, MarkHolds
  <2>2. job' \in [Procs -> JobSet(Len(arts))]
    BY <1>1, <2>1, SMTT(60)
  <2> QED
    BY <1>5, <2>1, <2>2 DEF JobsTyped, MarkHolds
<1>9. RowTyped' /\ MadeTyped' /\ AnswerTyped' /\ FileTyped' /\ UNCHANGED <<row, made>>
  BY <1>1, <1>5 DEF Typed, RowTyped, MadeTyped, AnswerTyped, FileTyped
<1> QED
  BY <1>2, <1>4, <1>5, <1>6, <1>7, <1>8, <1>9 DEF Typed

----------------------------------------------------------------------------
(* What a job may look like: who does what, and when the hands are empty.  *)

Works == {"turn", "recovered", "direct"}
MayDo(p) == IF p = "worker" THEN {None, "turn", "recovered", "direct", "startup"}
            ELSE IF p = "terminal" THEN {None, "terminal"}
            ELSE IF p = "chat" THEN {None, "direct"} ELSE {None, "send"}
Role(p, j) ==
  /\ j.how \in MayDo(p)
  /\ j.pc = "rest" <=> j.how = None
  /\ j.task # 0 <=> p = "worker" /\ j.how \in Works
  /\ j.pc = "turn" => j.how \in {"turn", "terminal"}
  /\ j.pc = "generate" => j.how = "direct"
  /\ j.pc = "stage" => j.how \in {"turn", "recovered", "send"}
  /\ j.pc = "recent" => j.how = "turn"
  /\ j.pc = "text" => j.how = "terminal"
  /\ j.pc = "files" => j.how \in {"turn", "recovered", "terminal"}
  /\ j.pc = "boot" => j.how = "startup"
  /\ j.pc = "speak" => j.task \in Speak
  /\ j.round > 0 => j.pc \in {"send", "mark", "speak"}
  /\ j.how = "direct" => j.round \in {0, 1}
Quiet(j) ==
  /\ j.pc \notin {"send", "mark"} => j.todo = << >> /\ j.bad = {}
  /\ j.pc \notin {"stage", "recent"} => j.held = Rest.held
  /\ j.pc \notin {"stage", "recent", "files"} => j.want = {}
  /\ j.how \in {"recovered", "direct"} => j.owed = {}
Sound == \A p \in Procs : Role(p, job[p]) /\ Quiet(job[p])

LEMMA SoundMoves ==
  ASSUME Sound, NEW p \in Procs, Others(p), Role(p, job'[p]), Quiet(job'[p])
  PROVE  Sound'
BY DEF Sound, Others

LEMMA EndedIsSound ==
  ASSUME Typed, Sound, NEW p \in Procs
  PROVE  Role(p, Ended(p)) /\ Quiet(Ended(p))
<1>1. Len(arts) \in Nat
  BY LenProperties DEF Typed, ArtsTyped
<1>2. /\ Rest.todo = << >> /\ Rest.pc = "rest" /\ Rest.how = None /\ Rest.task = 0 /\ Rest.round = 0
      /\ Rest.bad = {} /\ Rest.owed = {} /\ Rest.want = {}
      /\ Startup.todo = << >> /\ Startup.pc = "send" /\ Startup.how = "startup" /\ Startup.task = 0
      /\ Startup.round = 0 /\ Startup.bad = {} /\ Startup.owed = {} /\ Startup.want = {}
      /\ Startup.held = Rest.held
  BY <1>1, RestIsJob
<1>3. CASE job[p].how = "recovered"
  <2>1. p = "worker"
    BY <1>3 DEF Sound, Role, MayDo, None
  <2> QED
    BY <1>2, <1>3, <2>1 DEF Ended, Role, Quiet, MayDo, Works, None
<1>4. CASE job[p].how # "recovered"
  BY <1>2, <1>4 DEF Ended, Role, Quiet, MayDo, Works, None
<1> QED
  BY <1>3, <1>4

LEMMA StagesKeepSound ==
  ASSUME Typed, Sound, NEW p \in Procs, Stages(p)
  PROVE  Typed' /\ Sound'
<1>0. job[p] \in JobSet(Len(arts)) /\ Role(p, job[p]) /\ Quiet(job[p]) /\ Len(arts) \in Nat
  BY JobIs, LenProperties DEF Sound, Typed, ArtsTyped
\* Files are staged only while something is asked for.
<1>1. ASSUME NEW r \in job[p].want, NEW a \in Nat
      PROVE  Role(p, StagedJob(p, r, a)) /\ Quiet(StagedJob(p, r, a))
  <2>1. job[p].pc \in {"stage", "recent", "files"}
    BY <1>0, <1>1 DEF Quiet
  <2> DEFINE W == job[p].want \ {r}
  <2> DEFINE h == StagedHeld(p, r, a)
  <2>2. job[p].pc \notin {"stage", "recent"} => h = Rest.held
    BY <1>0, <2>1 DEF StagedHeld, Quiet
  <2>3. StagedJob(p, r, a) = [job[p] EXCEPT !.want = W, !.held = h]
    BY DEF StagedJob
  <2> HIDE DEF W, h
  <2> DEFINE j == StagedJob(p, r, a)
  <2>4. j.pc = job[p].pc /\ j.how = job[p].how /\ j.task = job[p].task /\ j.round = job[p].round
        /\ j.todo = job[p].todo /\ j.bad = job[p].bad /\ j.owed = job[p].owed /\ j.held = h
    BY <1>0, <2>3 DEF JobSet
  <2> HIDE DEF j
  <2>5. Role(p, j)
    BY <1>0, <2>4 DEF Role
  <2>6. Quiet(j)
    BY <1>0, <2>1, <2>2, <2>4 DEF Quiet
  <2> QED
    BY <2>5, <2>6 DEF j
<1>2. ASSUME NEW W \in SUBSET Request, job[p].want = {} => W = {}
      PROVE  Role(p, WantJob(p, W)) /\ Quiet(WantJob(p, W))
  <2> DEFINE j == WantJob(p, W)
  <2>1. j.pc = job[p].pc /\ j.how = job[p].how /\ j.task = job[p].task /\ j.round = job[p].round
        /\ j.todo = job[p].todo /\ j.bad = job[p].bad /\ j.owed = job[p].owed /\ j.held = job[p].held
        /\ j.want = W
    BY WantIs
  <2> HIDE DEF j
  <2>2. Role(p, j)
    BY <1>0, <2>1 DEF Role
  <2>3. Quiet(j)
    BY <1>0, <1>2, <2>1 DEF Quiet
  <2> QED
    BY <2>2, <2>3 DEF j
<1>3. CASE Reuses(p)
  <2>1. PICK r \in job[p].want, a \in Ids : job'[p] = StagedJob(p, r, a)
    BY <1>3, ReusesEffect
  <2>2. a \in Nat
    BY IdsAre DEF Typed
  <2>3. Role(p, job'[p]) /\ Quiet(job'[p])
    BY <1>1, <2>1, <2>2
  <2> QED
    BY <1>3, <2>3, ReusesEffect, SoundMoves
<1>4. CASE StartsCopy(p)
  <2>1. Role(p, job'[p]) /\ Quiet(job'[p])
    BY <1>2, <1>4, StartsCopyEffect
  <2> QED
    BY <1>4, <2>1, StartsCopyEffect, SoundMoves
<1>5. CASE Copies(p)
  <2>1. PICK r \in job[p].want : job'[p] = StagedJob(p, r, Len(arts) + 1)
    BY <1>5, CopiesEffect
  <2>2. Len(arts) + 1 \in Nat
    BY <1>0
  <2>3. Role(p, job'[p]) /\ Quiet(job'[p])
    BY <1>1, <2>1, <2>2
  <2> QED
    BY <1>5, <2>3, CopiesEffect, SoundMoves
<1>6. CASE CopyFails(p)
  <2>1. Role(p, job'[p]) /\ Quiet(job'[p])
    BY <1>2, <1>6, CopyFailsEffect
  <2> QED
    BY <1>6, <2>1, CopyFailsEffect, SoundMoves
<1>7. CASE SweepsRecent(p)
  <2>1. PICK W \in SUBSET Request : job'[p] = [job[p] EXCEPT !.pc = "recent", !.want = W]
    BY <1>7, SweepsRecentEffect
  <2>2. job[p].pc = "stage" /\ job[p].how = "turn" /\ Typed' /\ Others(p)
    BY <1>7, SweepsRecentEffect
  <2> DEFINE j == job'[p]
  <2>3. j.pc = "recent" /\ j.how = job[p].how /\ j.task = job[p].task /\ j.round = job[p].round
        /\ j.todo = job[p].todo /\ j.bad = job[p].bad /\ j.owed = job[p].owed
    BY <1>0, <2>1 DEF JobSet
  <2> HIDE DEF j
  <2>4. Role(p, j)
    BY <1>0, <2>2, <2>3 DEF Role
  <2>5. Quiet(j)
    BY <1>0, <2>2, <2>3 DEF Quiet
  <2> QED
    BY <2>2, <2>4, <2>5, SoundMoves DEF j
<1>8. CASE SendBegins(p)
  <2>1. /\ Typed' /\ Others(p) /\ job[p].pc = "stage" /\ job[p].want = {}
        /\ job'[p] = SendJob(job[p], InHands(p))
    BY <1>8, SendBeginsEffect
  <2> DEFINE s == InHands(p)
  <2> DEFINE j == job'[p]
  <2>2. j = SendJob(job[p], s)
    BY <2>1
  <2> HIDE DEF s, j
  <2>3. j.pc = "send" /\ j.how = job[p].how /\ j.task = job[p].task /\ j.round = job[p].round
        /\ j.owed = job[p].owed /\ j.held = Rest.held /\ j.want = job[p].want
    BY <1>0, <2>2 DEF JobSet, SendJob
  <2>4. Role(p, j)
    BY <1>0, <2>1, <2>3 DEF Role
  <2>5. Quiet(j)
    BY <1>0, <2>1, <2>3 DEF Quiet
  <2> QED
    BY <2>1, <2>4, <2>5, SoundMoves DEF j
<1> QED
  BY <1>3, <1>4, <1>5, <1>6, <1>7, <1>8 DEF Stages

\* A job that sends a list: its role is what it was, its hands hold the list.
LEMMA SendJobIsSound ==
  ASSUME Typed, Sound, NEW p \in Procs, NEW s, job[p].pc # "rest", job[p].want = {}
  PROVE  Role(p, SendJob(job[p], s)) /\ Quiet(SendJob(job[p], s))
<1>0. job[p] \in JobSet(Len(arts)) /\ Role(p, job[p]) /\ Quiet(job[p])
  BY JobIs DEF Sound
<1> DEFINE j == SendJob(job[p], s)
<1>1. j.pc = "send" /\ j.how = job[p].how /\ j.task = job[p].task /\ j.round = job[p].round
      /\ j.owed = job[p].owed /\ j.held = Rest.held /\ j.want = job[p].want
  BY <1>0 DEF JobSet, SendJob
<1> HIDE DEF j
<1>2. Role(p, j)
  BY <1>0, <1>1 DEF Role
<1>3. Quiet(j)
  BY <1>0, <1>1 DEF Quiet
<1> QED
  BY <1>2, <1>3 DEF j

LEMMA AtTextIs ==
  ASSUME Typed, Sound, NEW p \in Procs, AtText(p)
  PROVE  /\ job[p].want = {} /\ job[p].todo = << >> /\ job[p].bad = {} /\ job[p].pc \in {"text", "recent", "stage"}
         /\ job[p].how = "terminal" <=> job[p].pc = "text"
<1>0. Role(p, job[p]) /\ Quiet(job[p])
  BY DEF Sound
<1>1. \/ job[p].pc = "text" \/ (job[p].pc = "recent" /\ job[p].want = {})
      \/ job[p].pc = "stage" /\ job[p].want = {} /\ job[p].how \in {"turn", "recovered"}
  BY DEF AtText, At
<1>2. CASE job[p].pc = "text"
  BY <1>0, <1>2 DEF Role, Quiet
<1>3. CASE job[p].pc = "recent" /\ job[p].want = {}
  BY <1>0, <1>3 DEF Role, Quiet
<1>4. CASE job[p].pc = "stage" /\ job[p].want = {} /\ job[p].how \in {"turn", "recovered"}
  BY <1>0, <1>4 DEF Role, Quiet
<1> QED
  BY <1>1, <1>2, <1>3, <1>4

LEMMA DeliversKeepSound ==
  ASSUME Typed, Sound, NEW p \in Procs, Delivers(p)
  PROVE  Typed' /\ Sound'
<1>0. job[p] \in JobSet(Len(arts)) /\ Role(p, job[p]) /\ Quiet(job[p])
  BY JobIs DEF Sound
<1>1. CASE TextIsSent(p)
  <2>1. Typed' /\ Others(p) /\ AtText(p)
    BY <1>1, TextIsSentEffect
  <2>2. /\ job[p].want = {} /\ job[p].todo = << >> /\ job[p].bad = {} /\ job[p].pc \in {"text", "recent", "stage"}
        /\ job[p].how = "terminal" <=> job[p].pc = "text"
    BY <2>1, AtTextIs
  <2>3. CASE job[p].how = "terminal"
    <3> DEFINE W == Ask(FilesOf(p), 1)
    <3> DEFINE j == job'[p]
    <3>1. j = [job[p] EXCEPT !.pc = "files", !.want = W]
      BY <1>1, <2>3, TextIsSentEffect
    <3> HIDE DEF W, j
    <3>2. j.pc = "files" /\ j.how = job[p].how /\ j.task = job[p].task /\ j.round = job[p].round
          /\ j.todo = job[p].todo /\ j.bad = job[p].bad /\ j.owed = job[p].owed /\ j.held = job[p].held
      BY <1>0, <3>1 DEF JobSet
    <3>3. Role(p, j)
      BY <1>0, <2>2, <2>3, <3>2 DEF Role
    <3>4. Quiet(j)
      BY <1>0, <2>2, <2>3, <3>2 DEF Quiet
    <3> QED
      BY <2>1, <3>3, <3>4, SoundMoves DEF j
  <2>4. CASE job[p].how # "terminal"
    <3>1. job'[p] = SendJob(job[p], InHands(p))
      BY <1>1, <2>4, TextIsSentEffect
    <3>2. Role(p, job'[p]) /\ Quiet(job'[p])
      BY <2>2, <3>1, SendJobIsSound
    <3> QED
      BY <2>1, <3>2, SoundMoves
  <2> QED
    BY <2>3, <2>4
<1>2. CASE TextFails(p)
  BY <1>2, TextFailsEffect, EndedIsSound, SoundMoves
<1>3. CASE Arrives(p)
  <2>1. Typed' /\ Others(p) /\ job[p].pc = "send" /\ job'[p] = [job[p] EXCEPT !.pc = "mark"]
    BY <1>3, ArrivesEffect
  <2> DEFINE j == job'[p]
  <2>2. j.pc = "mark" /\ j.how = job[p].how /\ j.task = job[p].task /\ j.round = job[p].round
        /\ j.want = job[p].want /\ j.owed = job[p].owed /\ j.held = job[p].held
    BY <1>0, <2>1 DEF JobSet
  <2> HIDE DEF j
  <2>3. Role(p, j)
    BY <1>0, <2>1, <2>2 DEF Role
  <2>4. Quiet(j)
    BY <1>0, <2>1, <2>2 DEF Quiet
  <2> QED
    BY <2>1, <2>3, <2>4, SoundMoves DEF j
<1>4. CASE Marks(p)
  <2>1. Typed' /\ Others(p) /\ job[p].pc = "mark" /\ job'[p] = DoneJob(p)
    BY <1>4, MarksEffect
  <2> DEFINE j == job'[p]
  <2>2. j.pc = "send" /\ j.how = job[p].how /\ j.task = job[p].task /\ j.round = job[p].round
        /\ j.want = job[p].want /\ j.owed = job[p].owed /\ j.held = job[p].held
    BY <1>0, <2>1 DEF JobSet, DoneJob
  <2> HIDE DEF j
  <2>3. Role(p, j)
    BY <1>0, <2>1, <2>2 DEF Role
  <2>4. Quiet(j)
    BY <1>0, <2>1, <2>2 DEF Quiet
  <2> QED
    BY <2>1, <2>3, <2>4, SoundMoves DEF j
<1>5. CASE ReplyIsLost(p)
  BY <1>5, ReplyIsLostEffect DEF Sound
<1>6. CASE FallsBack(p)
  <2>1. Typed' /\ Others(p) /\ job[p].pc = "send" /\ job'[p] = [job[p] EXCEPT !.second = TRUE]
    BY <1>6, FallsBackEffect
  <2> DEFINE j == job'[p]
  <2>2. j.pc = "send" /\ j.how = job[p].how /\ j.task = job[p].task /\ j.round = job[p].round
        /\ j.want = job[p].want /\ j.owed = job[p].owed /\ j.held = job[p].held
    BY <1>0, <2>1 DEF JobSet
  <2> HIDE DEF j
  <2>3. Role(p, j)
    BY <1>0, <2>1, <2>2 DEF Role
  <2>4. Quiet(j)
    BY <1>0, <2>1, <2>2 DEF Quiet
  <2> QED
    BY <2>1, <2>3, <2>4, SoundMoves DEF j
<1>7. CASE DeliveryFails(p)
  <2>1. Typed' /\ Others(p) /\ job[p].pc = "send" /\ job'[p] = FailedJob(p)
    BY <1>7, DeliveryFailsEffect
  <2> DEFINE j == job'[p]
  <2>2. j.pc = "send" /\ j.how = job[p].how /\ j.task = job[p].task /\ j.round = job[p].round
        /\ j.want = job[p].want /\ j.owed = job[p].owed /\ j.held = job[p].held
    BY <1>0, <2>1 DEF JobSet, FailedJob
  <2> HIDE DEF j
  <2>3. Role(p, j)
    BY <1>0, <2>1, <2>2 DEF Role
  <2>4. Quiet(j)
    BY <1>0, <2>1, <2>2 DEF Quiet
  <2> QED
    BY <2>1, <2>3, <2>4, SoundMoves DEF j
<1> QED
  BY <1>1, <1>2, <1>3, <1>4, <1>5, <1>6, <1>7 DEF Delivers

\* Nothing is left to send, or nothing was.
LEMMA ListingIs ==
  ASSUME Typed, Sound, NEW p \in Procs, Listing(p)
  PROVE  /\ job[p].want = {} /\ job[p].todo = << >> /\ job[p].held = Rest.held
         /\ job[p].pc \in {"files", "send"}
         /\ job[p].how \in {"turn", "startup"} \/ job[p].bad = {}
<1>0. Role(p, job[p]) /\ Quiet(job[p])
  BY DEF Sound
<1>1. \/ job[p].pc = "files" /\ job[p].want = {}
      \/ job[p].pc = "send" /\ job[p].todo = << >> /\ (job[p].how \in {"turn", "startup"} \/ job[p].bad = {})
  BY DEF Listing, At, Through, Carries
<1> QED
  BY <1>0, <1>1 DEF Quiet

LEMMA RoundingKeepsSound ==
  ASSUME Typed, Sound, NEW p \in Procs, Rounding(p)
  PROVE  Typed' /\ Sound'
<1>0. job[p] \in JobSet(Len(arts)) /\ Role(p, job[p]) /\ Quiet(job[p])
  BY JobIs DEF Sound
<1>1. CASE AnswerIsOut(p)
  <2>1. /\ Typed' /\ Others(p) /\ job[p].pc = "send" /\ job[p].todo = << >> /\ job'[p] = FilesJob(p)
        /\ job[p].how \in {"turn", "recovered"} /\ job[p].round = 0
    BY <1>1, AnswerIsOutEffect DEF Through, At
  <2> DEFINE j == job'[p]
  <2>2. /\ j.pc = "files" /\ j.bad = {}
        /\ j.todo = job[p].todo /\ j.held = job[p].held
        /\ j.how = job[p].how /\ j.task = job[p].task
        /\ j.owed = job[p].owed /\ j.round = job[p].round
    BY <2>1, FilesAre
  <2> HIDE DEF j
  <2>3. Role(p, j)
    BY <1>0, <2>1, <2>2 DEF Role
  <2>4. Quiet(j)
    BY <1>0, <2>1, <2>2 DEF Quiet
  <2> QED
    BY <2>1, <2>3, <2>4, SoundMoves DEF j
<1>2. CASE GoesOn(p)
  <2>1. Typed' /\ Others(p) /\ Listing(p) /\ job[p].how \in {"turn", "recovered", "terminal", "startup"}
    BY <1>2, GoesOnEffect
  <2>2. PICK n \in Later(p) :
          LET kind == Rounds[job[p].how][n] IN
          /\ n \in 1..5
          /\ job'[p] = RoundJob(p, n, kind)
          /\ RoundJob(p, n, kind).pc = IF kind = "reply" THEN "speak" ELSE "send"
          /\ RoundJob(p, n, kind).todo = ListOf(kind) /\ RoundJob(p, n, kind).held = Rest.held
          /\ RoundJob(p, n, kind).how = job[p].how /\ RoundJob(p, n, kind).task = job[p].task
          /\ RoundJob(p, n, kind).want = job[p].want /\ RoundJob(p, n, kind).bad = {}
          /\ RoundJob(p, n, kind).owed = job[p].owed \cup job[p].bad
          /\ RoundJob(p, n, kind).round = n
    BY <1>2, GoesOnEffect, SMTT(30)
  <2> DEFINE j == job'[p]
  <2> DEFINE kind == Rounds[job[p].how][n]
  <2>3. /\ j.pc = IF kind = "reply" THEN "speak" ELSE "send"
        /\ j.todo = ListOf(kind) /\ j.held = Rest.held
        /\ j.how = job[p].how /\ j.task = job[p].task
        /\ j.want = job[p].want /\ j.bad = {}
        /\ j.owed = job[p].owed \cup job[p].bad
        /\ j.round = n
    BY <2>2
  <2>4. kind = "reply" => job[p].task \in Speak
    BY DEF Later, HasWork
  <2>5. job[p].want = {} /\ (job[p].how = "recovered" => job[p].bad = {})
    BY <2>1, ListingIs
  <2> HIDE DEF j, kind
  <2>6. Role(p, j)
    <3>1. /\ j.pc = "send" \/ (j.pc = "speak" /\ j.task \in Speak)
          /\ j.how = job[p].how /\ j.task = job[p].task /\ j.how # "direct"
      BY <2>1, <2>3, <2>4
    <3>2. job[p].pc # "rest"
      BY <2>1, ListingIs
    <3> QED
      BY <1>0, <3>1, <3>2 DEF Role
  <2>7. Quiet(j)
    <3>1. j.pc \notin {"send", "mark"} => j.todo = << >>
      BY <2>3 DEF ListOf
    <3> QED
      BY <1>0, <2>1, <2>3, <2>5, <3>1 DEF Quiet
  <2> QED
    BY <2>1, <2>6, <2>7, SoundMoves DEF j
<1>3. CASE Finishes(p)
  BY <1>3, FinishesEffect, EndedIsSound, SoundMoves
<1>4. CASE BreaksOff(p)
  BY <1>4, BreaksOffEffect, EndedIsSound, SoundMoves
<1>5. CASE Speaks(p)
  <2>1. job[p].pc = "speak"
    BY <1>5 DEF Speaks, At
  <2>2. job[p].task \in Tasks /\ job[p].want = {} /\ job[p].pc # "rest"
    BY <1>0, <2>1, ArtifactsAssumption DEF Role, Quiet
  <2>3. Typed' /\ Others(p) /\ job'[p] = SendJob(job[p], <<Len(arts) + 1>>)
    BY <1>5, <2>2, SpeaksEffect
  <2>4. Role(p, job'[p]) /\ Quiet(job'[p])
    BY <2>2, <2>3, SendJobIsSound
  <2> QED
    BY <2>3, <2>4, SoundMoves
<1>6. CASE SpeechFails(p)
  <2>1. job[p].pc = "speak"
    BY <1>6, SpeechFailsEffect
  <2>2. Typed' /\ Others(p) /\ job'[p] = NothingJob(p)
    BY <1>6, SpeechFailsEffect, NothingTypes
  <2> DEFINE j == job'[p]
  <2>3. j.pc = "send" /\ j.how = job[p].how /\ j.task = job[p].task /\ j.round = job[p].round
        /\ j.want = job[p].want /\ j.owed = job[p].owed /\ j.held = Rest.held
    BY <1>6, <2>2, SpeechFailsEffect, NothingTypes
  <2> HIDE DEF j
  <2>4. Role(p, j)
    BY <1>0, <2>1, <2>3 DEF Role
  <2>5. Quiet(j)
    BY <1>0, <2>1, <2>3 DEF Quiet
  <2> QED
    BY <2>2, <2>4, <2>5, SoundMoves DEF j
<1> QED
  BY <1>1, <1>2, <1>3, <1>4, <1>5, <1>6 DEF Rounding

LEMMA DirectlyKeepsSound ==
  ASSUME Typed, Sound, NEW p \in Procs, Directly(p)
  PROVE  Typed' /\ Sound'
<1>0. job[p] \in JobSet(Len(arts)) /\ Role(p, job[p]) /\ Quiet(job[p])
  BY JobIs DEF Sound
<1>1. CASE Generates(p)
  <2>1. Typed' /\ Others(p) /\ job'[p] = SendJob(job[p], <<Len(arts) + 1>>) /\ job[p].pc = "generate"
    BY <1>1, GeneratesEffect
  <2>2. job[p].want = {} /\ job[p].pc # "rest"
    BY <1>0, <2>1 DEF Quiet
  <2>3. Role(p, job'[p]) /\ Quiet(job'[p])
    BY <2>1, <2>2, SendJobIsSound
  <2> QED
    BY <2>1, <2>3, SoundMoves
<1>2. CASE GenerationFails(p)
  <2>1. job[p].pc = "generate"
    BY <1>2, GenerationFailsEffect
  <2>2. Typed' /\ Others(p) /\ job'[p] = NothingJob(p)
    BY <1>2, GenerationFailsEffect, NothingTypes
  <2> DEFINE j == job'[p]
  <2>3. j.pc = "send" /\ j.how = job[p].how /\ j.task = job[p].task /\ j.round = job[p].round
        /\ j.want = job[p].want /\ j.owed = job[p].owed /\ j.held = Rest.held
    BY <1>2, <2>2, GenerationFailsEffect, NothingTypes
  <2> HIDE DEF j
  <2>4. Role(p, j)
    BY <1>0, <2>1, <2>3 DEF Role
  <2>5. Quiet(j)
    BY <1>0, <2>1, <2>3 DEF Quiet
  <2> QED
    BY <2>2, <2>4, <2>5, SoundMoves DEF j
<1>3. CASE SaysGenerated(p)
  <2>1. Typed' /\ Others(p) /\ Through(p) /\ job[p].how = "direct"
    BY <1>3, SaysGeneratedEffect
  <2>2. CASE job[p].bad = {} /\ job[p].task \in Speak /\ job'[p] = SpeakJob(p)
    <3> DEFINE j == job'[p]
    <3>1. j.pc = "speak" /\ j.how = job[p].how /\ j.task = job[p].task /\ j.round = 1
          /\ j.want = job[p].want /\ j.owed = job[p].owed /\ j.held = job[p].held
          /\ j.todo = job[p].todo /\ j.bad = job[p].bad
      BY <1>0, <2>2 DEF JobSet, SpeakJob
    <3>2. job[p].pc = "send" /\ job[p].todo = << >>
      BY <2>1 DEF Through, At
    <3> HIDE DEF j
    <3>3. Role(p, j)
      BY <1>0, <2>1, <2>2, <3>1, <3>2 DEF Role
    <3>4. Quiet(j)
      BY <1>0, <2>2, <3>1, <3>2 DEF Quiet
    <3> QED
      BY <2>1, <3>3, <3>4, SoundMoves DEF j
  <2>3. CASE job'[p] = Ended(p)
    BY <2>1, <2>3, EndedIsSound, SoundMoves
  <2> QED
    BY <1>3, <2>2, <2>3, SaysGeneratedEffect
<1>4. CASE SayingFails(p)
  BY <1>4, SayingFailsEffect, EndedIsSound, SoundMoves
<1>5. CASE ReplyEnds(p)
  BY <1>5, ReplyEndsEffect, EndedIsSound, SoundMoves
<1>6. CASE SendEnds(p)
  BY <1>6, SendEndsEffect, EndedIsSound, SoundMoves
<1> QED
  BY <1>1, <1>2, <1>3, <1>4, <1>5, <1>6 DEF Directly

\* A new job of a process that may do it.
LEMMA NewJobIsSound ==
  ASSUME Typed, NEW p \in Procs, NEW h \in Modes, NEW c \in {"turn", "generate", "stage"}, NEW t \in Tasks \cup {0},
         NEW W \in SUBSET Request,
         h \in MayDo(p) \ {None}, t # 0 <=> p = "worker" /\ h \in Works,
         c = "turn" => h \in {"turn", "terminal"}, c = "generate" => h = "direct",
         c = "stage" => h \in {"recovered", "send"}, c # "stage" => W = {}
  PROVE  Role(p, NewJob(h, c, t, W)) /\ Quiet(NewJob(h, c, t, W))
<1> DEFINE j == NewJob(h, c, t, W)
<1>1. /\ j.how = h /\ j.pc = c /\ j.task = t /\ j.want = W /\ j.todo = << >> /\ j.held = Rest.held
      /\ j.bad = {} /\ j.owed = {} /\ j.round = 0
  <2>1. Rest \in JobSet(0) /\ Rest.todo = << >> /\ Rest.bad = {} /\ Rest.owed = {} /\ Rest.round = 0
    BY RestIsJob
  <2> QED
    BY <2>1 DEF NewJob, JobSet
<1> HIDE DEF j
<1>2. Role(p, j)
  BY <1>1 DEF Role
<1>3. Quiet(j)
  BY <1>1 DEF Quiet
<1> QED
  BY <1>2, <1>3 DEF j

LEMMA TakesKeepSound ==
  ASSUME Typed, Sound, NEW t \in Tasks, Takes(t)
  PROVE  Typed' /\ Sound'
<1> DEFINE w == "worker"
<1>0. w \in Procs /\ job[w] \in JobSet(Len(arts)) /\ Role(w, job[w]) /\ Quiet(job[w]) /\ Len(arts) \in Nat
  BY Bounds, JobIs, LenProperties DEF Sound, Typed, ArtsTyped
<1>00. t # 0 /\ t \in Tasks \cup {0} /\ {} \in SUBSET Request
  BY Bounds
<1>1. CASE Answers(t)
  <2>1. Typed' /\ Others(w) /\ job[w].pc = "turn" /\ job[w].task = t
    BY <1>1, AnswersEffect
  <2>2. PICK W \in SUBSET Request : job'[w] = [job[w] EXCEPT !.pc = "stage", !.want = W]
    BY <1>1, AnswersEffect
  <2> DEFINE j == job'[w]
  <2>3. j.pc = "stage" /\ j.how = job[w].how /\ j.task = job[w].task /\ j.round = job[w].round
        /\ j.todo = job[w].todo /\ j.bad = job[w].bad /\ j.owed = job[w].owed
    BY <1>0, <2>2 DEF JobSet
  <2> HIDE DEF j
  <2>4. Role(w, j)
    BY <1>0, <1>00, <2>1, <2>3 DEF Role, Works
  <2>5. Quiet(j)
    BY <1>0, <2>1, <2>3 DEF Quiet
  <2> QED
    BY <1>0, <2>1, <2>4, <2>5, SoundMoves DEF j
<1>2. CASE TurnBegins(t)
  <2>1. Typed' /\ Others(w) /\ job'[w] = NewJob("turn", "turn", t, {})
    BY <1>2, TurnBeginsEffect
  <2>2. "turn" \in Modes /\ "turn" \in MayDo(w) \ {None} /\ "turn" \in Works
    BY DEF Modes, MayDo, None, Works
  <2>3. Role(w, job'[w]) /\ Quiet(job'[w])
    BY <1>0, <1>00, <2>1, <2>2, NewJobIsSound
  <2> QED
    BY <1>0, <2>1, <2>3, SoundMoves
<1>3. CASE PictureBegins(t)
  <2>1. Typed' /\ Others(w) /\ job'[w] = NewJob("direct", "generate", t, {})
    BY <1>3, PictureBeginsEffect
  <2>2. "direct" \in Modes /\ "direct" \in MayDo(w) \ {None} /\ "direct" \in Works
    BY DEF Modes, MayDo, None, Works
  <2>3. Role(w, job'[w]) /\ Quiet(job'[w])
    BY <1>0, <1>00, <2>1, <2>2, NewJobIsSound
  <2> QED
    BY <1>0, <2>1, <2>3, SoundMoves
<1>4. CASE Recovers(t)
  <2>1. Typed' /\ Others(w)
    BY <1>4, RecoversEffect
  <2>2. PICK W \in SUBSET Request : job'[w] = NewJob("recovered", "stage", t, W)
    BY <1>4, RecoversEffect
  <2>3. "recovered" \in Modes /\ "recovered" \in MayDo(w) \ {None} /\ "recovered" \in Works
    BY DEF Modes, MayDo, None, Works
  <2>4. Role(w, job'[w]) /\ Quiet(job'[w])
    BY <1>0, <1>00, <2>2, <2>3, NewJobIsSound
  <2> QED
    BY <1>0, <2>1, <2>4, SoundMoves
<1>5. CASE Abandons(t)
  <2>1. Typed' /\ Others(w) /\ job'[w] = Startup
    BY <1>5, AbandonsEffect
  <2>2. Role(w, Startup) /\ Quiet(Startup)
    <3>1. /\ Startup.todo = << >> /\ Startup.pc = "send" /\ Startup.how = "startup" /\ Startup.task = 0
          /\ Startup.round = 0 /\ Startup.bad = {} /\ Startup.owed = {} /\ Startup.want = {}
          /\ Startup.held = Rest.held
      BY <1>0, RestIsJob
    <3> QED
      BY <3>1 DEF Role, Quiet, MayDo, Works, None
  <2> QED
    BY <1>0, <2>1, <2>2, SoundMoves
<1> QED
  BY <1>1, <1>2, <1>3, <1>4, <1>5 DEF Takes

LEMMA CommandsKeepSound ==
  ASSUME Typed, Sound,
         \/ TerminalBegins \/ TerminalAnswers \/ ImageCommand
         \/ \E path \in Paths : SendCommand(path)
  PROVE  Typed' /\ Sound'
<1>0. 0 \in Tasks \cup {0} /\ {} \in SUBSET Request
  OBVIOUS
<1>1. CASE TerminalBegins
  <2>1. Typed' /\ "terminal" \in Procs /\ Others("terminal") /\ job'["terminal"] = NewJob("terminal", "turn", 0, {})
    BY <1>1, TerminalBeginsEffect
  <2>2. "terminal" \in Modes /\ "terminal" \in MayDo("terminal") \ {None} /\ "terminal" \notin Works
    BY DEF Modes, MayDo, None, Works
  <2>3. Role("terminal", job'["terminal"]) /\ Quiet(job'["terminal"])
    BY <1>0, <2>1, <2>2, NewJobIsSound
  <2> QED
    BY <2>1, <2>3, SoundMoves
<1>2. CASE TerminalAnswers
  <2> DEFINE p == "terminal"
  <2>1. Typed' /\ p \in Procs /\ Others(p) /\ job[p].pc = "turn"
    BY <1>2, TerminalAnswersEffect
  <2>2. PICK F \in SUBSET Paths : job'[p] = [job[p] EXCEPT !.pc = "text", !.named = F]
    BY <1>2, TerminalAnswersEffect
  <2>3. job[p] \in JobSet(Len(arts)) /\ Role(p, job[p]) /\ Quiet(job[p])
    BY <2>1, JobIs DEF Sound
  <2> DEFINE j == job'[p]
  <2>4. j.pc = "text" /\ j.how = job[p].how /\ j.task = job[p].task /\ j.round = job[p].round
        /\ j.todo = job[p].todo /\ j.bad = job[p].bad /\ j.owed = job[p].owed /\ j.held = job[p].held
        /\ j.want = job[p].want
    BY <2>2, <2>3 DEF JobSet
  <2> HIDE DEF j
  <2>5. Role(p, j)
    BY <2>1, <2>3, <2>4 DEF Role, MayDo
  <2>6. Quiet(j)
    BY <2>1, <2>3, <2>4 DEF Quiet
  <2> QED
    BY <2>1, <2>5, <2>6, SoundMoves DEF j
<1>3. CASE ImageCommand
  <2>1. Typed' /\ "chat" \in Procs /\ Others("chat") /\ job'["chat"] = NewJob("direct", "generate", 0, {})
    BY <1>3, ImageCommandEffect
  <2>2. "direct" \in Modes /\ "direct" \in MayDo("chat") \ {None}
    BY DEF Modes, MayDo, None
  <2>3. Role("chat", job'["chat"]) /\ Quiet(job'["chat"])
    BY <1>0, <2>1, <2>2, NewJobIsSound
  <2> QED
    BY <2>1, <2>3, SoundMoves
<1>4. ASSUME NEW path \in Paths, SendCommand(path) PROVE Typed' /\ Sound'
  <2>1. Typed' /\ "ctl" \in Procs /\ Others("ctl")
    BY <1>4, SendCommandEffect
  <2>2. PICK W \in SUBSET Request : job'["ctl"] = NewJob("send", "stage", 0, W)
    BY <1>4, SendCommandEffect
  <2>3. "send" \in Modes /\ "send" \in MayDo("ctl") \ {None}
    BY DEF Modes, MayDo, None
  <2>4. Role("ctl", job'["ctl"]) /\ Quiet(job'["ctl"])
    BY <1>0, <2>1, <2>2, <2>3, NewJobIsSound
  <2> QED
    BY <2>1, <2>4, SoundMoves
<1> QED
  BY <1>1, <1>2, <1>3, <1>4

LEMMA BesideKeepsSound ==
  ASSUME Typed, Sound,
         \/ Crash
         \/ \E path \in Paths : Writes(path)
         \/ \E kind \in ToolKinds : ToolMakes(kind)
  PROVE  Typed' /\ Sound'
<1>1. CASE Crash
  <2>1. Typed'
    BY <1>1, CrashEffect
  <2>2. /\ Rest.todo = << >> /\ Rest.pc = "rest" /\ Rest.how = None /\ Rest.task = 0 /\ Rest.round = 0
        /\ Rest.bad = {} /\ Rest.owed = {} /\ Rest.want = {}
        /\ Startup.todo = << >> /\ Startup.pc = "send" /\ Startup.how = "startup" /\ Startup.task = 0
        /\ Startup.round = 0 /\ Startup.bad = {} /\ Startup.owed = {} /\ Startup.want = {}
        /\ Startup.held = Rest.held /\ Startup \in JobSet(0)
    BY RestIsJob
  <2> DEFINE B == [Startup EXCEPT !.pc = "boot"]
  <2>3. /\ B.todo = << >> /\ B.pc = "boot" /\ B.how = "startup" /\ B.task = 0
        /\ B.round = 0 /\ B.bad = {} /\ B.owed = {} /\ B.want = {} /\ B.held = Rest.held
    BY <2>2 DEF JobSet
  <2> HIDE DEF B
  <2>4. /\ Role("worker", Startup) /\ Quiet(Startup)
        /\ Role("worker", B) /\ Quiet(B)
    BY <2>2, <2>3 DEF Role, Quiet, MayDo, Works, None
  <2>5. \A p \in Procs : Role(p, Rest) /\ Quiet(Rest)
    BY <2>2 DEF Role, Quiet, MayDo, Works, None
  <2>6. \A p \in Procs : Role(p, job'[p]) /\ Quiet(job'[p])
    BY <1>1, <2>4, <2>5, CrashEffect DEF Sound, B
  <2> QED
    BY <2>1, <2>6 DEF Sound
<1>2. ASSUME NEW path \in Paths, Writes(path) PROVE Typed' /\ Sound'
  <2>1. Typed' /\ \A p \in Procs : job'[p] = [job[p] EXCEPT !.since = job'[p].since]
    BY <1>2, WritesEffect
  <2>2. ASSUME NEW p \in Procs PROVE Role(p, job'[p]) /\ Quiet(job'[p])
    <3>1. job[p] \in JobSet(Len(arts)) /\ Role(p, job[p]) /\ Quiet(job[p])
      BY JobIs DEF Sound
    <3> DEFINE s == job'[p].since
    <3> DEFINE j == job'[p]
    <3>2. j = [job[p] EXCEPT !.since = s]
      BY <2>1
    <3> HIDE DEF s, j
    <3>3. j.pc = job[p].pc /\ j.how = job[p].how /\ j.task = job[p].task /\ j.round = job[p].round
          /\ j.todo = job[p].todo /\ j.bad = job[p].bad /\ j.owed = job[p].owed /\ j.held = job[p].held
          /\ j.want = job[p].want
      BY <3>1, <3>2 DEF JobSet
    <3>4. Role(p, j)
      BY <3>1, <3>3 DEF Role
    <3>5. Quiet(j)
      BY <3>1, <3>3 DEF Quiet
    <3> QED
      BY <3>4, <3>5 DEF j
  <2> QED
    BY <2>1, <2>2 DEF Sound
<1>3. ASSUME NEW kind \in ToolKinds, ToolMakes(kind) PROVE Typed' /\ Sound'
  BY <1>3, ToolMakesEffect DEF Sound
<1> QED
  BY <1>1, <1>2, <1>3

LEMMA InitIsSound ==
  ASSUME Init
  PROVE  Typed /\ Sound
<1>1. /\ Rest.todo = << >> /\ Rest.pc = "rest" /\ Rest.how = None /\ Rest.task = 0 /\ Rest.round = 0
      /\ Rest.bad = {} /\ Rest.owed = {} /\ Rest.want = {} /\ Rest \in JobSet(0)
  BY RestIsJob
<1>2. arts = << >> /\ Len(arts) = 0 /\ ArtsTyped
  BY DEF Init, ArtsTyped
<1>3. JobsTyped /\ MarkHolds /\ MadeTyped /\ RowTyped
  BY <1>1, <1>2 DEF Init, JobsTyped, MarkHolds, MadeTyped, RowTyped
<1>4. FileTyped
  BY Bounds DEF Init, FileTyped
<1>5. AnswerTyped
  <2>1. [p \in Paths |-> 0] \in [Paths -> 0..MaxWrites]
    BY Bounds
  <2>2. NoAnswer \in [given : BOOLEAN, inline : SUBSET Images, named : SUBSET Paths,
                      since : SUBSET Paths, seen : [Paths -> 0..MaxWrites]]
    BY <2>1 DEF NoAnswer
  <2> QED
    BY <2>2 DEF Init, AnswerTyped
<1>6. Sound
  <2>1. \A p \in Procs : Role(p, Rest) /\ Quiet(Rest)
    BY <1>1 DEF Role, Quiet, MayDo, Works, None
  <2> QED
    BY <2>1 DEF Sound, Init
<1> QED
  BY <1>2, <1>3, <1>4, <1>5, <1>6 DEF Typed

LEMMA NextKeepsSound ==
  ASSUME Typed, Sound, [Next]_vars
  PROVE  Typed' /\ Sound'
<1>1. CASE Next
  <2>1. ASSUME NEW p \in Procs, Step(p) PROVE Typed' /\ Sound'
    BY <2>1, StagesKeepSound, DeliversKeepSound, RoundingKeepsSound, DirectlyKeepsSound DEF Step
  <2>2. ASSUME NEW t \in Tasks, Takes(t) PROVE Typed' /\ Sound'
    BY <2>2, TakesKeepSound
  <2> QED
    BY <1>1, <2>1, <2>2, CommandsKeepSound, BesideKeepsSound DEF Next
<1>2. CASE UNCHANGED vars
  BY <1>2 DEF vars, bounded, Typed, Sound, ArtsTyped, JobsTyped, MadeTyped, RowTyped, AnswerTyped, FileTyped, MarkHolds
<1> QED
  BY <1>1, <1>2

\* Every variable keeps its type: what the jobs hold, list, failed on and still
\* ask for are artifacts of the store, whoever added them (TypeOK).
THEOREM StoreIsTyped == Spec => []TypeOK
<1>1. Init => Typed /\ Sound
  BY InitIsSound
<1>2. Typed /\ Sound /\ [Next]_vars => (Typed /\ Sound)'
  BY NextKeepsSound
<1>3. Typed /\ Sound => TypeOK
  BY TypedIsTypeOK
<1> QED
  BY <1>1, <1>2, <1>3, PTL DEF Spec

----------------------------------------------------------------------------
(* What is in hand.                                                        *)

HeldIn(j) == ToSet(j.todo) \cup UNION {ToSet(j.held[b]) : b \in Branches}

LEMMA HeldByIs == \A p \in Procs : HeldBy(p) = HeldIn(job[p]) /\ HeldBy(p)' = HeldIn(job'[p])
BY DEF HeldBy, HeldIn

LEMMA InSeq ==
  /\ \A x : ToSet(<<x>>) = {x}
  /\ ToSet(<< >>) = {}
BY DEF ToSet

\* Only a list, and nothing beside it.
LEMMA OnlyTodo ==
  ASSUME NEW j, j.held = Rest.held
  PROVE  HeldIn(j) = ToSet(j.todo)
<1>1. \A b \in Branches : j.held[b] = << >>
  BY RestIsJob
<1>2. \A b \in Branches : ToSet(j.held[b]) = {}
  BY <1>1, InSeq
<1> QED
  BY <1>2 DEF HeldIn

LEMMA HeadAndTail ==
  ASSUME Typed, NEW p \in Procs, job[p].todo # << >>
  PROVE  /\ ToSet(job[p].todo) = {Head(job[p].todo)} \cup ToSet(Tail(job[p].todo))
         /\ \A i \in DOMAIN Tail(job[p].todo) : i + 1 \in DOMAIN job[p].todo /\ i + 1 # 1 /\ i \in Nat
                                                /\ Tail(job[p].todo)[i] = job[p].todo[i + 1]
         /\ 1 \in DOMAIN job[p].todo /\ Head(job[p].todo) = job[p].todo[1]
<1> DEFINE s == job[p].todo
<1>1. s \in Seq(1..Len(arts)) /\ s # << >>
  BY HandsAreIds
<1> HIDE DEF s
<1>2. /\ Tail(s) \in Seq(1..Len(arts)) /\ Len(Tail(s)) = Len(s) - 1 /\ Len(s) \in Nat /\ Len(s) >= 1
      /\ DOMAIN s = 1..Len(s) /\ DOMAIN Tail(s) = 1..(Len(s) - 1)
      /\ Head(s) = s[1]
      /\ \A i \in 1..(Len(s) - 1) : Tail(s)[i] = s[i + 1]
  <2>1. Tail(s) \in Seq(1..Len(arts)) /\ Len(Tail(s)) = Len(s) - 1
    BY <1>1, HeadTailProperties
  <2>2. Len(s) \in Nat /\ DOMAIN s = 1..Len(s) /\ DOMAIN Tail(s) = 1..Len(Tail(s))
    BY <1>1, <2>1, LenProperties
  <2>3. Len(s) >= 1 /\ Head(s) = s[1] /\ \A i \in 1..(Len(s) - 1) : Tail(s)[i] = s[i + 1]
    BY <1>1
  <2> QED
    BY <2>1, <2>2, <2>3
<1>3. /\ \A i \in DOMAIN Tail(s) : i + 1 \in DOMAIN s /\ i + 1 # 1 /\ i \in Nat /\ Tail(s)[i] = s[i + 1]
      /\ 1 \in DOMAIN s /\ Head(s) = s[1]
  BY <1>2
<1>4. ToSet(s) = {Head(s)} \cup ToSet(Tail(s))
  <2>1. ASSUME NEW i \in DOMAIN s PROVE s[i] \in {Head(s)} \cup ToSet(Tail(s))
    <3>1. CASE i = 1
      BY <1>2, <3>1
    <3>2. CASE i # 1
      <4>1. i - 1 \in DOMAIN Tail(s) /\ Tail(s)[i - 1] = s[i]
        BY <1>2, <3>2
      <4> QED
        BY <4>1 DEF ToSet
    <3> QED
      BY <3>1, <3>2
  <2>2. ASSUME NEW i \in DOMAIN Tail(s) PROVE Tail(s)[i] \in ToSet(s)
    BY <1>3 DEF ToSet
  <2>3. Head(s) \in ToSet(s)
    BY <1>3 DEF ToSet
  <2>4. ToSet(s) \subseteq {Head(s)} \cup ToSet(Tail(s))
    BY <2>1 DEF ToSet
  <2>5. ToSet(Tail(s)) \subseteq ToSet(s)
    BY <2>2 DEF ToSet
  <2> QED
    BY <2>3, <2>4, <2>5
<1> QED
  BY <1>3, <1>4 DEF s

\* The three hands as one sequence.
LEMMA HandsInARow ==
  ASSUME Typed, NEW p \in Procs
  PROVE  /\ \A i \in DOMAIN InHands(p) :
              \E b \in Branches : \E k \in DOMAIN job[p].held[b] :
                 /\ InHands(p)[i] = job[p].held[b][k]
                 /\ i = k + (IF b = 1 THEN 0 ELSE Len(job[p].held[1]))
                          + (IF b = 3 THEN Len(job[p].held[2]) ELSE 0)
         /\ \A b \in Branches : \A k \in DOMAIN job[p].held[b] :
              \E i \in DOMAIN InHands(p) : InHands(p)[i] = job[p].held[b][k]
         /\ ToSet(InHands(p)) = UNION {ToSet(job[p].held[b]) : b \in Branches}
<1> DEFINE s == job[p].held[1]
<1> DEFINE t == job[p].held[2]
<1> DEFINE u == job[p].held[3]
<1> DEFINE S == 1..Len(arts)
<1>1. s \in Seq(S) /\ t \in Seq(S) /\ u \in Seq(S) /\ Branches = {1, 2, 3}
  BY HandsAreIds
<1> HIDE DEF s, t, u, S
<1>2. /\ Len(s) \in Nat /\ DOMAIN s = 1..Len(s) /\ Len(t) \in Nat /\ DOMAIN t = 1..Len(t)
      /\ Len(u) \in Nat /\ DOMAIN u = 1..Len(u)
  BY <1>1, LenProperties
<1>3. /\ s \o t \in Seq(S) /\ Len(s \o t) = Len(s) + Len(t)
      /\ \A i \in 1..(Len(s) + Len(t)) : (s \o t)[i] = IF i <= Len(s) THEN s[i] ELSE t[i - Len(s)]
  BY <1>1, ConcatProperties
<1> DEFINE st == s \o t
<1>4. /\ st \o u \in Seq(S) /\ Len(st \o u) = Len(st) + Len(u)
      /\ \A i \in 1..(Len(st) + Len(u)) : (st \o u)[i] = IF i <= Len(st) THEN st[i] ELSE u[i - Len(st)]
  <2>1. st \in Seq(S)
    BY <1>3
  <2> HIDE DEF st
  <2> QED
    BY <1>1, <2>1, ConcatProperties
<1>5. InHands(p) = st \o u
  BY DEF InHands, s, t, u
<1>6. DOMAIN (st \o u) = 1..(Len(s) + Len(t) + Len(u)) /\ Len(st) = Len(s) + Len(t)
  <2>1. DOMAIN (st \o u) = 1..Len(st \o u)
    BY <1>4, LenProperties
  <2> QED
    BY <1>2, <1>3, <1>4, <2>1
<1> DEFINE r == st \o u
<1>7. \A i \in DOMAIN r :
        \/ i \in DOMAIN s /\ r[i] = s[i]
        \/ i - Len(s) \in DOMAIN t /\ r[i] = t[i - Len(s)]
        \/ i - Len(s) - Len(t) \in DOMAIN u /\ r[i] = u[i - Len(s) - Len(t)]
  <2> SUFFICES ASSUME NEW i \in 1..(Len(s) + Len(t) + Len(u))
               PROVE  \/ i \in DOMAIN s /\ r[i] = s[i]
                      \/ i - Len(s) \in DOMAIN t /\ r[i] = t[i - Len(s)]
                      \/ i - Len(s) - Len(t) \in DOMAIN u /\ r[i] = u[i - Len(s) - Len(t)]
    BY <1>6
  <2>1. CASE i <= Len(s) + Len(t)
    <3>1. r[i] = st[i] /\ i \in 1..(Len(s) + Len(t))
      BY <1>2, <1>4, <1>6, <2>1
    <3>2. CASE i <= Len(s)
      BY <1>2, <1>3, <3>1, <3>2
    <3>3. CASE i > Len(s)
      BY <1>2, <1>3, <3>1, <3>3
    <3> QED
      BY <1>2, <3>2, <3>3
  <2>2. CASE i > Len(s) + Len(t)
    <3>1. r[i] = u[i - Len(st)]
      BY <1>2, <1>4, <1>6, <2>2
    <3>2. i - Len(st) = i - Len(s) - Len(t) /\ i - Len(s) - Len(t) \in 1..Len(u)
      BY <1>2, <1>6, <2>2
    <3> QED
      BY <1>2, <3>1, <3>2
  <2> QED
    BY <1>2, <2>1, <2>2
<1>8. /\ \A k \in DOMAIN s : k \in DOMAIN r /\ r[k] = s[k]
      /\ \A k \in DOMAIN t : k + Len(s) \in DOMAIN r /\ r[k + Len(s)] = t[k]
      /\ \A k \in DOMAIN u : k + Len(s) + Len(t) \in DOMAIN r /\ r[k + Len(s) + Len(t)] = u[k]
  <2>1. ASSUME NEW k \in DOMAIN s PROVE k \in DOMAIN r /\ r[k] = s[k]
    BY <1>2, <1>3, <1>4, <1>6
  <2>2. ASSUME NEW k \in DOMAIN t PROVE k + Len(s) \in DOMAIN r /\ r[k + Len(s)] = t[k]
    <3>1. k + Len(s) \in 1..(Len(s) + Len(t)) /\ ~(k + Len(s) <= Len(s)) /\ k + Len(s) - Len(s) = k
      BY <1>2
    <3>2. st[k + Len(s)] = t[k]
      BY <1>3, <3>1
    <3> QED
      BY <1>2, <1>4, <1>6, <3>1, <3>2
  <2>3. ASSUME NEW k \in DOMAIN u PROVE k + Len(s) + Len(t) \in DOMAIN r /\ r[k + Len(s) + Len(t)] = u[k]
    <3>1. /\ k + Len(s) + Len(t) \in 1..(Len(st) + Len(u)) /\ ~(k + Len(s) + Len(t) <= Len(st))
          /\ k + Len(s) + Len(t) - Len(st) = k
      BY <1>2, <1>6
    <3> QED
      BY <1>2, <1>4, <1>6, <3>1
  <2> QED
    BY <2>1, <2>2, <2>3
<1> HIDE DEF r, st
<1>9. \A i \in DOMAIN r :
        \E b \in Branches : \E k \in DOMAIN job[p].held[b] :
           /\ r[i] = job[p].held[b][k]
           /\ i = k + (IF b = 1 THEN 0 ELSE Len(s)) + (IF b = 3 THEN Len(t) ELSE 0)
  <2> SUFFICES ASSUME NEW i \in DOMAIN r
               PROVE  \E b \in Branches : \E k \in DOMAIN job[p].held[b] :
                         /\ r[i] = job[p].held[b][k]
                         /\ i = k + (IF b = 1 THEN 0 ELSE Len(s)) + (IF b = 3 THEN Len(t) ELSE 0)
    OBVIOUS
  <2>0. i \in Nat
    BY <1>2, <1>6 DEF r, st
  <2>1. CASE i \in DOMAIN s /\ r[i] = s[i]
    BY <1>1, <1>2, <2>0, <2>1 DEF s
  <2>2. CASE i - Len(s) \in DOMAIN t /\ r[i] = t[i - Len(s)]
    <3>1. i = (i - Len(s)) + Len(s) + 0
      BY <1>2, <2>0
    <3> QED
      BY <1>1, <2>2, <3>1 DEF t
  <2>3. CASE i - Len(s) - Len(t) \in DOMAIN u /\ r[i] = u[i - Len(s) - Len(t)]
    <3>1. i = (i - Len(s) - Len(t)) + Len(s) + Len(t)
      BY <1>2, <2>0
    <3> QED
      BY <1>1, <2>3, <3>1 DEF u
  <2> QED
    BY <1>7, <2>1, <2>2, <2>3
<1>10. \A b \in Branches : \A k \in DOMAIN job[p].held[b] : \E i \in DOMAIN r : r[i] = job[p].held[b][k]
  BY <1>1, <1>8 DEF s, t, u
<1>11. InHands(p) = r
  BY <1>5 DEF r
<1>12. ToSet(InHands(p)) = UNION {ToSet(job[p].held[b]) : b \in Branches}
  <2>1. \A i \in DOMAIN r : \E b \in Branches : r[i] \in ToSet(job[p].held[b])
    BY <1>9 DEF ToSet
  <2>2. \A b \in Branches : \A x \in ToSet(job[p].held[b]) : x \in ToSet(r)
    BY <1>10 DEF ToSet
  <2>3. ToSet(r) \subseteq UNION {ToSet(job[p].held[b]) : b \in Branches}
    BY <2>1 DEF ToSet
  <2> QED
    BY <1>11, <2>2, <2>3
<1> QED
  BY <1>9, <1>10, <1>11, <1>12 DEF s, t

LEMMA SendJobHolds ==
  ASSUME Typed, NEW p \in Procs, NEW s
  PROVE  /\ HeldIn(SendJob(job[p], s)) = ToSet(s)
         /\ SendJob(job[p], s).todo = s /\ SendJob(job[p], s).held = Rest.held
         /\ SendJob(job[p], s).how = job[p].how /\ SendJob(job[p], s).task = job[p].task
         /\ SendJob(job[p], s).round = job[p].round
         /\ SendJob(job[p], s).bad = {} /\ SendJob(job[p], s).owed = job[p].owed
<1> DEFINE j == SendJob(job[p], s)
<1>1. /\ j.todo = s /\ j.held = Rest.held /\ j.how = job[p].how /\ j.task = job[p].task
      /\ j.round = job[p].round /\ j.bad = {} /\ j.owed = job[p].owed
  <2>1. job[p] \in JobSet(Len(arts))
    BY JobIs
  <2> QED
    BY <2>1 DEF SendJob, JobSet
<1> HIDE DEF j
<1>2. HeldIn(j) = ToSet(s)
  BY <1>1, OnlyTodo
<1> QED
  BY <1>1, <1>2 DEF j

LEMMA StagedHolds ==
  ASSUME Typed, NEW p \in Procs, NEW r \in Request, NEW a \in Nat
  PROVE  /\ HeldIn(StagedJob(p, r, a)) = HeldIn(job[p]) \cup (IF job[p].pc = "files" THEN {} ELSE {a})
         /\ StagedJob(p, r, a).todo = job[p].todo /\ StagedJob(p, r, a).held = StagedHeld(p, r, a)
         /\ StagedJob(p, r, a).how = job[p].how /\ StagedJob(p, r, a).task = job[p].task
         /\ StagedJob(p, r, a).round = job[p].round /\ StagedJob(p, r, a).pc = job[p].pc
         /\ StagedJob(p, r, a).bad = job[p].bad /\ StagedJob(p, r, a).owed = job[p].owed
<1> DEFINE W == job[p].want \ {r}
<1> DEFINE h == StagedHeld(p, r, a)
<1> DEFINE j == StagedJob(p, r, a)
<1>1. j = [job[p] EXCEPT !.want = W, !.held = h] /\ job[p] \in JobSet(Len(arts))
  BY JobIs DEF StagedJob
<1> HIDE DEF W, h, j
<1>2. /\ j.todo = job[p].todo /\ j.held = h /\ j.how = job[p].how /\ j.task = job[p].task
      /\ j.round = job[p].round /\ j.bad = job[p].bad /\ j.owed = job[p].owed /\ j.pc = job[p].pc
  BY <1>1 DEF JobSet
<1>3. job[p].held \in [Branches -> Seq(1..Len(arts))] /\ r.branch \in Branches
  BY <1>1 DEF JobSet, Request
<1> DEFINE U == UNION {ToSet(h[b]) : b \in Branches}
<1> DEFINE V == UNION {ToSet(job[p].held[b]) : b \in Branches}
<1>6. HeldIn(j) = ToSet(job[p].todo) \cup U /\ HeldIn(job[p]) = ToSet(job[p].todo) \cup V
  BY <1>2 DEF HeldIn
<1>4. ASSUME job[p].pc = "files" PROVE HeldIn(j) = HeldIn(job[p])
  <2>1. h = job[p].held
    BY <1>4 DEF h, StagedHeld
  <2>2. U = V
    BY <2>1
  <2> HIDE DEF U, V
  <2> QED
    BY <1>4, <1>6, <2>2
<1>5. ASSUME job[p].pc # "files" PROVE HeldIn(j) = HeldIn(job[p]) \cup {a}
  <2> DEFINE B == job[p].held[r.branch]
  <2>1. ToSet(Append(B, a)) = ToSet(B) \cup {a}
    <3>1. B \in Seq(1..Len(arts))
      BY <1>3
    <3> HIDE DEF B
    <3>2. /\ Append(B, a) \in Seq(Nat) /\ Len(B) \in Nat /\ DOMAIN B = 1..Len(B)
          /\ DOMAIN Append(B, a) = 1..(Len(B) + 1)
          /\ Append(B, a)[Len(B) + 1] = a /\ \A i \in 1..Len(B) : Append(B, a)[i] = B[i]
      <4>1. B \in Seq(Nat)
        BY <3>1, SeqMonotonic
      <4>2. Append(B, a) \in Seq(Nat) /\ Len(Append(B, a)) = Len(B) + 1
            /\ Append(B, a)[Len(B) + 1] = a /\ \A i \in 1..Len(B) : Append(B, a)[i] = B[i]
        BY <4>1, AppendProperties
      <4> QED
        BY <4>1, <4>2, LenProperties
    <3> QED
      BY <3>2 DEF ToSet
  <2>2. h[r.branch] = Append(B, a) /\ \A b \in Branches : b # r.branch => h[b] = job[p].held[b]
    BY <1>3, <1>5 DEF h, StagedHeld
  <2>3. \A b \in Branches : ToSet(h[b]) = ToSet(job[p].held[b]) \cup (IF b = r.branch THEN {a} ELSE {})
    BY <2>1, <2>2
  <2>4. U = V \cup {a}
    <3>1. ASSUME NEW x \in U PROVE x \in V \cup {a}
      <4>1. PICK b \in Branches : x \in ToSet(h[b])
        OBVIOUS
      <4>2. x \in ToSet(job[p].held[b]) \/ x = a
        BY <2>3, <4>1
      <4> QED
        BY <4>2
    <3>2. ASSUME NEW x \in V PROVE x \in U
      <4>1. PICK b \in Branches : x \in ToSet(job[p].held[b])
        OBVIOUS
      <4>2. x \in ToSet(h[b])
        BY <2>3, <4>1
      <4> QED
        BY <4>2
    <3>3. a \in U
      <4>1. a \in ToSet(h[r.branch])
        BY <1>3, <2>3
      <4> QED
        BY <1>3, <4>1
    <3> HIDE DEF U, V
    <3> QED
      BY <3>1, <3>2, <3>3
  <2> HIDE DEF U, V
  <2> QED
    BY <1>5, <1>6, <2>4
<1> HIDE DEF U, V
<1>7. HeldIn(j) = HeldIn(job[p]) \cup (IF job[p].pc = "files" THEN {} ELSE {a})
  BY <1>4, <1>5
<1> QED
  BY <1>2, <1>7 DEF j, h

----------------------------------------------------------------------------
(* Completed answers.                                                      *)

\* What no later step takes back: the artifact is in the chat, or it is given
\* up and that is known.
Settled(a) == arts[a].delivered \/ (arts[a].quarantined /\ (arts[a].known \/ arts[a].dropped))

\* A list still to come has the artifact.
ToCome(a) == LET j == job["worker"] IN
  /\ Waiting(a) /\ j.how \in {"turn", "recovered"}
  /\ \E n \in DOMAIN Rounds[j.how] : n > j.round /\ Rounds[j.how][n] = arts[a].kind
Cared(a) == \/ Settled(a)
            \/ a \in HeldIn(job["worker"])
            \/ a \in job["worker"].bad \cup job["worker"].owed
            \/ ToCome(a)

RowOfWork == LET j == job["worker"] IN
  j.task # 0 => row[j.task] = IF j.how = "direct" THEN "pending" ELSE "processing"
Answered  == LET j == job["worker"] IN j.task # 0 => \A a \in made[j.task] : Cared(a)
Completed == \A t \in Tasks : row[t] = "completed" => \A a \in made[t] : Settled(a)
\* /image sends only what it has made itself, for no message.
ChatsOwn  == "chat" \in Procs =>
  \A a \in ToSet(job["chat"].todo) : arts[a].source = "telegram" /\ \A t \in Tasks : a \notin made[t]
Kept == RowOfWork /\ Answered /\ Completed /\ ChatsOwn

Stays(a) == Settled(a) => Settled(a)'
Waits(a) == Waiting(a) => Waiting(a)' \/ Settled(a)'

LEMMA SameIsOnward ==
  ASSUME NEW a, SameFate(a), arts[a].known => arts'[a].known
  PROVE  Stays(a) /\ Waits(a)
BY DEF SameFate, Stays, Waits, Settled, Waiting

LEMMA MadeAreIds ==
  ASSUME Typed, NEW t \in Tasks
  PROVE  made[t] \subseteq Ids
<1>1. ArtsTyped /\ made[t] \in SUBSET (1..Len(arts))
  BY DEF Typed, MadeTyped
<1> QED
  BY <1>1, IdsAre

\* A step that is not the worker's.
LEMMA BesideTheWorker ==
  ASSUME Typed, Kept, UNCHANGED <<row, made>>,
         job'["worker"] = [job["worker"] EXCEPT !.since = job'["worker"].since],
         \A t \in Tasks : \A a \in made[t] : SameSort(a) /\ Stays(a) /\ Waits(a)
  PROVE  RowOfWork' /\ Answered' /\ Completed'
<1> DEFINE j == job["worker"]
<1> DEFINE k == job'["worker"]
<1>0. k.how = j.how /\ k.task = j.task /\ k.round = j.round /\ k.todo = j.todo /\ k.held = j.held
      /\ k.bad = j.bad /\ k.owed = j.owed
  <2>1. job["worker"] \in JobSet(Len(arts))
    BY Bounds, JobIs
  <2> DEFINE s == k.since
  <2>2. k = [job["worker"] EXCEPT !.since = s]
    OBVIOUS
  <2> HIDE DEF s, k
  <2> QED
    BY <2>1, <2>2 DEF JobSet
<1>1. RowOfWork'
  BY <1>0 DEF Kept, RowOfWork
<1>2. Completed'
  BY DEF Kept, Completed, Stays
<1>3. Answered'
  <2> SUFFICES ASSUME j.task # 0, NEW a \in made[j.task] PROVE Cared(a)'
    BY <1>0 DEF Answered
  <2>1. j.task \in Tasks
    BY Bounds, TaskOf
  <2>2. Cared(a) /\ SameSort(a) /\ Stays(a) /\ Waits(a)
    BY <2>1 DEF Kept, Answered
  <2>3. HeldIn(k) = HeldIn(j)
    BY <1>0 DEF HeldIn
  <2>4. ToCome(a) => ToCome(a)' \/ Settled(a)'
    BY <1>0, <2>2 DEF ToCome, Waits, SameSort
  <2> HIDE DEF HeldIn
  <2> QED
    BY <1>0, <2>2, <2>3, <2>4 DEF Cared, Stays
<1> QED
  BY <1>1, <1>2, <1>3

\* A step after which the worker works for no message.
LEMMA WorkerLeaves ==
  ASSUME Typed, Kept, job'["worker"].task = 0,
         \A t \in Tasks : row'[t] = "completed" =>
            \A a \in made'[t] : \/ Settled(a)'
                                \/ row[t] = "completed" /\ a \in made[t] /\ Stays(a)
  PROVE  RowOfWork' /\ Answered' /\ Completed'
BY DEF Kept, RowOfWork, Answered, Completed, Stays

\* A step of the worker at its message.
LEMMA WorkerGoesOn ==
  ASSUME Typed, Kept, job["worker"].task \in Tasks,
         job'["worker"].task = job["worker"].task, job'["worker"].how = job["worker"].how, row' = row,
         \A t \in Tasks : t # job["worker"].task => made'[t] = made[t] /\ \A a \in made[t] : Stays(a),
         \A a \in made'[job["worker"].task] : Cared(a)'
  PROVE  RowOfWork' /\ Answered' /\ Completed'
<1>1. RowOfWork'
  BY DEF Kept, RowOfWork
<1>2. Answered'
  BY DEF Answered
<1>3. Completed'
  <2> SUFFICES ASSUME NEW t \in Tasks, row'[t] = "completed", NEW a \in made'[t]
               PROVE  Settled(a)'
    BY DEF Completed
  <2>1. t # job["worker"].task
    BY Bounds DEF Kept, RowOfWork
  <2> QED
    BY <2>1 DEF Kept, Completed, Stays
<1> QED
  BY <1>1, <1>2, <1>3

\* What is cared for stays so while the worker keeps what it has in hand, what
\* failed and what is to come.
LEMMA CaredStays ==
  ASSUME NEW a, Cared(a), SameSort(a), Stays(a), Waits(a),
         job'["worker"].how = job["worker"].how, job'["worker"].round = job["worker"].round,
         a \in HeldIn(job["worker"]) => a \in HeldIn(job'["worker"]),
         a \in job["worker"].bad \cup job["worker"].owed => a \in job'["worker"].bad \cup job'["worker"].owed
  PROVE  Cared(a)'
<1>1. ToCome(a) => ToCome(a)' \/ Settled(a)'
  BY DEF ToCome, Waits, SameSort
<1> QED
  BY <1>1 DEF Cared, Stays

\* A step of one process that goes on with its job.
LEMMA KeptMoves ==
  ASSUME Typed, Typed', Sound, Kept, NEW p \in Procs, Others(p), row' = row,
         p = "worker" => job'[p].task = job[p].task /\ job'[p].how = job[p].how,
         \A t \in Tasks : t # job[p].task => made'[t] = made[t],
         \A a \in Ids : SameSort(a) /\ Stays(a),
         p # "worker" => \A t \in Tasks : \A a \in made[t] : Waits(a),
         p = "worker" /\ job[p].task \in Tasks => \A a \in made'[job[p].task] : Cared(a)'
  PROVE  RowOfWork' /\ Answered' /\ Completed'
<1>1. CASE p # "worker"
  <2>1. job[p].task = 0 /\ job["worker"] \in JobSet(Len(arts)) /\ job'["worker"] = job["worker"] /\ 0 \notin Tasks
    BY <1>1, JobIs, Bounds, TaskOf DEF Others, Sound, Role
  <2>2. \A t \in Tasks : made'[t] = made[t]
    BY <2>1
  <2>3. made' = made
    BY <2>2 DEF Typed, MadeTyped
  <2> DEFINE w == job["worker"]
  <2>4. w = [w EXCEPT !.since = w.since]
    BY <2>1 DEF JobSet
  <2> HIDE DEF w
  <2>5. job'["worker"] = [job["worker"] EXCEPT !.since = job'["worker"].since]
    BY <2>1, <2>4 DEF w
  <2>6. \A t \in Tasks : \A a \in made[t] : SameSort(a) /\ Stays(a) /\ Waits(a)
    BY <1>1, MadeAreIds
  <2> HIDE DEF SameSort, Stays, Waits
  <2> QED
    BY <2>3, <2>5, <2>6, BesideTheWorker
<1>2. CASE p = "worker" /\ job[p].task \in Tasks
  <2>1. \A t \in Tasks : t # job["worker"].task => made'[t] = made[t] /\ \A a \in made[t] : Stays(a)
    BY <1>2, MadeAreIds
  <2> QED
    BY <1>2, <2>1, WorkerGoesOn
<1>3. CASE p = "worker" /\ job[p].task = 0
  <2>1. \A t \in Tasks : made'[t] = made[t] /\ \A a \in made[t] : Stays(a)
    BY <1>3, MadeAreIds, Bounds
  <2> QED
    BY <1>3, <2>1, WorkerLeaves
<1> QED
  BY <1>1, <1>2, <1>3, TaskOf

\* A step with which the job of a process ends.
LEMMA KeptEnds ==
  ASSUME Typed, Typed', Sound, Kept, NEW p \in Procs, Others(p), made' = made, job'[p] = Ended(p),
         NEW s \in {"completed", "failed"}, Settle(job[p].task, s),
         \A a \in Ids : SameSort(a) /\ SameFate(a) /\ (arts[a].known => arts'[a].known),
         p = "worker" /\ job[p].task \in Tasks /\ s = "completed" => \A a \in made[job[p].task] : Settled(a)
  PROVE  RowOfWork' /\ Answered' /\ Completed'
<1>1. \A a \in Ids : Stays(a) /\ Waits(a)
  BY SameIsOnward
<1>2. CASE p # "worker"
  <2>1. job[p].task = 0 /\ 0 \notin Tasks
    BY <1>2, TaskOf DEF Sound, Role
  <2>2. row' = row
    BY <2>1 DEF Settle
  <2>3. \A t \in Tasks : \A a \in made[t] : Waits(a)
    BY <1>1, MadeAreIds
  <2> HIDE DEF SameSort, Stays, Waits
  <2> QED
    BY <1>1, <1>2, <2>2, <2>3, KeptMoves
<1>3. CASE p = "worker"
  <2>1. job'["worker"].task = 0
    <3>1. Rest.task = 0 /\ Startup.task = 0
      BY RestIsJob
    <3> QED
      BY <1>3, <3>1 DEF Ended
  <2>2. /\ job["worker"].task = 0 => row' = row
        /\ job["worker"].task \in Tasks => row'[job["worker"].task] = s
        /\ \A u \in Tasks : u # job["worker"].task => row'[u] = row[u]
        /\ job["worker"].task \in Tasks \cup {0}
    BY <1>3, SettleTypes, TaskOf
  <2>3. ASSUME NEW t \in Tasks, row'[t] = "completed", NEW a \in made'[t]
        PROVE  \/ Settled(a)'
               \/ row[t] = "completed" /\ a \in made[t] /\ Stays(a)
    <3>1. a \in Ids /\ Stays(a)
      BY <1>1, MadeAreIds
    <3>2. CASE t = job["worker"].task
      <4>1. Settled(a)
        BY <1>3, <2>2, <2>3, <3>2
      <4> QED
        BY <3>1, <4>1 DEF Stays
    <3>3. CASE t # job["worker"].task
      BY <2>2, <2>3, <3>1, <3>3
    <3> QED
      BY <3>2, <3>3
  <2> QED
    BY <2>1, <2>3, WorkerLeaves
<1> QED
  BY <1>2, <1>3

\* The list of /image only gets shorter.
LEMMA ChatsKeep ==
  ASSUME Typed, Kept,
         "chat" \in Procs => ToSet(job'["chat"].todo) \subseteq ToSet(job["chat"].todo),
         \A a \in Ids : arts'[a].source = arts[a].source,
         \A t \in Tasks : \A a \in made'[t] : a \in made[t] \/ a \notin Ids \/ arts[a].source = "automatic"
  PROVE  ChatsOwn'
<1> SUFFICES ASSUME "chat" \in Procs, NEW a \in ToSet(job'["chat"].todo)
             PROVE  arts'[a].source = "telegram" /\ \A t \in Tasks : a \notin made'[t]
  BY DEF ChatsOwn
<1>1. a \in ToSet(job["chat"].todo)
  OBVIOUS
<1>2. a \in Ids
  <2>1. job["chat"].todo \in Seq(1..Len(arts))
    BY HandsAreIds
  <2>2. ToSet(job["chat"].todo) \subseteq 1..Len(arts)
    BY <2>1 DEF ToSet
  <2> QED
    BY <1>1, <2>2, IdsAre DEF Typed
<1>3. arts[a].source = "telegram" /\ \A t \in Tasks : a \notin made[t]
  BY <1>1 DEF Kept, ChatsOwn
<1> QED
  BY <1>2, <1>3

\* In particular when nothing is made and the list is the same, shorter or empty.
LEMMA ChatsKeepOn ==
  ASSUME Typed, Kept, NEW p \in Procs, Others(p), made' = made,
         ToSet(job'[p].todo) \subseteq ToSet(job[p].todo),
         \A a \in Ids : SameSort(a)
  PROVE  ChatsOwn'
<1>1. "chat" \in Procs => ToSet(job'["chat"].todo) \subseteq ToSet(job["chat"].todo)
  BY DEF Others
<1> QED
  BY <1>1, ChatsKeep DEF SameSort

LEMMA ChatsKeepOther ==
  ASSUME Typed, Kept, NEW p \in Procs, Others(p), p # "chat", made' = made,
         \A a \in Ids : SameSort(a)
  PROVE  ChatsOwn'
<1>1. "chat" \in Procs => ToSet(job'["chat"].todo) \subseteq ToSet(job["chat"].todo)
  BY DEF Others
<1> QED
  BY <1>1, ChatsKeep DEF SameSort

\* A step that stages an artifact that waits, or a new one, for a process.
LEMMA StagingKeeps ==
  ASSUME Typed, Typed', Sound, Kept, NEW p \in Procs, Others(p), row' = row,
         NEW r \in Request, NEW a \in Nat, job'[p] = StagedJob(p, r, a), MadeFor(p, a),
         job[p].pc \in {"stage", "recent", "files"},
         Waiting(a)', arts'[a].kind \in Kinds, a \notin Ids \/ (Waiting(a) /\ arts[a].source = "automatic"),
         \A b \in Ids : /\ SameSort(b) /\ SameFate(b)
                        /\ b # a => SameNews(b)
  PROVE  Kept'
<1>1. \A b \in Ids : Stays(b) /\ Waits(b)
  <2> SUFFICES ASSUME NEW b \in Ids PROVE Stays(b) /\ Waits(b)
    OBVIOUS
  <2>1. CASE b # a
    BY <2>1, SameIsOnward DEF SameNews
  <2>2. CASE b = a
    BY <2>2 DEF SameFate, Stays, Waits, Settled, Waiting
  <2> QED
    BY <2>1, <2>2
<1>2. /\ HeldIn(job'[p]) = HeldIn(job[p]) \cup (IF job[p].pc = "files" THEN {} ELSE {a})
      /\ job'[p].todo = job[p].todo /\ job'[p].how = job[p].how /\ job'[p].task = job[p].task
      /\ job'[p].round = job[p].round
      /\ job'[p].bad = job[p].bad /\ job'[p].owed = job[p].owed
  BY StagedHolds
<1>3. \A t \in Tasks : \/ made'[t] = made[t]
                       \/ t = job[p].task /\ made'[t] = made[t] \cup {a}
  BY DEF MadeFor, Typed, MadeTyped
<1>4. ASSUME p = "worker", job[p].task \in Tasks, NEW b \in made'[job[p].task] PROVE Cared(b)'
  <2>1. CASE b \in made[job[p].task]
    <3>1. Cared(b) /\ SameSort(b) /\ Stays(b) /\ Waits(b)
      BY <1>1, <1>4, <2>1, MadeAreIds, Bounds DEF Kept, Answered
    <3> HIDE DEF HeldIn
    <3> QED
      BY <1>2, <1>4, <3>1, CaredStays
  <2>2. CASE b = a /\ job[p].pc # "files"
    <3>1. b \in HeldIn(job'["worker"])
      BY <1>2, <1>4, <2>2
    <3> QED
      BY <3>1 DEF Cared
  <2>3. CASE b = a /\ job[p].pc = "files"
    <3>1. job[p].how \in {"turn", "recovered"} /\ job[p].round = 0
      <4>1. job[p].how \in {"turn", "recovered", "terminal"} /\ job[p].how \in MayDo("worker") /\ ~(job[p].round > 0)
            /\ job[p] \in JobSet(Len(arts))
        BY <1>4, <2>3, JobIs DEF Sound, Role
      <4>2. job[p].how \in {"turn", "recovered"}
        BY <4>1 DEF MayDo, None
      <4>3. job[p].round \in 0..5
        BY <4>1 DEF JobSet
      <4> QED
        BY <4>1, <4>2, <4>3
    <3>2. PICK n \in DOMAIN Rounds[job[p].how] : Rounds[job[p].how][n] = arts'[a].kind
      BY <3>1, RoundsAre
    <3>3. n > 0
      BY <3>1, RoundsAre
    <3>4. ToCome(b)'
      BY <1>2, <1>4, <2>3, <3>1, <3>2, <3>3 DEF ToCome
    <3> QED
      BY <3>4 DEF Cared
  <2> QED
    BY <1>3, <1>4, <2>1, <2>2, <2>3
<1>5. RowOfWork' /\ Answered' /\ Completed'
  <2>1. \A t \in Tasks : t # job[p].task => made'[t] = made[t]
    BY <1>3
  <2>2. \A t \in Tasks : \A b \in made[t] : Waits(b)
    BY <1>1, MadeAreIds
  <2>3. \A b \in Ids : SameSort(b) /\ Stays(b)
    BY <1>1
  <2> HIDE DEF SameSort, Stays, Waits, Cared
  <2> QED
    BY <1>2, <1>4, <2>1, <2>2, <2>3, KeptMoves
<1>6. ChatsOwn'
  <2>1. "chat" \in Procs => ToSet(job'["chat"].todo) \subseteq ToSet(job["chat"].todo)
    BY <1>2 DEF Others
  <2>2. \A t \in Tasks : \A b \in made'[t] : b \in made[t] \/ b \notin Ids \/ arts[b].source = "automatic"
    BY <1>3
  <2> QED
    BY <2>1, <2>2, ChatsKeep DEF SameSort
<1> QED
  BY <1>5, <1>6 DEF Kept

LEMMA NextIds ==
  ASSUME Typed'
  PROVE  /\ Ids' = 1..Len(arts') /\ Len(arts') \in Nat
         /\ \A a \in Ids' : arts'[a] \in ArtSet
<1>1. arts' \in Seq(ArtSet)
  BY DEF Typed, ArtsTyped
<1>2. Len(arts') \in Nat /\ DOMAIN arts' = 1..Len(arts') /\ arts' \in [1..Len(arts') -> ArtSet]
  BY <1>1, LenProperties
<1> QED
  BY <1>2 DEF Ids

\* A step that changes nothing but where a process stands and what it asks for.
LEMMA SettingKeeps ==
  ASSUME Typed, Typed', Sound, Kept, NEW p \in Procs, Others(p), UNCHANGED <<arts, row, made>>,
         job'[p].todo = job[p].todo, job'[p].held = job[p].held,
         job'[p].how = job[p].how, job'[p].task = job[p].task, job'[p].round = job[p].round,
         job'[p].bad = job[p].bad, job'[p].owed = job[p].owed
  PROVE  Kept'
<1>1. \A a \in Ids : SameSort(a) /\ Stays(a) /\ Waits(a)
  BY DEF SameSort, Stays, Waits, Settled, Waiting
<1>2. HeldIn(job'[p]) = HeldIn(job[p])
  BY DEF HeldIn
<1>3. ASSUME p = "worker", job[p].task \in Tasks, NEW a \in made'[job[p].task] PROVE Cared(a)'
  <2>1. Cared(a) /\ SameSort(a) /\ Stays(a) /\ Waits(a)
    BY <1>1, <1>3, MadeAreIds, Bounds DEF Kept, Answered
  <2> HIDE DEF HeldIn
  <2> QED
    BY <1>2, <1>3, <2>1, CaredStays
<1>4. \A t \in Tasks : \A a \in made[t] : Waits(a)
  BY <1>1, MadeAreIds
<1>5. ChatsOwn'
  BY <1>1, ChatsKeepOn
<1> HIDE DEF SameSort, Stays, Waits, Cared
<1>6. RowOfWork' /\ Answered' /\ Completed'
  BY <1>1, <1>3, <1>4, KeptMoves
<1> QED
  BY <1>5, <1>6 DEF Kept

\* What is in hand becomes the list.
LEMMA HandsKeep ==
  ASSUME Typed, Typed', Sound, Kept, NEW p \in Procs, Others(p), UNCHANGED <<arts, row, made>>,
         job'[p] = SendJob(job[p], InHands(p)), job[p].pc \notin {"rest", "send", "mark"}, p # "chat"
  PROVE  Kept'
<1>1. \A a \in Ids : SameSort(a) /\ Stays(a) /\ Waits(a)
  BY DEF SameSort, Stays, Waits, Settled, Waiting
<1>2. /\ HeldIn(job'[p]) = ToSet(InHands(p))
      /\ job'[p].how = job[p].how /\ job'[p].task = job[p].task
      /\ job'[p].round = job[p].round
      /\ job'[p].bad = {} /\ job'[p].owed = job[p].owed
  BY SendJobHolds
<1>3. job[p].todo = << >> /\ job[p].bad = {}
  BY DEF Sound, Quiet
<1>4. HeldIn(job'[p]) = HeldIn(job[p])
  <2>1. ToSet(job[p].todo) = {}
    BY <1>3, InSeq
  <2>2. ToSet(InHands(p)) = UNION {ToSet(job[p].held[b]) : b \in Branches}
    BY HandsInARow
  <2> QED
    BY <1>2, <2>1, <2>2 DEF HeldIn
<1>5. ASSUME p = "worker", job[p].task \in Tasks, NEW a \in made'[job[p].task] PROVE Cared(a)'
  <2>1. Cared(a) /\ SameSort(a) /\ Stays(a) /\ Waits(a)
    BY <1>1, <1>5, MadeAreIds, Bounds DEF Kept, Answered
  <2> HIDE DEF HeldIn
  <2> QED
    BY <1>2, <1>3, <1>4, <1>5, <2>1, CaredStays
<1>6. \A t \in Tasks : \A a \in made[t] : Waits(a)
  BY <1>1, MadeAreIds
<1>7. ChatsOwn'
  BY <1>1, ChatsKeepOther
<1> HIDE DEF SameSort, Stays, Waits, Cared
<1>8. RowOfWork' /\ Answered' /\ Completed'
  BY <1>1, <1>2, <1>5, <1>6, KeptMoves
<1> QED
  BY <1>7, <1>8 DEF Kept

LEMMA StagesKeep ==
  ASSUME Typed, Sound, Kept, NEW p \in Procs, Stages(p), Sound'
  PROVE  Kept'
<1>0. job[p].want # {} => job[p].pc \in {"stage", "recent", "files"}
  BY DEF Sound, Quiet
<1>1. CASE Reuses(p)
  <2>1. Typed' /\ Others(p) /\ Ids' = Ids /\ row' = row
    BY <1>1, ReusesEffect
  <2>2. PICK r \in job[p].want, a \in Ids :
          /\ r \in Request /\ Waiting(a) /\ arts[a].source = "automatic"
          /\ job'[p] = StagedJob(p, r, a) /\ MadeFor(p, a)
          /\ \A b \in Ids : /\ SameSort(b) /\ SameFate(b)
                            /\ b # a => SameNews(b) /\ SameShare(b)
    BY <1>1, ReusesEffect
  <2>3. Waiting(a)'
    BY <2>2 DEF Waiting, SameFate
  <2>4. arts'[a].kind \in Kinds /\ a \in Nat
    <3>1. arts'[a] \in ArtSet
      BY <2>1, <2>2, NextIds
    <3>2. a \in Nat
      BY IdsAre DEF Typed
    <3> QED
      BY <3>1, <3>2 DEF ArtSet
  <2> HIDE DEF SameSort, SameFate, SameNews, SameShare
  <2> QED
    BY <1>0, <2>1, <2>2, <2>3, <2>4, StagingKeeps
<1>2. CASE Copies(p)
  <2>0. PICK a \in Nat : a = Len(arts) + 1
    BY IdsAre DEF Typed
  <2>1. /\ Typed' /\ Others(p) /\ row' = row /\ Ids' = Ids \cup {a}
        /\ \A b \in Ids : arts'[b] = arts[b]
        /\ ~arts'[a].delivered /\ ~arts'[a].quarantined
        /\ MadeFor(p, a)
    BY <1>2, <2>0, CopiesEffect
  <2>2. PICK r \in job[p].want : r \in Request /\ job'[p] = StagedJob(p, r, a)
    BY <1>2, <2>0, CopiesEffect
  <2>3. a \in Nat /\ a \notin Ids
    BY <2>0, IdsAre DEF Typed
  <2>4. arts'[a].kind \in Kinds /\ Waiting(a)'
    <3>1. arts'[a] \in ArtSet
      BY <2>1, NextIds
    <3> QED
      BY <2>1, <3>1 DEF ArtSet, Waiting
  <2>5. \A b \in Ids : SameSort(b) /\ SameFate(b) /\ SameNews(b)
    BY <2>1 DEF SameSort, SameFate, SameNews
  <2> HIDE DEF SameSort, SameFate, SameNews
  <2> QED
    BY <1>0, <2>1, <2>2, <2>3, <2>4, <2>5, StagingKeeps
<1>3. CASE StartsCopy(p) \/ CopyFails(p)
  <2>1. Typed' /\ Others(p) /\ UNCHANGED <<arts, row, made>>
    BY <1>3, StartsCopyEffect, CopyFailsEffect
  <2>2. PICK W \in SUBSET Request : job'[p] = WantJob(p, W)
    BY <1>3, StartsCopyEffect, CopyFailsEffect
  <2> QED
    BY <2>1, <2>2, WantIs, SettingKeeps
<1>4. CASE SweepsRecent(p)
  <2>1. Typed' /\ Others(p) /\ UNCHANGED <<arts, row, made>>
    BY <1>4, SweepsRecentEffect
  <2>2. PICK W \in SUBSET Request : job'[p] = [job[p] EXCEPT !.pc = "recent", !.want = W]
    BY <1>4, SweepsRecentEffect
  <2>3. job[p] \in JobSet(Len(arts))
    BY JobIs
  <2>4. /\ job'[p].todo = job[p].todo /\ job'[p].held = job[p].held
        /\ job'[p].how = job[p].how /\ job'[p].task = job[p].task /\ job'[p].round = job[p].round
        /\ job'[p].bad = job[p].bad /\ job'[p].owed = job[p].owed
    BY <2>2, <2>3 DEF JobSet
  <2> QED
    BY <2>1, <2>4, SettingKeeps
<1>5. CASE SendBegins(p)
  <2>1. /\ Typed' /\ Others(p) /\ UNCHANGED <<arts, row, made>>
        /\ job[p].pc = "stage"
        /\ job'[p] = SendJob(job[p], InHands(p))
    BY <1>5, SendBeginsEffect
  <2>2. p # "chat"
    BY <2>1 DEF Sound, Role, MayDo, None
  <2> QED
    BY <2>1, <2>2, HandsKeep
<1> QED
  BY <1>1, <1>2, <1>3, <1>4, <1>5 DEF Stages

\* A job that fails.
LEMMA FailedEnds ==
  ASSUME Typed, Typed', Sound, Kept, NEW p \in Procs, Others(p), UNCHANGED <<arts, made>>, job'[p] = Ended(p),
         Settle(job[p].task, "failed")
  PROVE  ChatsOwn' /\ RowOfWork' /\ Answered' /\ Completed'
<1>1. \A a \in Ids : SameSort(a) /\ SameFate(a) /\ (arts[a].known => arts'[a].known)
  BY DEF SameSort, SameFate
<1>2. ChatsOwn'
  <2>1. ToSet(job'[p].todo) = {}
    <3>1. Rest.todo = << >> /\ Startup.todo = << >>
      BY RestIsJob
    <3> QED
      BY <3>1, InSeq DEF Ended
  <2> QED
    BY <1>1, <2>1, ChatsKeepOn
<1> HIDE DEF SameSort, SameFate
<1>3. RowOfWork' /\ Answered' /\ Completed'
  BY <1>1, KeptEnds
<1> QED
  BY <1>2, <1>3

\* A step that leaves what a process has in hand and what failed for it as they are.
LEMMA HoldingKeeps ==
  ASSUME Typed, Typed', Sound, Kept, NEW p \in Procs, Others(p), UNCHANGED <<row, made>>,
         \A a \in Ids : SameSort(a) /\ Stays(a) /\ Waits(a),
         job'[p].todo = job[p].todo, job'[p].held = job[p].held,
         job'[p].how = job[p].how, job'[p].task = job[p].task, job'[p].round = job[p].round,
         job'[p].bad = job[p].bad, job'[p].owed = job[p].owed
  PROVE  Kept'
<1>2. HeldIn(job'[p]) = HeldIn(job[p])
  BY DEF HeldIn
<1>3. ASSUME p = "worker", job[p].task \in Tasks, NEW a \in made'[job[p].task] PROVE Cared(a)'
  <2>1. Cared(a) /\ SameSort(a) /\ Stays(a) /\ Waits(a)
    BY <1>3, MadeAreIds, Bounds DEF Kept, Answered
  <2> HIDE DEF HeldIn
  <2> QED
    BY <1>2, <1>3, <2>1, CaredStays
<1>4. \A t \in Tasks : \A a \in made[t] : Waits(a)
  BY MadeAreIds
<1>5. ChatsOwn'
  BY ChatsKeepOn
<1> HIDE DEF SameSort, Stays, Waits, Cared
<1>6. RowOfWork' /\ Answered' /\ Completed'
  BY <1>3, <1>4, KeptMoves
<1> QED
  BY <1>5, <1>6 DEF Kept

\* A step after which one artifact, that is settled, is not in hand any more.
LEMMA ShorterKeeps ==
  ASSUME Typed, Typed', Sound, Kept, NEW p \in Procs, Others(p), UNCHANGED <<row, made>>,
         \A a \in Ids : SameSort(a) /\ Stays(a) /\ Waits(a),
         NEW c, Settled(c)', HeldIn(job[p]) = HeldIn(job'[p]) \cup {c},
         ToSet(job'[p].todo) \subseteq ToSet(job[p].todo),
         job'[p].how = job[p].how, job'[p].task = job[p].task, job'[p].round = job[p].round,
         job'[p].bad = job[p].bad, job'[p].owed = job[p].owed
  PROVE  Kept'
<1>3. ASSUME p = "worker", job[p].task \in Tasks, NEW a \in made'[job[p].task] PROVE Cared(a)'
  <2>1. Cared(a) /\ SameSort(a) /\ Stays(a) /\ Waits(a)
    BY <1>3, MadeAreIds, Bounds DEF Kept, Answered
  <2>2. CASE a = c
    BY <2>2 DEF Cared
  <2>3. CASE a # c
    <3> HIDE DEF HeldIn
    <3> QED
      BY <1>3, <2>1, <2>3, CaredStays
  <2> QED
    BY <2>2, <2>3
<1>4. \A t \in Tasks : \A a \in made[t] : Waits(a)
  BY MadeAreIds
<1>5. ChatsOwn'
  BY ChatsKeepOn
<1> HIDE DEF SameSort, Stays, Waits, Cared
<1>6. RowOfWork' /\ Answered' /\ Completed'
  BY <1>3, <1>4, KeptMoves
<1> QED
  BY <1>5, <1>6 DEF Kept

\* A list of which the first has been dealt with.
LEMMA TailHolds ==
  ASSUME Typed, NEW p \in Procs, job[p].todo # << >>,
         job'[p].todo = Tail(job[p].todo), job'[p].held = job[p].held
  PROVE  /\ HeldIn(job'[p]) \subseteq HeldIn(job[p])
         /\ HeldIn(job[p]) = HeldIn(job'[p]) \cup {Head(job[p].todo)}
         /\ ToSet(job'[p].todo) \subseteq ToSet(job[p].todo)
<1>1. ToSet(job[p].todo) = {Head(job[p].todo)} \cup ToSet(job'[p].todo)
  BY HeadAndTail
<1> DEFINE V == UNION {ToSet(job[p].held[b]) : b \in Branches}
<1>2. HeldIn(job[p]) = ToSet(job[p].todo) \cup V /\ HeldIn(job'[p]) = ToSet(job'[p].todo) \cup V
  BY DEF HeldIn
<1> HIDE DEF V
<1> QED
  BY <1>1, <1>2

LEMMA DeliversKeep ==
  ASSUME Typed, Sound, Kept, NEW p \in Procs, Delivers(p), Sound'
  PROVE  Kept'
<1>0. job[p] \in JobSet(Len(arts))
  BY JobIs
<1>1. CASE TextIsSent(p)
  <2>1. /\ Typed' /\ Others(p) /\ UNCHANGED <<arts, row, made>> /\ AtText(p)
        /\ IF job[p].how = "terminal"
             THEN job'[p] = [job[p] EXCEPT !.pc = "files", !.want = Ask(FilesOf(p), 1)]
             ELSE job'[p] = SendJob(job[p], InHands(p))
    BY <1>1, TextIsSentEffect
  <2>2. CASE job[p].how = "terminal"
    <3> DEFINE W == Ask(FilesOf(p), 1)
    <3>1. job'[p] = [job[p] EXCEPT !.pc = "files", !.want = W]
      BY <2>1, <2>2
    <3> HIDE DEF W
    <3>2. /\ job'[p].todo = job[p].todo /\ job'[p].held = job[p].held
          /\ job'[p].how = job[p].how /\ job'[p].task = job[p].task /\ job'[p].round = job[p].round
          /\ job'[p].bad = job[p].bad /\ job'[p].owed = job[p].owed
      BY <1>0, <3>1 DEF JobSet
    <3> QED
      BY <2>1, <3>2, SettingKeeps
  <2>3. CASE job[p].how # "terminal"
    <3>1. job[p].pc \in {"recent", "stage"}
      BY <2>1, <2>3, AtTextIs
    <3>2. p # "chat"
      BY <3>1 DEF Sound, Role, MayDo, None
    <3> QED
      BY <2>1, <2>3, <3>1, <3>2, HandsKeep
  <2> QED
    BY <2>2, <2>3
<1>2. CASE TextFails(p)
  <2>1. /\ Typed' /\ Others(p) /\ UNCHANGED <<arts, made>> /\ job'[p] = Ended(p)
        /\ Settle(job[p].task, "failed")
    BY <1>2, TextFailsEffect
  <2>2. ChatsOwn' /\ RowOfWork' /\ Answered' /\ Completed'
    BY <2>1, FailedEnds
  <2> QED
    BY <2>2 DEF Kept
<1>3. CASE Arrives(p)
  <2>1. PICK a : a = Head(job[p].todo)
    OBVIOUS
  <2>2. /\ Typed' /\ Others(p) /\ UNCHANGED <<row, made>> /\ Ids' = Ids
        /\ job'[p] = [job[p] EXCEPT !.pc = "mark"]
        /\ \A b \in Ids : SameSort(b) /\ SameNews(b) /\ (b # a => SameFate(b))
        /\ arts'[a].delivered = arts[a].delivered
        /\ arts'[a].quarantined = arts[a].quarantined /\ arts'[a].dropped = arts[a].dropped
    BY <1>3, <2>1, ArrivesEffect
  <2>3. \A b \in Ids : SameSort(b) /\ Stays(b) /\ Waits(b)
    BY <2>2 DEF SameFate, SameNews, Stays, Waits, Settled, Waiting
  <2>4. /\ job'[p].todo = job[p].todo /\ job'[p].held = job[p].held
        /\ job'[p].how = job[p].how /\ job'[p].task = job[p].task /\ job'[p].round = job[p].round
        /\ job'[p].bad = job[p].bad /\ job'[p].owed = job[p].owed
    BY <1>0, <2>2 DEF JobSet
  <2> QED
    BY <2>2, <2>3, <2>4, HoldingKeeps
<1>4. CASE Marks(p)
  <2>1. PICK a : a = Head(job[p].todo)
    OBVIOUS
  <2>2. /\ Typed' /\ Others(p) /\ UNCHANGED <<row, made>> /\ Ids' = Ids /\ a \in Ids
        /\ job[p].todo # << >>
        /\ job'[p] = DoneJob(p)
        /\ \A b \in Ids : SameSort(b) /\ SameNews(b) /\ (b # a => SameFate(b))
        /\ arts'[a].delivered
    BY <1>4, <2>1, MarksEffect
  <2>3. \A b \in Ids : SameSort(b) /\ Stays(b) /\ Waits(b)
    BY <2>2 DEF SameFate, SameNews, Stays, Waits, Settled, Waiting
  <2> DEFINE s == Tail(job[p].todo)
  <2>4. job'[p] = [job[p] EXCEPT !.pc = "send", !.todo = s, !.second = FALSE]
    BY <2>2 DEF DoneJob
  <2> HIDE DEF s
  <2>5. /\ job'[p].todo = s /\ job'[p].held = job[p].held
        /\ job'[p].how = job[p].how /\ job'[p].task = job[p].task /\ job'[p].round = job[p].round
        /\ job'[p].bad = job[p].bad /\ job'[p].owed = job[p].owed
    BY <1>0, <2>4 DEF JobSet
  <2>6. HeldIn(job[p]) = HeldIn(job'[p]) \cup {a} /\ ToSet(job'[p].todo) \subseteq ToSet(job[p].todo)
    BY <2>1, <2>2, <2>5, TailHolds DEF s
  <2>7. Settled(a)'
    BY <2>2 DEF Settled
  <2> QED
    BY <2>2, <2>3, <2>5, <2>6, <2>7, ShorterKeeps
<1>5. CASE ReplyIsLost(p)
  <2>1. PICK a : a = Head(job[p].todo)
    OBVIOUS
  <2>2. /\ Typed' /\ UNCHANGED <<row, made, job>> /\ Ids' = Ids
        /\ \A b \in Ids : SameSort(b) /\ SameNews(b) /\ (b # a => SameFate(b))
        /\ arts'[a].delivered = arts[a].delivered
        /\ arts'[a].quarantined = arts[a].quarantined /\ arts'[a].dropped = arts[a].dropped
    BY <1>5, <2>1, ReplyIsLostEffect
  <2>3. \A b \in Ids : SameSort(b) /\ Stays(b) /\ Waits(b)
    BY <2>2 DEF SameFate, SameNews, Stays, Waits, Settled, Waiting
  <2>4. Others(p) /\ job'[p] = job[p]
    BY <2>2 DEF Others
  <2> QED
    BY <2>2, <2>3, <2>4, HoldingKeeps
<1>6. CASE FallsBack(p)
  <2>1. /\ Typed' /\ Others(p) /\ UNCHANGED <<arts, row, made>>
        /\ job'[p] = [job[p] EXCEPT !.second = TRUE]
    BY <1>6, FallsBackEffect
  <2>2. /\ job'[p].todo = job[p].todo /\ job'[p].held = job[p].held
        /\ job'[p].how = job[p].how /\ job'[p].task = job[p].task /\ job'[p].round = job[p].round
        /\ job'[p].bad = job[p].bad /\ job'[p].owed = job[p].owed
    BY <1>0, <2>1 DEF JobSet
  <2> QED
    BY <2>1, <2>2, SettingKeeps
<1>7. CASE DeliveryFails(p)
  <2>1. PICK a : a = Head(job[p].todo)
    OBVIOUS
  <2>2. /\ Typed' /\ Others(p) /\ UNCHANGED <<row, made>> /\ Ids' = Ids /\ a \in Ids
        /\ job[p].pc = "send" /\ job[p].todo # << >>
        /\ job'[p] = FailedJob(p)
        /\ \A b \in Ids : /\ SameSort(b) /\ (b # a => SameFate(b) /\ SameNews(b))
    BY <1>7, <2>1, DeliveryFailsEffect
  <2>8. /\ arts'[a].delivered = arts[a].delivered
        /\ arts[a].quarantined => arts'[a].quarantined
        /\ arts[a].known => arts'[a].known
        /\ arts[a].dropped => arts'[a].dropped
        /\ job[p].how = "send" => arts'[a].known
        /\ job[p].how = "terminal" /\ arts'[a].quarantined => arts'[a].dropped
    BY <1>7, <2>1, DeliveryFailsEffect
  <2>3. \A b \in Ids : SameSort(b) /\ Stays(b) /\ (b # a => Waits(b))
    BY <2>2, <2>8 DEF SameFate, SameNews, Stays, Waits, Settled, Waiting
  <2> DEFINE s == Tail(job[p].todo)
  <2> DEFINE B == job[p].bad \cup {Head(job[p].todo)}
  <2>4. job'[p] = [job[p] EXCEPT !.todo = s, !.second = FALSE, !.bad = B]
    BY <2>2 DEF FailedJob
  <2>9. B = job[p].bad \cup {a}
    BY <2>1
  <2> HIDE DEF s, B
  <2>5. /\ job'[p].todo = s /\ job'[p].held = job[p].held
        /\ job'[p].how = job[p].how /\ job'[p].task = job[p].task /\ job'[p].round = job[p].round
        /\ job'[p].bad = B /\ job'[p].owed = job[p].owed
    BY <1>0, <2>4 DEF JobSet
  <2>6. /\ HeldIn(job[p]) = HeldIn(job'[p]) \cup {a} /\ ToSet(job'[p].todo) \subseteq ToSet(job[p].todo)
        /\ a \in ToSet(job[p].todo)
    BY <2>1, <2>2, <2>5, TailHolds, HeadAndTail DEF s
  <2>7. p # "worker" => \A t \in Tasks : \A b \in made[t] : Waits(b)
    <3> SUFFICES ASSUME p # "worker", NEW t \in Tasks, a \in made[t] PROVE Waits(a)
      BY <2>3, MadeAreIds
    <3>1. CASE p = "chat"
      BY <2>6, <3>1 DEF Kept, ChatsOwn
    <3>2. CASE p = "terminal"
      <4>1. job[p].how = "terminal"
        BY <2>2, <3>2 DEF Sound, Role, MayDo
      <4> QED
        BY <2>8, <4>1 DEF Waits, Settled, Waiting
    <3>3. CASE p = "ctl"
      <4>1. job[p].how = "send"
        BY <2>2, <3>3 DEF Sound, Role, MayDo
      <4> QED
        BY <2>8, <4>1 DEF Waits, Settled, Waiting
    <3> QED
      BY <3>1, <3>2, <3>3, Bounds
  <2>10. ASSUME p = "worker", job[p].task \in Tasks, NEW b \in made'[job[p].task] PROVE Cared(b)'
    <3>1. CASE b = a
      BY <1>0, <2>5, <2>9, <2>10, <3>1 DEF Cared
    <3>2. CASE b # a
      <4>1. Cared(b) /\ SameSort(b) /\ Stays(b) /\ Waits(b)
        BY <2>2, <2>3, <2>10, <3>2, MadeAreIds, Bounds DEF Kept, Answered
      <4> HIDE DEF HeldIn
      <4> QED
        BY <2>5, <2>6, <2>9, <2>10, <3>2, <4>1, CaredStays
    <3> QED
      BY <3>1, <3>2
  <2>11. ChatsOwn'
    BY <2>2, <2>3, <2>6, ChatsKeepOn
  <2> HIDE DEF SameSort, Stays, Waits, Cared
  <2>12. RowOfWork' /\ Answered' /\ Completed'
    BY <2>2, <2>3, <2>5, <2>7, <2>10, KeptMoves
  <2> QED
    BY <2>11, <2>12 DEF Kept
<1> QED
  BY <1>1, <1>2, <1>3, <1>4, <1>5, <1>6, <1>7 DEF Delivers

\* Of an artifact cared for, what is true when the worker has nothing in hand.
LEMMA CaredThen ==
  ASSUME NEW a, Cared(a), HeldIn(job["worker"]) = {}
  PROVE  Settled(a) \/ a \in job["worker"].bad \cup job["worker"].owed \/ ToCome(a)
BY DEF Cared

LEMMA NothingHeld ==
  ASSUME NEW j, j.todo = << >>, j.held = Rest.held
  PROVE  HeldIn(j) = {}
BY OnlyTodo, InSeq

\* A step that makes an artifact and sends it at once.
LEMMA MakingKeeps ==
  ASSUME Typed, Typed', Sound, Kept, NEW p \in Procs, Others(p), row' = row,
         NEW a \in Nat, a \notin Ids, \A b \in Ids : arts'[b] = arts[b], MadeFor(p, a),
         job'[p] = SendJob(job[p], <<a>>), job[p].pc \in {"speak", "generate"},
         p = "chat" => arts'[a].source = "telegram"
  PROVE  Kept'
<1>1. \A b \in Ids : SameSort(b) /\ Stays(b) /\ Waits(b)
  BY DEF SameSort, Stays, Waits, Settled, Waiting
<1>2. /\ HeldIn(job'[p]) = {a} /\ job'[p].todo = <<a>>
      /\ job'[p].how = job[p].how /\ job'[p].task = job[p].task
      /\ job'[p].round = job[p].round
      /\ job'[p].bad = {} /\ job'[p].owed = job[p].owed
  BY SendJobHolds, InSeq
<1>3. job[p].bad = {} /\ HeldIn(job[p]) = {}
  BY NothingHeld DEF Sound, Quiet
<1>4. \A t \in Tasks : \/ made'[t] = made[t]
                       \/ t = job[p].task /\ made'[t] = made[t] \cup {a}
  BY DEF MadeFor, Typed, MadeTyped
<1>5. ASSUME p = "worker", job[p].task \in Tasks, NEW b \in made'[job[p].task] PROVE Cared(b)'
  <2>1. CASE b \in made[job[p].task]
    <3>1. Cared(b) /\ SameSort(b) /\ Stays(b) /\ Waits(b)
      BY <1>1, <1>5, <2>1, MadeAreIds, Bounds DEF Kept, Answered
    <3> HIDE DEF HeldIn
    <3> QED
      BY <1>2, <1>3, <1>5, <3>1, CaredStays
  <2>2. CASE b = a
    BY <1>2, <1>5, <2>2 DEF Cared
  <2> QED
    BY <1>4, <1>5, <2>1, <2>2
<1>6. RowOfWork' /\ Answered' /\ Completed'
  <2>1. \A t \in Tasks : t # job[p].task => made'[t] = made[t]
    BY <1>4
  <2>2. \A t \in Tasks : \A b \in made[t] : Waits(b)
    BY <1>1, MadeAreIds
  <2>3. \A b \in Ids : SameSort(b) /\ Stays(b)
    BY <1>1
  <2> HIDE DEF SameSort, Stays, Waits, Cared
  <2> QED
    BY <1>2, <1>5, <2>1, <2>2, <2>3, KeptMoves
<1>7. ChatsOwn'
  <2>1. CASE p = "chat"
    <3>1. \A t \in Tasks : made'[t] = made[t] /\ a \notin made[t]
      BY <1>4, <2>1, MadeAreIds, TaskOf DEF Sound, Role
    <3>2. ToSet(job'["chat"].todo) = {a}
      BY <1>2, <2>1, InSeq
    <3> QED
      BY <2>1, <3>1, <3>2 DEF ChatsOwn
  <2>2. CASE p # "chat"
    <3>1. "chat" \in Procs => ToSet(job'["chat"].todo) \subseteq ToSet(job["chat"].todo)
      BY <2>2 DEF Others
    <3>2. \A t \in Tasks : \A b \in made'[t] : b \in made[t] \/ b \notin Ids \/ arts[b].source = "automatic"
      BY <1>4
    <3> QED
      BY <1>1, <3>1, <3>2, ChatsKeep DEF SameSort
  <2> QED
    BY <2>1, <2>2
<1> QED
  BY <1>6, <1>7 DEF Kept

\* Nothing could be made.
LEMMA NothingKeeps ==
  ASSUME Typed, Sound, Kept, NEW p \in Procs, job' = [Sends(p, << >>) EXCEPT ![p].bad = {0}],
         UNCHANGED <<file, arts, row, answer, made, writes>>, job[p].pc \in {"speak", "generate"}
  PROVE  Kept'
<1>1. \A b \in Ids : SameSort(b) /\ Stays(b) /\ Waits(b)
  BY DEF SameSort, Stays, Waits, Settled, Waiting
<1>2. /\ Typed' /\ Others(p) /\ UNCHANGED <<arts, row, made>>
      /\ job'[p].todo = << >> /\ job'[p].held = Rest.held /\ job'[p].bad = {0}
      /\ job'[p].how = job[p].how /\ job'[p].task = job[p].task
      /\ job'[p].owed = job[p].owed /\ job'[p].round = job[p].round
  BY NothingTypes
<1>3. job[p].bad = {} /\ HeldIn(job[p]) = {}
  BY NothingHeld DEF Sound, Quiet
<1>4. ToSet(job'[p].todo) = {}
  BY <1>2, InSeq
<1>5. ASSUME p = "worker", job[p].task \in Tasks, NEW b \in made'[job[p].task] PROVE Cared(b)'
  <2>1. Cared(b) /\ SameSort(b) /\ Stays(b) /\ Waits(b)
    BY <1>1, <1>2, <1>5, MadeAreIds, Bounds DEF Kept, Answered
  <2> HIDE DEF HeldIn
  <2> QED
    BY <1>2, <1>3, <1>5, <2>1, CaredStays
<1>6. \A t \in Tasks : \A b \in made[t] : Waits(b)
  BY <1>1, MadeAreIds
<1>7. ChatsOwn'
  BY <1>1, <1>2, <1>4, ChatsKeepOn
<1> HIDE DEF SameSort, Stays, Waits, Cared
<1>8. RowOfWork' /\ Answered' /\ Completed'
  BY <1>1, <1>2, <1>5, <1>6, KeptMoves
<1> QED
  BY <1>7, <1>8 DEF Kept

LEMMA AnswerIsOutKeeps ==
  ASSUME Typed, Sound, Kept, NEW p \in Procs, AnswerIsOut(p)
  PROVE  Kept'
<1>1. /\ Typed' /\ Others(p) /\ UNCHANGED <<row, made>> /\ Ids' = Ids
      /\ Through(p) /\ job[p].how \in {"turn", "recovered"} /\ job[p].round = 0
      /\ job'[p] = FilesJob(p)
      /\ \A b \in Ids : /\ SameSort(b) /\ SameFate(b)
                        /\ arts'[b].known <=> (arts[b].known \/ b \in job[p].bad)
  BY AnswerIsOutEffect
<1>2. /\ job'[p].todo = job[p].todo /\ job'[p].how = job[p].how /\ job'[p].task = job[p].task
      /\ job'[p].owed = job[p].owed /\ job'[p].round = job[p].round
  BY <1>1, FilesAre
<1>3. p = "worker"
  BY <1>1, Bounds DEF Sound, Role, MayDo, None
<1>4. HeldIn(job["worker"]) = {}
  BY <1>1, <1>3, NothingHeld DEF Sound, Quiet, Through, At
<1>5. \A b \in Ids : SameSort(b) /\ Stays(b) /\ Waits(b)
  BY <1>1, SameIsOnward
<1>6. ASSUME job[p].task \in Tasks, NEW b \in made'[job[p].task] PROVE Cared(b)'
  <2>0. b \in Ids
    BY <1>1, <1>6, MadeAreIds
  <2>1. Cared(b) /\ SameSort(b) /\ SameFate(b) /\ Stays(b)
    BY <1>1, <1>3, <1>5, <1>6, <2>0, Bounds DEF Kept, Answered
  <2>2. CASE Settled(b)
    BY <2>1, <2>2 DEF Stays, Cared
  <2>3. CASE b \in job[p].owed
    BY <1>2, <1>3, <2>3 DEF Cared
  <2>4. ASSUME Waiting(b) PROVE ToCome(b)'
    <3>1. arts[b].kind \in Kinds
      BY <2>0, IdsAre DEF Typed, ArtSet
    <3>2. PICK n \in DOMAIN Rounds[job[p].how] : Rounds[job[p].how][n] = arts[b].kind
      BY <1>1, <3>1, RoundsAre
    <3>3. n > 0
      BY <1>1, RoundsAre
    <3>4. Waiting(b)' /\ arts'[b].kind = arts[b].kind
      BY <2>1, <2>4 DEF Waiting, SameFate, SameSort
    <3> QED
      BY <1>1, <1>2, <1>3, <3>2, <3>3, <3>4 DEF ToCome
  <2>5. CASE b \in job[p].bad
    <3>1. arts'[b].known
      BY <1>1, <2>0, <2>5
    <3>2. Waiting(b) \/ Settled(b)'
      BY <2>1, <3>1 DEF Waiting, Settled, SameFate
    <3> QED
      BY <2>4, <3>2 DEF Cared
  <2>6. CASE ToCome(b)
    BY <2>4, <2>6 DEF ToCome, Cared
  <2> QED
    BY <1>3, <1>4, <2>1, <2>2, <2>3, <2>5, <2>6, CaredThen
<1>7. ChatsOwn'
  BY <1>1, <1>2, <1>5, ChatsKeepOn
<1> HIDE DEF SameSort, Stays, Waits, Cared
<1>8. RowOfWork' /\ Answered' /\ Completed'
  BY <1>1, <1>2, <1>3, <1>5, <1>6, KeptMoves
<1> QED
  BY <1>7, <1>8 DEF Kept

LEMMA GoesOnKeeps ==
  ASSUME Typed, Sound, Kept, NEW p \in Procs, GoesOn(p)
  PROVE  Kept'
<1>1. /\ Typed' /\ Others(p) /\ UNCHANGED <<row, made>> /\ Ids' = Ids
      /\ Listing(p) /\ job[p].how \in {"turn", "recovered", "terminal", "startup"}
  BY GoesOnEffect
<1>2. PICK n \in Later(p) :
        LET kind == Rounds[job[p].how][n] IN
        /\ n \in 1..5 /\ \A m \in Later(p) : n <= m
        /\ job'[p] = RoundJob(p, n, kind)
        /\ RoundJob(p, n, kind).todo = ListOf(kind) /\ RoundJob(p, n, kind).held = Rest.held
        /\ RoundJob(p, n, kind).how = job[p].how /\ RoundJob(p, n, kind).task = job[p].task
        /\ RoundJob(p, n, kind).bad = {}
        /\ RoundJob(p, n, kind).owed = job[p].owed \cup job[p].bad
        /\ RoundJob(p, n, kind).round = n
        /\ \A b \in Ids : /\ SameSort(b) /\ SameFate(b) /\ SameNews(b)
  BY GoesOnEffect, SMTT(30)
<1>3. /\ job'[p].todo = ListOf(Rounds[job[p].how][n]) /\ job'[p].held = Rest.held
      /\ job'[p].how = job[p].how /\ job'[p].task = job[p].task
      /\ job'[p].owed = job[p].owed \cup job[p].bad /\ job'[p].round = n
      /\ n \in 1..5 /\ \A m \in Later(p) : n <= m
      /\ \A b \in Ids : SameSort(b) /\ SameFate(b) /\ SameNews(b)
  BY <1>2
<1>4. \A b \in Ids : SameSort(b) /\ Stays(b) /\ Waits(b)
  BY <1>3, SameIsOnward DEF SameNews
<1>5. p # "chat"
  BY <1>1 DEF Sound, Role, MayDo, None
<1>6. HeldIn(job[p]) = {}
  BY <1>1, ListingIs, NothingHeld
<1>7. ASSUME p = "worker", job[p].task \in Tasks, NEW b \in made'[job[p].task] PROVE Cared(b)'
  <2>0. b \in Ids
    BY <1>1, <1>7, MadeAreIds
  <2>1. Cared(b) /\ SameSort(b) /\ SameFate(b) /\ Stays(b)
    BY <1>1, <1>3, <1>4, <1>7, <2>0, Bounds DEF Kept, Answered
  <2>2. CASE Settled(b)
    BY <2>1, <2>2 DEF Stays, Cared
  <2>3. CASE b \in job[p].bad \cup job[p].owed
    BY <1>3, <1>7, <2>3 DEF Cared
  <2>4. CASE ToCome(b)
    <3>1. Waiting(b) /\ job[p].how \in {"turn", "recovered"}
      BY <1>7, <2>4 DEF ToCome
    <3>2. PICK m \in DOMAIN Rounds[job[p].how] : m > job[p].round /\ Rounds[job[p].how][m] = arts[b].kind
      BY <1>7, <2>4 DEF ToCome
    <3>3. arts[b].kind # "reply"
      <4>1. arts[b].kind \in Kinds
        BY <2>0, IdsAre DEF Typed, ArtSet
      <4> QED
        BY <4>1 DEF Kinds
    <3>4. /\ b \in ToSet(Undelivered(arts[b].kind)) /\ Undelivered(arts[b].kind) # << >>
      BY <2>0, <3>1, UndeliveredLists DEF Typed
    <3>5. m \in Later(p)
      BY <3>2, <3>3, <3>4 DEF Later, HasWork
    <3>6. n <= m /\ n \in Nat /\ m \in Nat
      <4>1. m \in 1..5
        BY <3>1, <3>2, RoundsAre
      <4> QED
        BY <1>3, <3>5, <4>1
    <3>7. CASE m = n
      <4>1. job'[p].todo = Undelivered(arts[b].kind)
        BY <1>3, <3>2, <3>3, <3>7 DEF ListOf
      <4>2. b \in HeldIn(job'[p])
        BY <3>4, <4>1 DEF HeldIn
      <4> QED
        BY <1>7, <4>2 DEF Cared
    <3>8. CASE m # n
      <4>1. m > n
        BY <3>6, <3>8
      <4>2. Waiting(b)' /\ arts'[b].kind = arts[b].kind
        BY <2>1, <3>1 DEF Waiting, SameFate, SameSort
      <4>3. ToCome(b)'
        BY <1>3, <1>7, <3>1, <3>2, <4>1, <4>2 DEF ToCome
      <4> QED
        BY <4>3 DEF Cared
    <3> QED
      BY <3>7, <3>8
  <2> QED
    BY <1>6, <1>7, <2>1, <2>2, <2>3, <2>4, CaredThen
<1>8. \A t \in Tasks : \A b \in made[t] : Waits(b)
  BY <1>4, MadeAreIds
<1>9. ChatsOwn'
  BY <1>1, <1>4, <1>5, ChatsKeepOther
<1> HIDE DEF SameSort, Stays, Waits, Cared
<1>10. RowOfWork' /\ Answered' /\ Completed'
  BY <1>1, <1>3, <1>4, <1>7, <1>8, KeptMoves
<1> QED
  BY <1>9, <1>10 DEF Kept

LEMMA FinishesKeeps ==
  ASSUME Typed, Sound, Kept, NEW p \in Procs, Finishes(p)
  PROVE  Kept'
<1> DEFINE s == IF job[p].how = "turn" /\ job[p].owed \cup job[p].bad # {} THEN "failed" ELSE "completed"
<1>1. /\ Typed' /\ Others(p) /\ UNCHANGED made /\ Ids' = Ids
      /\ Listing(p) /\ job[p].how \in {"turn", "recovered", "terminal", "startup"} /\ Later(p) = {}
      /\ job'[p] = Ended(p)
      /\ Settle(job[p].task, s)
      /\ \A b \in Ids : /\ SameSort(b) /\ SameFate(b)
                        /\ arts[b].known => arts'[b].known
  BY FinishesEffect
<1>2. s \in {"completed", "failed"}
  OBVIOUS
<1>3. HeldIn(job[p]) = {}
  BY <1>1, ListingIs, NothingHeld
<1>4. ASSUME p = "worker", job[p].task \in Tasks, s = "completed", NEW b \in made[job[p].task] PROVE Settled(b)
  <2>0. b \in Ids
    BY <1>4, MadeAreIds
  <2>1. Cared(b)
    BY <1>4, Bounds DEF Kept, Answered
  <2>2. job[p].bad = {} /\ job[p].owed = {}
    <3>1. CASE job[p].how = "turn"
      BY <1>4, <3>1
    <3>2. CASE job[p].how # "turn"
      <4>1. job[p].how = "recovered"
        BY <1>1, <1>4, <3>2, Bounds DEF Sound, Role, Works
      <4> QED
        BY <1>1, <4>1, ListingIs DEF Sound, Quiet
    <3> QED
      BY <3>1, <3>2
  <2>3. ~ToCome(b)
    <3> SUFFICES ASSUME ToCome(b) PROVE FALSE
      OBVIOUS
    <3>1. Waiting(b) /\ job[p].how \in {"turn", "recovered"}
      BY <1>4 DEF ToCome
    <3>2. PICK m \in DOMAIN Rounds[job[p].how] : m > job[p].round /\ Rounds[job[p].how][m] = arts[b].kind
      BY <1>4 DEF ToCome
    <3>3. arts[b].kind # "reply"
      <4>1. arts[b].kind \in Kinds
        BY <2>0, IdsAre DEF Typed, ArtSet
      <4> QED
        BY <4>1 DEF Kinds
    <3>4. Undelivered(arts[b].kind) # << >>
      BY <2>0, <3>1, UndeliveredLists DEF Typed
    <3>5. m \in Later(p)
      BY <3>2, <3>3, <3>4 DEF Later, HasWork
    <3> QED
      BY <1>1, <3>5
  <2> QED
    BY <1>3, <1>4, <2>1, <2>2, <2>3, CaredThen
<1>5. ChatsOwn'
  <2>1. p # "chat"
    BY <1>1 DEF Sound, Role, MayDo, None
  <2> QED
    BY <1>1, <2>1, ChatsKeepOther
<1> HIDE DEF SameSort, SameFate, s
<1>6. RowOfWork' /\ Answered' /\ Completed'
  BY <1>1, <1>2, <1>4, KeptEnds
<1> QED
  BY <1>5, <1>6 DEF Kept

LEMMA RoundingKeeps ==
  ASSUME Typed, Sound, Kept, NEW p \in Procs, Rounding(p)
  PROVE  Kept'
<1>1. CASE BreaksOff(p)
  BY <1>1, BreaksOffEffect, FailedEnds DEF Kept
<1>2. CASE Speaks(p)
  <2>1. p = "worker" /\ job[p].task \in Tasks
    BY <1>2, TaskOf, ArtifactsAssumption DEF Speaks, At, Sound, Role
  <2>2. PICK a \in Nat : a = Len(arts) + 1
    BY IdsAre DEF Typed
  <2>3. a \notin Ids
    BY <2>2, IdsAre DEF Typed
  <2>4. /\ Typed' /\ Others(p) /\ UNCHANGED row /\ job[p].pc = "speak"
        /\ \A b \in Ids : arts'[b] = arts[b]
        /\ MadeFor(p, a)
        /\ job'[p] = SendJob(job[p], <<a>>)
    BY <1>2, <2>1, <2>2, SpeaksEffect
  <2> QED
    BY <2>1, <2>3, <2>4, MakingKeeps
<1>3. CASE SpeechFails(p)
  BY <1>3, SpeechFailsEffect, NothingKeeps
<1> QED
  BY <1>1, <1>2, <1>3, AnswerIsOutKeeps, GoesOnKeeps, FinishesKeeps DEF Rounding

\* What the worker has made for a message it answers with a picture is settled
\* when nothing is in hand and nothing failed.
LEMMA DirectIsSettled ==
  ASSUME Typed, Sound, Kept, job["worker"].how = "direct", Through("worker"), job["worker"].bad = {},
         job["worker"].task \in Tasks
  PROVE  \A a \in made[job["worker"].task] : Settled(a)
<1>1. HeldIn(job["worker"]) = {} /\ job["worker"].owed = {}
  BY Bounds, NothingHeld DEF Sound, Quiet, Through, At
<1>2. \A a : ~ToCome(a)
  BY DEF ToCome
<1>3. \A a \in made[job["worker"].task] : Cared(a)
  BY Bounds DEF Kept, Answered
<1> HIDE DEF ToCome
<1> QED
  BY <1>1, <1>2, <1>3, CaredThen

LEMMA EndedKeeps ==
  ASSUME Typed, Typed', Sound, Kept, NEW p \in Procs, Others(p), UNCHANGED made, job'[p] = Ended(p),
         job[p].how = "direct", Through(p),
         Settle(job[p].task, IF job[p].bad = {} THEN "completed" ELSE "failed"),
         \A b \in Ids : SameSort(b) /\ SameFate(b) /\ (arts[b].known => arts'[b].known)
  PROVE  Kept'
<1> DEFINE s == IF job[p].bad = {} THEN "completed" ELSE "failed"
<1>1. s \in {"completed", "failed"} /\ Settle(job[p].task, s)
  OBVIOUS
<1>2. p = "worker" /\ job[p].task \in Tasks /\ s = "completed" => \A a \in made[job[p].task] : Settled(a)
  BY DirectIsSettled
<1>3. ChatsOwn'
  <2>1. ToSet(job'[p].todo) = {}
    <3>1. Rest.todo = << >> /\ Startup.todo = << >>
      BY RestIsJob
    <3> QED
      BY <3>1, InSeq DEF Ended
  <2> QED
    BY <2>1, ChatsKeepOn
<1> HIDE DEF SameSort, SameFate, s
<1>4. RowOfWork' /\ Answered' /\ Completed'
  BY <1>1, <1>2, KeptEnds
<1> QED
  BY <1>3, <1>4 DEF Kept

LEMMA DirectlyKeeps ==
  ASSUME Typed, Sound, Kept, NEW p \in Procs, Directly(p)
  PROVE  Kept'
<1>1. CASE Generates(p)
  <2>2. PICK a \in Nat : a = Len(arts) + 1
    BY IdsAre DEF Typed
  <2>3. a \notin Ids
    BY <2>2, IdsAre DEF Typed
  <2>4. /\ Typed' /\ Others(p) /\ UNCHANGED row /\ job[p].pc = "generate"
        /\ arts'[a].source = "telegram"
        /\ \A b \in Ids : arts'[b] = arts[b]
        /\ MadeFor(p, a)
        /\ job'[p] = SendJob(job[p], <<a>>)
    BY <1>1, <2>2, GeneratesEffect
  <2> QED
    BY <2>3, <2>4, MakingKeeps
<1>2. CASE GenerationFails(p)
  BY <1>2, GenerationFailsEffect, NothingKeeps
<1>3. CASE SaysGenerated(p)
  <2>1. /\ Typed' /\ Others(p) /\ UNCHANGED made /\ Ids' = Ids
        /\ Through(p) /\ job[p].how = "direct" /\ job[p].round = 0
        /\ \A b \in Ids : SameSort(b) /\ SameFate(b) /\ (arts[b].known => arts'[b].known)
    BY <1>3, SaysGeneratedEffect
  <2>2. CASE /\ job[p].bad = {} /\ job[p].task \in Speak
             /\ job'[p] = SpeakJob(p) /\ row' = row
    <3>1. p = "worker" /\ job[p].task \in Tasks
      BY <2>2, TaskOf, ArtifactsAssumption DEF Sound, Role
    <3>2. job[p] \in JobSet(Len(arts))
      BY JobIs
    <3>3. job'[p].how = job[p].how /\ job'[p].task = job[p].task
      BY <2>2, <3>2 DEF SpeakJob, JobSet
    <3>4. \A b \in Ids : Stays(b) /\ Waits(b)
      BY <2>1, SameIsOnward
    <3>5. ASSUME NEW b \in made'[job[p].task] PROVE Cared(b)'
      <4>1. Settled(b)
        BY <2>1, <2>2, <3>1, DirectIsSettled
      <4>2. b \in Ids
        BY <2>1, <3>1, MadeAreIds
      <4> QED
        BY <3>4, <4>1, <4>2 DEF Stays, Cared
    <3>6. ChatsOwn'
      BY <2>1, <3>1, ChatsKeepOther
    <3> HIDE DEF SameSort, Stays, Waits, Cared
    <3>7. RowOfWork' /\ Answered' /\ Completed'
      BY <2>1, <2>2, <3>1, <3>3, <3>4, <3>5, KeptMoves
    <3> QED
      BY <3>6, <3>7 DEF Kept
  <2>3. CASE /\ job'[p] = Ended(p)
             /\ Settle(job[p].task, IF job[p].bad = {} THEN "completed" ELSE "failed")
    <3> HIDE DEF SameSort, SameFate
    <3> QED
      BY <2>1, <2>3, EndedKeeps
  <2> QED
    BY <1>3, <2>2, <2>3, SaysGeneratedEffect
<1>4. CASE SayingFails(p)
  BY <1>4, SayingFailsEffect, FailedEnds DEF Kept
<1>5. CASE ReplyEnds(p)
  <2>1. /\ Typed' /\ Others(p) /\ UNCHANGED <<arts, made>> /\ job'[p] = Ended(p)
        /\ Through(p) /\ job[p].how = "direct"
        /\ Settle(job[p].task, IF job[p].bad = {} THEN "completed" ELSE "failed")
    BY <1>5, ReplyEndsEffect
  <2>2. \A b \in Ids : SameSort(b) /\ SameFate(b) /\ (arts[b].known => arts'[b].known)
    BY <2>1 DEF SameSort, SameFate
  <2> HIDE DEF SameSort, SameFate
  <2> QED
    BY <2>1, <2>2, EndedKeeps
<1>6. CASE SendEnds(p)
  <2>1. /\ Typed' /\ Others(p) /\ UNCHANGED <<arts, made, row>> /\ job'[p] = Ended(p)
        /\ job[p].how = "send"
    BY <1>6, SendEndsEffect DEF SendEnds
  <2>2. p # "worker" /\ job[p].task = 0
    BY <2>1 DEF Sound, Role, MayDo, None
  <2>3. Settle(job[p].task, "failed")
    BY <2>1, <2>2 DEF Settle
  <2> QED
    BY <2>1, <2>3, FailedEnds DEF Kept
<1> QED
  BY <1>1, <1>2, <1>3, <1>4, <1>5, <1>6 DEF Directly

\* A message is taken, and nothing is made for it yet.
LEMMA TakingKeeps ==
  ASSUME Typed, Typed', Kept, NEW t \in Tasks, Others("worker"), UNCHANGED arts,
         made'[t] = {}, \A u \in Tasks : u # t => made'[u] = made[u],
         \A u \in Tasks : u # t => row'[u] = row[u],
         NEW h, NEW c, NEW W, job'["worker"] = NewJob(h, c, t, W),
         NewJob(h, c, t, W).how = h, NewJob(h, c, t, W).task = t,
         row'[t] = IF h = "direct" THEN "pending" ELSE "processing"
  PROVE  Kept'
<1>1. RowOfWork'
  BY DEF RowOfWork
<1>2. Answered'
  BY DEF Answered
<1>3. Completed'
  BY DEF Kept, Completed, Settled
<1>4. ChatsOwn'
  <2>1. "chat" \in Procs => ToSet(job'["chat"].todo) \subseteq ToSet(job["chat"].todo)
    BY DEF Others
  <2>2. \A u \in Tasks : \A a \in made'[u] : a \in made[u]
    OBVIOUS
  <2> QED
    BY <2>1, <2>2, ChatsKeep
<1> QED
  BY <1>1, <1>2, <1>3, <1>4 DEF Kept

LEMMA TakesKeep ==
  ASSUME Typed, Sound, Kept, NEW t \in Tasks, Takes(t)
  PROVE  Kept'
<1>0. "worker" \in Procs
  BY Bounds
<1>1. CASE Answers(t)
  <2>1. /\ Typed' /\ Others("worker") /\ UNCHANGED <<arts, row, made>>
    BY <1>1, AnswersEffect
  <2>2. PICK W \in SUBSET Request : job'["worker"] = [job["worker"] EXCEPT !.pc = "stage", !.want = W]
    BY <1>1, AnswersEffect
  <2>3. job["worker"] \in JobSet(Len(arts))
    BY <1>0, JobIs
  <2>4. LET j == job'["worker"]
            k == job["worker"] IN
        /\ j.todo = k.todo /\ j.held = k.held
        /\ j.how = k.how /\ j.task = k.task /\ j.round = k.round
        /\ j.bad = k.bad /\ j.owed = k.owed
    BY <2>2, <2>3 DEF JobSet
  <2> QED
    BY <1>0, <2>1, <2>4, SettingKeeps
<1>2. CASE TurnBegins(t)
  <2>1. /\ Typed' /\ Others("worker") /\ UNCHANGED arts
        /\ Settle(t, "processing")
        /\ made'[t] = {} /\ \A u \in Tasks : u # t => made'[u] = made[u]
        /\ job'["worker"] = NewJob("turn", "turn", t, {})
    BY <1>2, TurnBeginsEffect
  <2>2. row'[t] = "processing" /\ \A u \in Tasks : u # t => row'[u] = row[u]
    BY <2>1, SettleTypes, Bounds
  <2>3. NewJob("turn", "turn", t, {}).how = "turn" /\ NewJob("turn", "turn", t, {}).task = t
    BY NewJobIs DEF Modes, Stands
  <2> QED
    BY <2>1, <2>2, <2>3, TakingKeeps
<1>3. CASE PictureBegins(t)
  <2>1. /\ Typed' /\ Others("worker") /\ UNCHANGED <<arts, row>>
        /\ row[t] = "pending"
        /\ made'[t] = {} /\ \A u \in Tasks : u # t => made'[u] = made[u]
        /\ job'["worker"] = NewJob("direct", "generate", t, {})
    BY <1>3, PictureBeginsEffect DEF NextUp
  <2>3. NewJob("direct", "generate", t, {}).how = "direct" /\ NewJob("direct", "generate", t, {}).task = t
    BY NewJobIs DEF Modes, Stands
  <2> QED
    BY <2>1, <2>3, TakingKeeps
<1>4. CASE Recovers(t)
  <2>1. /\ Typed' /\ Others("worker") /\ UNCHANGED <<arts, row>>
        /\ row[t] = "processing"
        /\ made'[t] = {} /\ \A u \in Tasks : u # t => made'[u] = made[u]
    BY <1>4, RecoversEffect
  <2>2. PICK W \in SUBSET Request : job'["worker"] = NewJob("recovered", "stage", t, W)
    BY <1>4, RecoversEffect
  <2>3. NewJob("recovered", "stage", t, W).how = "recovered" /\ NewJob("recovered", "stage", t, W).task = t
    BY NewJobIs DEF Modes, Stands
  <2> QED
    BY <2>1, <2>2, <2>3, TakingKeeps
<1>5. CASE Abandons(t)
  <2>1. /\ Typed' /\ Others("worker") /\ UNCHANGED <<arts, made>>
        /\ row[t] = "processing" /\ job["worker"].pc = "boot"
        /\ job'["worker"] = Startup
    BY <1>5, AbandonsEffect
  <2>2. PICK s \in {"failed", "pending"} : Settle(t, s)
    BY <1>5, AbandonsEffect
  <2>3. row'[t] = s /\ \A u \in Tasks : u # t => row'[u] = row[u]
    BY <2>2, SettleTypes, Bounds
  <2>4. \A b \in Ids : SameSort(b) /\ Stays(b)
    BY <2>1 DEF SameSort, Stays, Settled
  <2>5. job'["worker"].task = 0
    BY <2>1, RestIsJob
  <2>6. RowOfWork' /\ Answered' /\ Completed'
    <3>1. ASSUME NEW u \in Tasks, row'[u] = "completed", NEW a \in made'[u]
          PROVE  row[u] = "completed" /\ a \in made[u] /\ Stays(a)
      BY <2>1, <2>3, <2>4, <3>1, MadeAreIds
    <3> QED
      BY <2>5, <3>1, WorkerLeaves
  <2>7. ChatsOwn'
    BY <1>0, <2>1, <2>4, ChatsKeepOther
  <2> QED
    BY <2>6, <2>7 DEF Kept
<1> QED
  BY <1>1, <1>2, <1>3, <1>4, <1>5 DEF Takes

\* A step of the others that changes nothing of the store.
LEMMA OtherJobKeeps ==
  ASSUME Typed, Typed', Sound, Kept, NEW p \in Procs, p # "worker", Others(p), UNCHANGED <<arts, row, made>>,
         job'[p].todo = << >> \/ job'[p].todo = job[p].todo
  PROVE  Kept'
<1>1. \A a \in Ids : SameSort(a) /\ Stays(a) /\ Waits(a)
  BY DEF SameSort, Stays, Waits, Settled, Waiting
<1>2. \A t \in Tasks : \A a \in made[t] : Waits(a)
  BY <1>1, MadeAreIds
<1>3. ChatsOwn'
  <2>1. ToSet(job'[p].todo) \subseteq ToSet(job[p].todo)
    BY InSeq
  <2> QED
    BY <1>1, <2>1, ChatsKeepOn
<1> HIDE DEF SameSort, Stays, Waits, Cared
<1>4. RowOfWork' /\ Answered' /\ Completed'
  BY <1>1, <1>2, KeptMoves
<1> QED
  BY <1>3, <1>4 DEF Kept

LEMMA CommandsKeep ==
  ASSUME Typed, Sound, Kept,
         \/ TerminalBegins \/ TerminalAnswers \/ ImageCommand
         \/ \E path \in Paths : SendCommand(path)
  PROVE  Kept'
<1>0. \A h \in Modes, c \in Stands, W \in SUBSET Request : NewJob(h, c, 0, W).todo = << >>
  <2> SUFFICES ASSUME NEW h \in Modes, NEW c \in Stands, NEW W \in SUBSET Request
               PROVE  NewJob(h, c, 0, W).todo = << >>
    OBVIOUS
  <2>1. 0 \in Nat /\ 0 \in Tasks \cup {0}
    OBVIOUS
  <2> QED
    BY <2>1, NewJobIs
<1>1. CASE TerminalBegins
  <2>1. Typed' /\ "terminal" \in Procs /\ Others("terminal") /\ UNCHANGED <<arts, row, made>>
        /\ job'["terminal"] = NewJob("terminal", "turn", 0, {})
    BY <1>1, TerminalBeginsEffect
  <2>2. job'["terminal"].todo = << >>
    BY <1>0, <2>1 DEF Modes, Stands
  <2> QED
    BY <2>1, <2>2, OtherJobKeeps
<1>2. CASE ImageCommand
  <2>1. Typed' /\ "chat" \in Procs /\ Others("chat") /\ UNCHANGED <<arts, row, made>>
        /\ job'["chat"] = NewJob("direct", "generate", 0, {})
    BY <1>2, ImageCommandEffect
  <2>2. job'["chat"].todo = << >>
    BY <1>0, <2>1 DEF Modes, Stands
  <2> QED
    BY <2>1, <2>2, OtherJobKeeps
<1>3. ASSUME NEW path \in Paths, SendCommand(path) PROVE Kept'
  <2>1. Typed' /\ "ctl" \in Procs /\ Others("ctl") /\ UNCHANGED <<arts, row, made>>
    BY <1>3, SendCommandEffect
  <2>2. PICK W \in SUBSET Request : job'["ctl"] = NewJob("send", "stage", 0, W)
    BY <1>3, SendCommandEffect
  <2>3. job'["ctl"].todo = << >>
    BY <1>0, <2>2 DEF Modes, Stands
  <2> QED
    BY <2>1, <2>3, OtherJobKeeps
<1>4. CASE TerminalAnswers
  <2> DEFINE p == "terminal"
  <2>1. Typed' /\ p \in Procs /\ Others(p) /\ UNCHANGED <<arts, row, made>>
    BY <1>4, TerminalAnswersEffect
  <2>2. PICK F \in SUBSET Paths : job'[p] = [job[p] EXCEPT !.pc = "text", !.named = F]
    BY <1>4, TerminalAnswersEffect
  <2>3. job[p] \in JobSet(Len(arts))
    BY <2>1, JobIs
  <2>4. job'[p].todo = job[p].todo
    BY <2>2, <2>3 DEF JobSet
  <2> QED
    BY <2>1, <2>4, OtherJobKeeps
<1> QED
  BY <1>1, <1>2, <1>3, <1>4

LEMMA BesideKeeps ==
  ASSUME Typed, Sound, Kept,
         \/ Crash
         \/ \E path \in Paths : Writes(path)
         \/ \E kind \in ToolKinds : ToolMakes(kind)
  PROVE  Kept'
<1>0. "worker" \in Procs
  BY Bounds
<1>1. CASE Crash
  <2>1. /\ Typed' /\ Ids' = Ids /\ UNCHANGED <<row, made>>
        /\ \A p \in Procs : \/ p = "ctl" /\ job'[p] = job[p]
                            \/ p # "ctl" /\ p # "worker" /\ job'[p] = Rest
                            \/ p = "worker" /\ (job'[p] = Startup \/ job'[p] = [Startup EXCEPT !.pc = "boot"])
        /\ \A b \in Ids : SameSort(b) /\ SameFate(b) /\ SameNews(b)
    BY <1>1, CrashEffect
  <2>2. Rest.todo = << >> /\ Startup.task = 0 /\ Startup \in JobSet(0)
    BY RestIsJob
  <2>3. [Startup EXCEPT !.pc = "boot"].task = 0
    BY <2>2 DEF JobSet
  <2>4. job'["worker"].task = 0
    BY <1>0, <2>1, <2>2, <2>3
  <2>5. \A b \in Ids : Stays(b)
    BY <2>1, SameIsOnward DEF SameNews
  <2>6. RowOfWork' /\ Answered' /\ Completed'
    <3>1. ASSUME NEW u \in Tasks, row'[u] = "completed", NEW a \in made'[u]
          PROVE  row[u] = "completed" /\ a \in made[u] /\ Stays(a)
      BY <2>1, <2>5, <3>1, MadeAreIds
    <3> QED
      BY <2>4, <3>1, WorkerLeaves
  <2>7. ChatsOwn'
    <3>1. "chat" \in Procs => job'["chat"].todo = << >>
      BY <2>1, <2>2
    <3> QED
      BY <3>1, InSeq DEF ChatsOwn
  <2> QED
    BY <2>6, <2>7 DEF Kept
<1>2. ASSUME NEW path \in Paths, Writes(path) PROVE Kept'
  <2>1. Typed' /\ UNCHANGED <<arts, row, made>> /\ \A p \in Procs : job'[p] = [job[p] EXCEPT !.since = job'[p].since]
    BY <1>2, WritesEffect
  <2>2. \A a \in Ids : SameSort(a) /\ Stays(a) /\ Waits(a)
    BY <2>1 DEF SameSort, Stays, Waits, Settled, Waiting
  <2>3. \A t \in Tasks : \A a \in made[t] : SameSort(a) /\ Stays(a) /\ Waits(a)
    BY <2>2, MadeAreIds
  <2>4. RowOfWork' /\ Answered' /\ Completed'
    <3> HIDE DEF SameSort, Stays, Waits
    <3> QED
      BY <1>0, <2>1, <2>3, BesideTheWorker
  <2>5. ChatsOwn'
    <3>1. ASSUME "chat" \in Procs PROVE job'["chat"].todo = job["chat"].todo
      <4> DEFINE s == job'["chat"].since
      <4>1. job'["chat"] = [job["chat"] EXCEPT !.since = s] /\ job["chat"] \in JobSet(Len(arts))
        BY <2>1, <3>1, JobIs
      <4> HIDE DEF s
      <4> QED
        BY <4>1 DEF JobSet
    <3> QED
      BY <2>1, <3>1 DEF Kept, ChatsOwn
  <2> QED
    BY <2>4, <2>5 DEF Kept
<1>3. ASSUME NEW kind \in ToolKinds, ToolMakes(kind) PROVE Kept'
  <2>1. Typed' /\ UNCHANGED <<job, row, made>> /\ \A b \in Ids : arts'[b] = arts[b]
    BY <1>3, ToolMakesEffect
  <2>2. \A a \in Ids : SameSort(a) /\ Stays(a) /\ Waits(a)
    BY <2>1 DEF SameSort, Stays, Waits, Settled, Waiting
  <2>3. Others("worker") /\ job'["worker"] = job["worker"]
    BY <2>1 DEF Others
  <2> QED
    BY <1>0, <2>1, <2>2, <2>3, HoldingKeeps
<1> QED
  BY <1>1, <1>2, <1>3

LEMMA InitIsKept ==
  ASSUME Init
  PROVE  Kept
<1>1. Rest.todo = << >> /\ Rest.task = 0
  BY RestIsJob
<1>2. \A p \in Procs : job[p].todo = << >> /\ job[p].task = 0
  BY <1>1 DEF Init
<1>3. "worker" \in Procs
  BY Bounds
<1>4. Completed
  BY DEF Init, Completed
<1> QED
  BY <1>2, <1>3, <1>4, InSeq DEF Kept, RowOfWork, Answered, ChatsOwn

LEMMA NextKeeps ==
  ASSUME Typed, Sound, Kept, [Next]_vars
  PROVE  Kept'
<1>0. Sound'
  BY NextKeepsSound
<1>1. CASE Next
  <2>1. ASSUME NEW p \in Procs, Step(p) PROVE Kept'
    BY <1>0, <2>1, StagesKeep, DeliversKeep, RoundingKeeps, DirectlyKeeps DEF Step
  <2>2. ASSUME NEW t \in Tasks, Takes(t) PROVE Kept'
    BY <2>2, TakesKeep
  <2> QED
    BY <1>1, <2>1, <2>2, CommandsKeep, BesideKeeps DEF Next
<1>2. CASE UNCHANGED vars
  <2>1. UNCHANGED <<arts, row, made, job>>
    BY <1>2 DEF vars
  <2> QED
    BY <2>1 DEF Kept, RowOfWork, Answered, Completed, ChatsOwn, Cared, Settled, ToCome, Waiting, HeldIn
<1> QED
  BY <1>1, <1>2

\* Whoever else sends, takes or gives up what an answer made, a message is
\* completed only when all of it is in the chat, or its failure is known
\* (CompletedIsDelivered).
THEOREM CompletedAnswersAreOut == Spec => []CompletedIsDelivered
<1>1. Init => Typed /\ Sound /\ Kept
  BY InitIsSound, InitIsKept
<1>2. Typed /\ Sound /\ Kept /\ [Next]_vars => (Typed /\ Sound /\ Kept)'
  BY NextKeepsSound, NextKeeps
<1>3. Kept => CompletedIsDelivered
  BY DEF Kept, Completed, Settled, CompletedIsDelivered
<1> QED
  BY <1>1, <1>2, <1>3, PTL DEF Spec

----------------------------------------------------------------------------
(* Files that come twice.                                                  *)

\* An artifact stands once in what a job lists and holds.
Once(j, a) ==
  /\ \A i, k \in DOMAIN j.todo : j.todo[i] = a /\ j.todo[k] = a => i = k
  /\ \A b, c \in Branches : \A i \in DOMAIN j.held[b] : \A k \in DOMAIN j.held[c] :
       j.held[b][i] = a /\ j.held[c][k] = a => b = c /\ i = k

Alone(a)   == \A p, q \in Procs : a \in HeldIn(job[p]) /\ a \in HeldIn(job[q]) => p = q
Marking(a) == \E q \in Procs : job[q].pc = "mark" /\ Head(job[q].todo) = a
\* An artifact for which nothing excuses a second copy is in one hand at most,
\* has come once at most, and is marked, or about to be, once it has come.
Clean(a) == ~arts[a].shared =>
  /\ Alone(a) /\ \A p \in Procs : Once(job[p], a)
  /\ arts[a].got <= 1
  /\ arts[a].delivered => \A p \in Procs : a \notin HeldIn(job[p])
  /\ arts[a].got = 1 => arts[a].delivered \/ Marking(a)
Clear == \A a \in Ids : Clean(a)

LEMMA HeldAreIds ==
  ASSUME Typed, NEW p \in Procs
  PROVE  HeldIn(job[p]) \subseteq Ids
<1>1. ToSet(job[p].todo) \subseteq Ids
  <2>1. job[p].todo \in Seq(1..Len(arts))
    BY HandsAreIds
  <2> QED
    BY <2>1, IdsAre DEF ToSet, Typed
<1>2. ASSUME NEW b \in Branches PROVE ToSet(job[p].held[b]) \subseteq Ids
  <2>1. job[p].held[b] \in Seq(1..Len(arts))
    BY HandsAreIds
  <2> QED
    BY <2>1, IdsAre DEF ToSet, Typed
<1> QED
  BY <1>1, <1>2 DEF HeldIn

LEMMA InHandIs ==
  \A a : a \in InHand <=> \E p \in Procs : a \in HeldIn(job[p])
BY HeldByIs DEF InHand

\* A step that does not touch what is known of the arrival of an artifact, unless
\* it excuses a second one.
Calm(a) == \/ arts'[a].shared
           \/ ~arts[a].shared /\ arts'[a].got = arts[a].got /\ arts'[a].delivered = arts[a].delivered

LEMMA SameIsCalm ==
  ASSUME NEW a, SameFate(a), arts[a].shared => arts'[a].shared
  PROVE  Calm(a)
BY DEF SameFate, Calm

\* An artifact keeps its one place, or gets its first.
LEMMA CleanStays ==
  ASSUME Typed, Typed', Clear, NEW p \in Procs, Others(p), NEW a \in Ids, Calm(a),
         a \in HeldIn(job'[p]) => \/ a \in HeldIn(job[p])
                                  \/ arts'[a].shared
                                  \/ ~arts[a].delivered /\ a \notin InHand,
         Once(job[p], a) => arts'[a].shared \/ Once(job'[p], a),
         job[p].pc = "mark" /\ Head(job[p].todo) = a => job'[p].pc = "mark" /\ Head(job'[p].todo) = a
  PROVE  Clean(a)'
<1> SUFFICES ASSUME ~arts'[a].shared PROVE Clean(a)'
  BY DEF Clean
<1>1. /\ Alone(a) /\ \A q \in Procs : Once(job[q], a)
      /\ arts[a].got <= 1
      /\ arts[a].delivered => \A q \in Procs : a \notin HeldIn(job[q])
      /\ arts[a].got = 1 => arts[a].delivered \/ Marking(a)
      /\ arts'[a].got = arts[a].got /\ arts'[a].delivered = arts[a].delivered
  BY DEF Clear, Clean, Calm
<1>2. \A q \in Procs : q # p => job'[q] = job[q]
  BY DEF Others
<1>3. a \in HeldIn(job'[p]) => \/ a \in HeldIn(job[p])
                               \/ ~arts[a].delivered /\ \A q \in Procs : a \notin HeldIn(job[q])
  BY InHandIs
<1> HIDE DEF HeldIn, Once
<1>4. Alone(a)'
  BY <1>1, <1>2, <1>3 DEF Alone
<1>5. \A q \in Procs : Once(job'[q], a)
  BY <1>1, <1>2
<1>6. arts'[a].delivered => \A q \in Procs : a \notin HeldIn(job'[q])
  BY <1>1, <1>2, <1>3
<1>7. Marking(a) => Marking(a)'
  <2> SUFFICES ASSUME NEW q \in Procs, job[q].pc = "mark", Head(job[q].todo) = a PROVE Marking(a)'
    BY DEF Marking
  <2>1. job'[q].pc = "mark" /\ Head(job'[q].todo) = a
    BY <1>2
  <2> QED
    BY <2>1 DEF Marking
<1> QED
  BY <1>1, <1>4, <1>5, <1>6, <1>7 DEF Clean

\* A new artifact has not come, and is in one place at most.
LEMMA CleanNew ==
  ASSUME Typed, NEW p \in Procs, Others(p), NEW a, a \notin Ids,
         arts'[a].got = 0, ~arts'[a].delivered, Once(job'[p], a), \A q \in Procs : Once(job[q], a)
  PROVE  Clean(a)'
<1>1. \A q \in Procs : a \notin HeldIn(job[q])
  BY HeldAreIds
<1>2. \A q \in Procs : q # p => job'[q] = job[q]
  BY DEF Others
<1> HIDE DEF HeldIn, Once
<1>3. Alone(a)'
  BY <1>1, <1>2 DEF Alone
<1>4. \A q \in Procs : Once(job'[q], a)
  BY <1>2
<1> QED
  BY <1>3, <1>4 DEF Clean

LEMMA OnceIfNotHeld ==
  ASSUME NEW j, NEW a, a \notin HeldIn(j)
  PROVE  Once(j, a)
<1>1. \A i \in DOMAIN j.todo : j.todo[i] # a
  BY DEF HeldIn, ToSet
<1>2. ASSUME NEW b \in Branches, NEW i \in DOMAIN j.held[b] PROVE j.held[b][i] # a
  <2>1. j.held[b][i] \in ToSet(j.held[b])
    BY DEF ToSet
  <2> QED
    BY <2>1 DEF HeldIn
<1> QED
  BY <1>1, <1>2 DEF Once

LEMMA OnceAsBefore ==
  ASSUME NEW j, NEW k, NEW a, k.todo = j.todo, k.held = j.held
  PROVE  /\ Once(j, a) <=> Once(k, a)
         /\ HeldIn(j) = HeldIn(k)
BY DEF Once, HeldIn

\* A list without doubles, and nothing beside it.
LEMMA OnceInList ==
  ASSUME NEW j, NEW a, j.held = Rest.held,
         \A i, k \in DOMAIN j.todo : j.todo[i] = a /\ j.todo[k] = a => i = k
  PROVE  Once(j, a)
<1>1. \A b \in Branches : j.held[b] = << >>
  BY RestIsJob
<1>2. \A b \in Branches : DOMAIN j.held[b] = {}
  BY <1>1
<1> QED
  BY <1>2 DEF Once

LEMMA OnceInTail ==
  ASSUME Typed, NEW p \in Procs, job[p].todo # << >>, NEW a, Once(job[p], a),
         NEW j, j.todo = Tail(job[p].todo), j.held = job[p].held
  PROVE  Once(j, a)
<1>1. \A i \in DOMAIN j.todo : i + 1 \in DOMAIN job[p].todo /\ i \in Nat /\ j.todo[i] = job[p].todo[i + 1]
  BY HeadAndTail
<1>2. ASSUME NEW i \in DOMAIN j.todo, NEW k \in DOMAIN j.todo, j.todo[i] = a, j.todo[k] = a PROVE i = k
  <2>1. i + 1 = k + 1 /\ i \in Nat /\ k \in Nat
    BY <1>1, <1>2 DEF Once
  <2> QED
    BY <2>1
<1> QED
  BY <1>2 DEF Once

LEMMA OnceInARow ==
  ASSUME Typed, NEW p \in Procs, NEW a, Once(job[p], a)
  PROVE  Once(SendJob(job[p], InHands(p)), a)
<1> DEFINE s == InHands(p)
<1> DEFINE h == job[p].held
<1> DEFINE before(b) == (IF b = 1 THEN 0 ELSE Len(h[1])) + (IF b = 3 THEN Len(h[2]) ELSE 0)
<1>1. \A i \in DOMAIN s : \E b \in Branches : \E k \in DOMAIN h[b] :
        s[i] = h[b][k] /\ i = k + (IF b = 1 THEN 0 ELSE Len(h[1])) + (IF b = 3 THEN Len(h[2]) ELSE 0)
  BY HandsInARow
<1>2. ASSUME NEW i \in DOMAIN s, NEW k \in DOMAIN s, s[i] = a, s[k] = a PROVE i = k
  <2>1. \E b \in Branches : \E n \in DOMAIN h[b] :
          s[i] = h[b][n] /\ i = n + (IF b = 1 THEN 0 ELSE Len(h[1])) + (IF b = 3 THEN Len(h[2]) ELSE 0)
    BY <1>1
  <2>2. \E b \in Branches : \E n \in DOMAIN h[b] :
          s[k] = h[b][n] /\ k = n + (IF b = 1 THEN 0 ELSE Len(h[1])) + (IF b = 3 THEN Len(h[2]) ELSE 0)
    BY <1>1
  <2>3. PICK b \in Branches : \E n \in DOMAIN h[b] :
          s[i] = h[b][n] /\ i = n + (IF b = 1 THEN 0 ELSE Len(h[1])) + (IF b = 3 THEN Len(h[2]) ELSE 0)
    BY <2>1
  <2>4. PICK n \in DOMAIN h[b] :
          s[i] = h[b][n] /\ i = n + (IF b = 1 THEN 0 ELSE Len(h[1])) + (IF b = 3 THEN Len(h[2]) ELSE 0)
    BY <2>3
  <2>5. PICK c \in Branches : \E m \in DOMAIN h[c] :
          s[k] = h[c][m] /\ k = m + (IF c = 1 THEN 0 ELSE Len(h[1])) + (IF c = 3 THEN Len(h[2]) ELSE 0)
    BY <2>2
  <2>6. PICK m \in DOMAIN h[c] :
          s[k] = h[c][m] /\ k = m + (IF c = 1 THEN 0 ELSE Len(h[1])) + (IF c = 3 THEN Len(h[2]) ELSE 0)
    BY <2>5
  <2>7. h[b][n] = a /\ h[c][m] = a
    BY <1>2, <2>4, <2>6
  <2> HIDE DEF s
  <2>8. b = c /\ n = m
    BY <2>7 DEF Once
  <2> QED
    BY <2>4, <2>6, <2>8
<1>3. SendJob(job[p], s).todo = s /\ SendJob(job[p], s).held = Rest.held
  BY SendJobHolds
<1> DEFINE j == SendJob(job[p], s)
<1>4. j.todo = s /\ j.held = Rest.held
  BY <1>3
<1> HIDE DEF j, s
<1>5. Once(j, a)
  BY <1>2, <1>4, OnceInList
<1> QED
  BY <1>5 DEF j, s

LEMMA OnceWhenStaged ==
  ASSUME Typed, NEW p \in Procs, NEW r \in Request, NEW a \in Nat, NEW b, Once(job[p], b),
         \/ b # a
         \/ b \notin HeldIn(job[p])
         \/ job[p].pc = "files"
  PROVE  Once(StagedJob(p, r, a), b)
<1> DEFINE j == StagedJob(p, r, a)
<1>1. j.todo = job[p].todo /\ j.held = StagedHeld(p, r, a)
  BY StagedHolds
<1> HIDE DEF j
<1>2. job[p].held \in [Branches -> Seq(1..Len(arts))] /\ r.branch \in Branches
  <2>1. job[p] \in JobSet(Len(arts))
    BY JobIs
  <2> QED
    BY <2>1 DEF JobSet, Request
<1>3. CASE job[p].pc = "files"
  <2>1. j.held = job[p].held
    BY <1>1, <1>3 DEF StagedHeld
  <2>2. Once(j, b)
    BY <1>1, <2>1, OnceAsBefore
  <2> QED
    BY <2>2 DEF j
<1>4. CASE job[p].pc # "files"
  <2> DEFINE B == job[p].held[r.branch]
  <2>1. j.held[r.branch] = Append(B, a) /\ \A c \in Branches : c # r.branch => j.held[c] = job[p].held[c]
    BY <1>1, <1>2, <1>4 DEF StagedHeld
  <2>2. /\ Len(B) \in Nat /\ DOMAIN B = 1..Len(B) /\ DOMAIN Append(B, a) = 1..(Len(B) + 1)
        /\ Append(B, a)[Len(B) + 1] = a /\ \A i \in 1..Len(B) : Append(B, a)[i] = B[i]
    <3>1. B \in Seq(1..Len(arts))
      BY <1>2
    <3> HIDE DEF B
    <3>2. B \in Seq(Nat)
      BY <3>1, SeqMonotonic
    <3>3. Append(B, a) \in Seq(Nat) /\ Len(Append(B, a)) = Len(B) + 1
          /\ Append(B, a)[Len(B) + 1] = a /\ \A i \in 1..Len(B) : Append(B, a)[i] = B[i]
      BY <3>2, AppendProperties
    <3> QED
      BY <3>2, <3>3, LenProperties
  <2>3. \A c \in Branches : \A i \in DOMAIN j.held[c] :
          \/ i \in DOMAIN job[p].held[c] /\ j.held[c][i] = job[p].held[c][i]
          \/ c = r.branch /\ i = Len(B) + 1 /\ j.held[c][i] = a
    <3> SUFFICES ASSUME NEW c \in Branches, NEW i \in DOMAIN j.held[c]
                 PROVE  \/ i \in DOMAIN job[p].held[c] /\ j.held[c][i] = job[p].held[c][i]
                        \/ c = r.branch /\ i = Len(B) + 1 /\ j.held[c][i] = a
      OBVIOUS
    <3>1. CASE c # r.branch
      BY <2>1, <3>1
    <3>2. CASE c = r.branch
      <4>1. i \in 1..(Len(B) + 1) /\ j.held[c] = Append(B, a) /\ job[p].held[c] = B
        BY <2>1, <2>2, <3>2
      <4> HIDE DEF B
      <4>2. CASE i = Len(B) + 1
        BY <2>2, <3>2, <4>1, <4>2
      <4>3. CASE i # Len(B) + 1
        <5>1. i \in 1..Len(B)
          BY <2>2, <4>1, <4>3
        <5> QED
          BY <2>2, <4>1, <5>1
      <4> QED
        BY <4>2, <4>3
    <3> QED
      BY <3>1, <3>2
  <2> HIDE DEF B
  <2>4. b = a => b \notin HeldIn(job[p])
    BY <1>4
  <2>5. b = a => \A c \in Branches : \A i \in DOMAIN job[p].held[c] : job[p].held[c][i] # b
    <3> SUFFICES ASSUME b = a, NEW c \in Branches, NEW i \in DOMAIN job[p].held[c] PROVE job[p].held[c][i] # b
      OBVIOUS
    <3>1. job[p].held[c][i] \in ToSet(job[p].held[c])
      BY DEF ToSet
    <3> QED
      BY <2>4, <3>1 DEF HeldIn
  <2>6. ASSUME NEW c \in Branches, NEW d \in Branches, NEW i \in DOMAIN j.held[c], NEW k \in DOMAIN j.held[d],
               j.held[c][i] = b, j.held[d][k] = b
        PROVE  c = d /\ i = k
    <3>1. CASE b = a
      <4>1. c = r.branch /\ i = Len(B) + 1 /\ d = r.branch /\ k = Len(B) + 1
        BY <2>3, <2>5, <2>6, <3>1
      <4> QED
        BY <4>1
    <3>2. CASE b # a
      <4>1. /\ i \in DOMAIN job[p].held[c] /\ job[p].held[c][i] = b
            /\ k \in DOMAIN job[p].held[d] /\ job[p].held[d][k] = b
        BY <2>3, <2>6, <3>2
      <4> QED
        BY <4>1 DEF Once
    <3> QED
      BY <3>1, <3>2
  <2>7. Once(j, b)
    BY <1>1, <2>6 DEF Once
  <2> QED
    BY <2>7 DEF j
<1> QED
  BY <1>3, <1>4

\* A step that leaves what a process has in hand as it is.
LEMMA ClearSame ==
  ASSUME Typed, Typed', Clear, NEW p \in Procs, Others(p), Ids' = Ids, \A a \in Ids : Calm(a),
         job'[p].todo = job[p].todo, job'[p].held = job[p].held,
         job[p].pc = "mark" => job'[p].pc = "mark"
  PROVE  Clear'
<1> SUFFICES ASSUME NEW a \in Ids PROVE Clean(a)'
  BY DEF Clear
<1>1. (Once(job[p], a) <=> Once(job'[p], a)) /\ HeldIn(job[p]) = HeldIn(job'[p])
  BY OnceAsBefore
<1>2. job[p].pc = "mark" /\ Head(job[p].todo) = a => job'[p].pc = "mark" /\ Head(job'[p].todo) = a
  OBVIOUS
<1> HIDE DEF HeldIn, Once, Calm
<1> QED
  BY <1>1, <1>2, CleanStays

\* A step after which a process has nothing in hand.
LEMMA ClearEmptied ==
  ASSUME Typed, Typed', Clear, NEW p \in Procs, Others(p), Ids' = Ids, \A a \in Ids : Calm(a),
         job'[p].todo = << >>, job'[p].held = Rest.held, job[p].pc # "mark"
  PROVE  Clear'
<1> SUFFICES ASSUME NEW a \in Ids PROVE Clean(a)'
  BY DEF Clear
<1>1. HeldIn(job'[p]) = {}
  BY NothingHeld
<1>2. Once(job'[p], a)
  BY <1>1, OnceIfNotHeld
<1> HIDE DEF HeldIn, Once, Calm
<1> QED
  BY <1>1, <1>2, CleanStays

LEMMA ClearEnded ==
  ASSUME Typed, Typed', Clear, NEW p \in Procs, Others(p), Ids' = Ids, \A a \in Ids : Calm(a),
         job'[p] = Ended(p), job[p].pc # "mark"
  PROVE  Clear'
<1>1. job'[p].todo = << >> /\ job'[p].held = Rest.held
  <2>1. /\ Rest.todo = << >> /\ Startup.todo = << >> /\ Startup.held = Rest.held
    BY RestIsJob
  <2> QED
    BY <2>1 DEF Ended
<1> HIDE DEF Calm
<1> QED
  BY <1>1, ClearEmptied

\* A step that makes an artifact and puts it in hand at once.
LEMMA ClearWithNew ==
  ASSUME Typed, Typed', Clear, NEW p \in Procs, Others(p), NEW a \in Nat, a \notin Ids, Ids' = Ids \cup {a},
         \A b \in Ids : arts'[b] = arts[b], arts'[a].got = 0, ~arts'[a].delivered,
         job'[p] = SendJob(job[p], <<a>>), job[p].pc # "mark"
  PROVE  Clear'
<1>1. HeldIn(job'[p]) = {a} /\ job'[p].todo = <<a>> /\ job'[p].held = Rest.held
  BY SendJobHolds, InSeq
<1>2. Once(job'[p], a)
  <2>1. DOMAIN <<a>> = {1}
    OBVIOUS
  <2>2. \A i, k \in DOMAIN job'[p].todo : i = k
    BY <1>1, <2>1
  <2> QED
    BY <1>1, <2>2, OnceInList
<1>3. \A q \in Procs : Once(job[q], a)
  BY HeldAreIds, OnceIfNotHeld
<1>4. ASSUME NEW b \in Ids PROVE Clean(b)'
  <2>1. b \notin HeldIn(job'[p])
    BY <1>1
  <2>2. Once(job'[p], b)
    BY <2>1, OnceIfNotHeld
  <2>3. Calm(b)
    BY DEF Calm
  <2> HIDE DEF HeldIn, Once, Calm
  <2> QED
    BY <2>1, <2>2, <2>3, CleanStays
<1>5. Clean(a)'
  <2> HIDE DEF Once
  <2> QED
    BY <1>2, <1>3, CleanNew
<1> QED
  BY <1>4, <1>5 DEF Clear

\* A step that stages an artifact that waits, or a new one.
LEMMA ClearStaging ==
  ASSUME Typed, Typed', Clear, NEW p \in Procs, Others(p), NEW r \in Request, NEW a \in Nat,
         job'[p] = StagedJob(p, r, a), job[p].pc # "mark",
         \A b \in Ids : Calm(b),
         \/ /\ Ids' = Ids /\ a \in Ids /\ ~arts[a].delivered
            /\ job[p].pc # "files" /\ a \in InHand => arts'[a].shared
         \/ Ids' = Ids \cup {a} /\ a \notin Ids /\ arts'[a].got = 0 /\ ~arts'[a].delivered
  PROVE  Clear'
<1>1. HeldIn(job'[p]) = HeldIn(job[p]) \cup (IF job[p].pc = "files" THEN {} ELSE {a})
  BY StagedHolds
<1>2. ASSUME NEW b \in Ids PROVE Clean(b)'
  <2>1. b \in HeldIn(job'[p]) => \/ b \in HeldIn(job[p])
                                 \/ arts'[b].shared
                                 \/ ~arts[b].delivered /\ b \notin InHand
    BY <1>1
  <2>2. Once(job[p], b) => arts'[b].shared \/ Once(job'[p], b)
    <3> SUFFICES ASSUME Once(job[p], b), ~arts'[b].shared PROVE Once(job'[p], b)
      OBVIOUS
    <3>1. b # a \/ b \notin HeldIn(job[p]) \/ job[p].pc = "files"
      BY InHandIs
    <3> QED
      BY <3>1, OnceWhenStaged
  <2> HIDE DEF HeldIn, Once, Calm
  <2> QED
    BY <2>1, <2>2, CleanStays
<1>3. ASSUME a \notin Ids, arts'[a].got = 0, ~arts'[a].delivered PROVE Clean(a)'
  <2>1. \A q \in Procs : a \notin HeldIn(job[q])
    BY <1>3, HeldAreIds
  <2>2. \A q \in Procs : Once(job[q], a)
    BY <2>1, OnceIfNotHeld
  <2>3. Once(job'[p], a)
    BY <2>1, <2>2, OnceWhenStaged
  <2> HIDE DEF Once
  <2> QED
    BY <1>3, <2>2, <2>3, CleanNew
<1> QED
  BY <1>2, <1>3 DEF Clear

LEMMA ClearHands ==
  ASSUME Typed, Typed', Sound, Clear, NEW p \in Procs, Others(p), UNCHANGED arts,
         job'[p] = SendJob(job[p], InHands(p)), job[p].pc \notin {"rest", "send", "mark"}
  PROVE  Clear'
<1> SUFFICES ASSUME NEW a \in Ids PROVE Clean(a)'
  BY DEF Clear, Ids
<1>1. HeldIn(job'[p]) = HeldIn(job[p])
  <2>1. ToSet(job[p].todo) = {}
    BY InSeq DEF Sound, Quiet
  <2>2. ToSet(InHands(p)) = UNION {ToSet(job[p].held[b]) : b \in Branches}
    BY HandsInARow
  <2>3. HeldIn(job'[p]) = ToSet(InHands(p))
    BY SendJobHolds
  <2> QED
    BY <2>1, <2>2, <2>3 DEF HeldIn
<1>2. Once(job[p], a) => Once(job'[p], a)
  BY OnceInARow
<1>3. Calm(a)
  BY DEF Calm
<1> HIDE DEF HeldIn, Once, Calm
<1> QED
  BY <1>1, <1>2, <1>3, CleanStays

LEMMA StagesClear ==
  ASSUME Typed, Sound, Clear, NEW p \in Procs, Stages(p)
  PROVE  Clear'
<1>0. job[p].want # {} => job[p].pc \in {"stage", "recent", "files"}
  BY DEF Sound, Quiet
<1>1. CASE Reuses(p)
  <2>1. Typed' /\ Others(p) /\ Ids' = Ids
    BY <1>1, ReusesEffect
  <2>2. PICK r \in job[p].want, a \in Ids :
          /\ r \in Request /\ Waiting(a)
          /\ job'[p] = StagedJob(p, r, a)
          /\ \A b \in Ids : /\ SameFate(b)
                            /\ b # a => SameShare(b)
                            /\ arts[b].shared => arts'[b].shared
          /\ job[p].pc # "files" /\ a \in InHand => arts'[a].shared
    BY <1>1, ReusesEffect
  <2>3. \A b \in Ids : Calm(b)
    BY <2>2, SameIsCalm
  <2>4. ~arts[a].delivered /\ a \in Nat
    BY <2>2, IdsAre DEF Waiting, Typed
  <2> HIDE DEF SameFate, SameShare, Calm
  <2> QED
    BY <1>0, <2>1, <2>2, <2>3, <2>4, ClearStaging
<1>2. CASE Copies(p)
  <2>0. PICK a \in Nat : a = Len(arts) + 1
    BY IdsAre DEF Typed
  <2>1. /\ Typed' /\ Others(p) /\ Ids' = Ids \cup {a}
        /\ \A b \in Ids : arts'[b] = arts[b]
        /\ arts'[a].got = 0 /\ ~arts'[a].delivered
    BY <1>2, <2>0, CopiesEffect
  <2>2. PICK r \in job[p].want : r \in Request /\ job'[p] = StagedJob(p, r, a)
    BY <1>2, <2>0, CopiesEffect
  <2>3. a \notin Ids
    BY <2>0, IdsAre DEF Typed
  <2>4. \A b \in Ids : Calm(b)
    BY <2>1 DEF Calm
  <2> HIDE DEF Calm
  <2> QED
    BY <1>0, <2>1, <2>2, <2>3, <2>4, ClearStaging
<1>3. CASE StartsCopy(p) \/ CopyFails(p)
  <2>1. Typed' /\ Others(p) /\ UNCHANGED <<arts, row, made>> /\ job[p].want # {}
    BY <1>3, StartsCopyEffect, CopyFailsEffect DEF StartsCopy, CopyFails
  <2>2. PICK W \in SUBSET Request : job'[p] = WantJob(p, W)
    BY <1>3, StartsCopyEffect, CopyFailsEffect
  <2>3. Ids' = Ids /\ \A a \in Ids : Calm(a)
    BY <2>1 DEF Ids, Calm
  <2> HIDE DEF Calm
  <2> QED
    BY <1>0, <2>1, <2>2, <2>3, WantIs, ClearSame
<1>4. CASE SweepsRecent(p)
  <2>1. Typed' /\ Others(p) /\ UNCHANGED <<arts, row, made>> /\ job[p].pc = "stage"
    BY <1>4, SweepsRecentEffect
  <2>2. PICK W \in SUBSET Request : job'[p] = [job[p] EXCEPT !.pc = "recent", !.want = W]
    BY <1>4, SweepsRecentEffect
  <2>3. job[p] \in JobSet(Len(arts))
    BY JobIs
  <2>4. job'[p].todo = job[p].todo /\ job'[p].held = job[p].held
    BY <2>2, <2>3 DEF JobSet
  <2>5. Ids' = Ids /\ \A a \in Ids : Calm(a)
    BY <2>1 DEF Ids, Calm
  <2> HIDE DEF Calm
  <2> QED
    BY <2>1, <2>4, <2>5, ClearSame
<1>5. CASE SendBegins(p)
  <2>1. /\ Typed' /\ Others(p) /\ UNCHANGED <<arts, row, made>>
        /\ job[p].pc = "stage"
        /\ job'[p] = SendJob(job[p], InHands(p))
    BY <1>5, SendBeginsEffect
  <2> QED
    BY <2>1, ClearHands
<1> QED
  BY <1>1, <1>2, <1>3, <1>4, <1>5 DEF Stages

\* Telegram has taken the file: it had not come before, for otherwise it would be
\* marked, or in the hand of whoever is about to mark it.
LEMMA ArrivesClear ==
  ASSUME Typed, Sound, Clear, NEW p \in Procs, Arrives(p)
  PROVE  Clear'
<1>1. PICK a : a = Head(job[p].todo)
  OBVIOUS
<1>2. /\ Typed' /\ Others(p) /\ Ids' = Ids
      /\ job[p].pc = "send" /\ job[p].todo # << >> /\ a \in Ids
      /\ job'[p] = [job[p] EXCEPT !.pc = "mark"]
      /\ \A b \in Ids : SameShare(b) /\ (b # a => SameFate(b))
      /\ arts'[a].got = arts[a].got + 1 /\ arts'[a].delivered = arts[a].delivered
  BY <1>1, ArrivesEffect
<1>3. job[p] \in JobSet(Len(arts))
  BY JobIs
<1>4. job'[p].todo = job[p].todo /\ job'[p].held = job[p].held /\ job'[p].pc = "mark"
  BY <1>2, <1>3 DEF JobSet
<1>5. /\ \A b : Once(job[p], b) <=> Once(job'[p], b)
      /\ HeldIn(job'[p]) = HeldIn(job[p])
  BY <1>4, OnceAsBefore
<1>6. ASSUME NEW b \in Ids, b # a PROVE Clean(b)'
  <2>1. Calm(b)
    BY <1>2, <1>6, SameIsCalm DEF SameShare
  <2> HIDE DEF HeldIn, Once, Calm
  <2> QED
    BY <1>2, <1>4, <1>5, <2>1, CleanStays
<1>7. Clean(a)'
  <2> SUFFICES ASSUME ~arts[a].shared PROVE Clean(a)'
    BY <1>2 DEF Clean, SameShare
  <2>1. /\ Alone(a) /\ \A q \in Procs : Once(job[q], a)
        /\ arts[a].got <= 1
        /\ arts[a].delivered => \A q \in Procs : a \notin HeldIn(job[q])
        /\ arts[a].got = 1 => arts[a].delivered \/ Marking(a)
    BY <1>2 DEF Clear, Clean
  <2>2. a \in HeldIn(job[p])
    BY <1>1, <1>2, HeadAndTail DEF HeldIn
  <2>3. ~arts[a].delivered
    BY <2>1, <2>2
  <2>4. ~Marking(a)
    <3> SUFFICES ASSUME NEW q \in Procs, job[q].pc = "mark", Head(job[q].todo) = a PROVE FALSE
      BY DEF Marking
    <3>1. job[q].todo # << >>
      BY DEF Typed, MarkHolds
    <3>2. a \in HeldIn(job[q])
      BY <3>1, HeadAndTail DEF HeldIn
    <3>3. q = p
      BY <2>1, <2>2, <3>2 DEF Alone
    <3> QED
      BY <1>2, <3>3
  <2>5. arts[a].got \in Nat
    BY <1>2, IdsAre DEF Typed, ArtSet
  <2>6. arts'[a].got = 1
    BY <1>2, <2>1, <2>3, <2>4, <2>5
  <2>7. \A q \in Procs : HeldIn(job'[q]) = HeldIn(job[q]) /\ (Once(job'[q], a) <=> Once(job[q], a))
    BY <1>2, <1>5 DEF Others
  <2>8. Marking(a)'
    BY <1>1, <1>4 DEF Marking
  <2> HIDE DEF HeldIn, Once
  <2>9. Alone(a)'
    BY <2>1, <2>7 DEF Alone
  <2> QED
    BY <1>2, <2>1, <2>3, <2>6, <2>7, <2>8, <2>9 DEF Clean
<1> QED
  BY <1>2, <1>6, <1>7 DEF Clear

\* The file is marked, and in no hand any more.
LEMMA MarksClear ==
  ASSUME Typed, Sound, Clear, NEW p \in Procs, Marks(p)
  PROVE  Clear'
<1>1. PICK a : a = Head(job[p].todo)
  OBVIOUS
<1>2. /\ Typed' /\ Others(p) /\ Ids' = Ids
      /\ job[p].pc = "mark" /\ job[p].todo # << >> /\ a \in Ids
      /\ job'[p] = DoneJob(p)
      /\ \A b \in Ids : SameShare(b) /\ (b # a => SameFate(b))
      /\ arts'[a].got = arts[a].got /\ arts'[a].delivered
  BY <1>1, MarksEffect
<1>3. job[p] \in JobSet(Len(arts)) /\ job[p].held = Rest.held
  BY <1>2, JobIs DEF Sound, Quiet
<1> DEFINE s == Tail(job[p].todo)
<1>4. job'[p].todo = s /\ job'[p].held = job[p].held
  <2>1. job'[p] = [job[p] EXCEPT !.pc = "send", !.todo = s, !.second = FALSE]
    BY <1>2 DEF DoneJob
  <2> HIDE DEF s
  <2> QED
    BY <1>3, <2>1 DEF JobSet
<1>5. /\ \A b : Once(job[p], b) => Once(job'[p], b)
      /\ HeldIn(job'[p]) \subseteq HeldIn(job[p])
      /\ HeldIn(job[p]) = HeldIn(job'[p]) \cup {a}
  BY <1>1, <1>2, <1>4, OnceInTail, TailHolds
<1>6. ASSUME NEW b \in Ids, b # a PROVE Clean(b)'
  <2>1. Calm(b)
    BY <1>2, <1>6, SameIsCalm DEF SameShare
  <2> HIDE DEF HeldIn, Once, Calm
  <2> QED
    BY <1>1, <1>2, <1>5, <1>6, <2>1, CleanStays
<1>7. Clean(a)'
  <2> SUFFICES ASSUME ~arts[a].shared PROVE Clean(a)'
    BY <1>2 DEF Clean, SameShare
  <2>1. /\ Alone(a) /\ \A q \in Procs : Once(job[q], a)
        /\ arts[a].got <= 1
    BY <1>2 DEF Clear, Clean
  <2>2. a \notin HeldIn(job'[p])
    <3>1. a \notin ToSet(s)
      <4> SUFFICES ASSUME NEW i \in DOMAIN s, s[i] = a PROVE FALSE
        BY DEF ToSet
      <4>1. /\ i + 1 \in DOMAIN job[p].todo /\ i + 1 # 1 /\ s[i] = job[p].todo[i + 1]
            /\ 1 \in DOMAIN job[p].todo /\ Head(job[p].todo) = job[p].todo[1]
        BY <1>2, HeadAndTail
      <4> HIDE DEF s
      <4> QED
        BY <1>1, <2>1, <4>1 DEF Once
    <3>2. HeldIn(job'[p]) = ToSet(s)
      BY <1>3, <1>4, OnlyTodo
    <3> QED
      BY <3>1, <3>2
  <2>3. ASSUME NEW q \in Procs PROVE a \notin HeldIn(job'[q])
    <3>1. CASE q = p
      BY <2>2, <3>1
    <3>2. CASE q # p
      <4>1. job'[q] = job[q]
        BY <1>2, <3>2 DEF Others
      <4>2. a \notin HeldIn(job[q])
        BY <1>5, <2>1, <3>2 DEF Alone
      <4> QED
        BY <4>1, <4>2
    <3> QED
      BY <3>1, <3>2
  <2>4. \A q \in Procs : Once(job'[q], a)
    BY <2>3, OnceIfNotHeld
  <2>5. Alone(a)'
    BY <2>3 DEF Alone
  <2> HIDE DEF HeldIn, Once
  <2> QED
    BY <1>2, <2>1, <2>3, <2>4, <2>5 DEF Clean
<1> QED
  BY <1>2, <1>6, <1>7 DEF Clear

LEMMA NothingClear ==
  ASSUME Typed, Clear, NEW p \in Procs, job' = [Sends(p, << >>) EXCEPT ![p].bad = {0}],
         UNCHANGED <<file, arts, row, answer, made, writes>>, job[p].pc \in {"speak", "generate"}
  PROVE  Clear'
<1>1. /\ Typed' /\ Others(p) /\ UNCHANGED arts
      /\ job'[p].todo = << >> /\ job'[p].held = Rest.held
  BY NothingTypes
<1>2. Ids' = Ids /\ \A a \in Ids : Calm(a)
  BY <1>1 DEF Ids, Calm
<1> HIDE DEF Calm
<1> QED
  BY <1>1, <1>2, ClearEmptied

LEMMA DeliversClear ==
  ASSUME Typed, Sound, Clear, NEW p \in Procs, Delivers(p)
  PROVE  Clear'
<1>0. job[p] \in JobSet(Len(arts))
  BY JobIs
<1>1. CASE TextIsSent(p)
  <2>1. /\ Typed' /\ Others(p) /\ UNCHANGED <<arts, row, made>> /\ AtText(p)
        /\ IF job[p].how = "terminal"
             THEN job'[p] = [job[p] EXCEPT !.pc = "files", !.want = Ask(FilesOf(p), 1)]
             ELSE job'[p] = SendJob(job[p], InHands(p))
    BY <1>1, TextIsSentEffect
  <2>2. job[p].pc \in {"text", "recent", "stage"}
    BY <2>1, AtTextIs
  <2>3. CASE job[p].how = "terminal"
    <3> DEFINE W == Ask(FilesOf(p), 1)
    <3>1. job'[p] = [job[p] EXCEPT !.pc = "files", !.want = W]
      BY <2>1, <2>3
    <3> HIDE DEF W
    <3>2. job'[p].todo = job[p].todo /\ job'[p].held = job[p].held
      BY <1>0, <3>1 DEF JobSet
    <3>3. Ids' = Ids /\ \A a \in Ids : Calm(a)
      BY <2>1 DEF Ids, Calm
    <3> HIDE DEF Calm
    <3> QED
      BY <2>1, <2>2, <3>2, <3>3, ClearSame
  <2>4. CASE job[p].how # "terminal"
    BY <2>1, <2>2, <2>4, ClearHands
  <2> QED
    BY <2>3, <2>4
<1>2. CASE TextFails(p)
  <2>1. /\ Typed' /\ Others(p) /\ UNCHANGED <<arts, made>> /\ job'[p] = Ended(p) /\ AtText(p)
    BY <1>2, TextFailsEffect
  <2>2. job[p].pc # "mark"
    BY <2>1, AtTextIs
  <2>3. Ids' = Ids /\ \A a \in Ids : Calm(a)
    BY <2>1 DEF Ids, Calm
  <2> HIDE DEF Calm
  <2> QED
    BY <2>1, <2>2, <2>3, ClearEnded
<1>3. CASE ReplyIsLost(p)
  <2>1. PICK a : a = Head(job[p].todo)
    OBVIOUS
  <2>2. /\ Typed' /\ UNCHANGED job /\ Ids' = Ids
        /\ \A b \in Ids : b # a => SameFate(b) /\ SameShare(b)
        /\ arts'[a].shared
    BY <1>3, <2>1, ReplyIsLostEffect
  <2>3. \A b \in Ids : Calm(b)
    BY <2>2, SameIsCalm DEF SameShare, Calm
  <2>4. Others(p) /\ job'[p] = job[p]
    BY <2>2 DEF Others
  <2> HIDE DEF Calm, SameFate, SameShare
  <2> QED
    BY <2>2, <2>3, <2>4, ClearSame
<1>4. CASE FallsBack(p)
  <2>1. /\ Typed' /\ Others(p) /\ UNCHANGED <<arts, row, made>>
        /\ job'[p] = [job[p] EXCEPT !.second = TRUE] /\ job[p].pc = "send"
    BY <1>4, FallsBackEffect
  <2>2. job'[p].todo = job[p].todo /\ job'[p].held = job[p].held
    BY <1>0, <2>1 DEF JobSet
  <2>3. Ids' = Ids /\ \A a \in Ids : Calm(a)
    BY <2>1 DEF Ids, Calm
  <2> HIDE DEF Calm
  <2> QED
    BY <2>1, <2>2, <2>3, ClearSame
<1>5. CASE DeliveryFails(p)
  <2>1. PICK a : a = Head(job[p].todo)
    OBVIOUS
  <2>2. /\ Typed' /\ Others(p) /\ Ids' = Ids /\ a \in Ids
        /\ job[p].pc = "send" /\ job[p].todo # << >>
        /\ job'[p] = FailedJob(p)
        /\ \A b \in Ids : SameShare(b) /\ (b # a => SameFate(b))
        /\ arts'[a].got = arts[a].got /\ arts'[a].delivered = arts[a].delivered
    BY <1>5, <2>1, DeliveryFailsEffect
  <2>3. \A b \in Ids : Calm(b)
    BY <2>2 DEF SameFate, SameShare, Calm
  <2> DEFINE s == Tail(job[p].todo)
  <2> DEFINE B == job[p].bad \cup {Head(job[p].todo)}
  <2>4. job'[p] = [job[p] EXCEPT !.todo = s, !.second = FALSE, !.bad = B]
    BY <2>2 DEF FailedJob
  <2> HIDE DEF s, B
  <2>5. job'[p].todo = s /\ job'[p].held = job[p].held
    BY <1>0, <2>4 DEF JobSet
  <2>6. /\ \A b : Once(job[p], b) => Once(job'[p], b)
        /\ HeldIn(job'[p]) \subseteq HeldIn(job[p])
    BY <2>2, <2>5, OnceInTail, TailHolds DEF s
  <2> SUFFICES ASSUME NEW b \in Ids PROVE Clean(b)'
    BY <2>2 DEF Clear
  <2> HIDE DEF HeldIn, Once, Calm
  <2> QED
    BY <2>2, <2>3, <2>6, CleanStays
<1> QED
  BY <1>1, <1>2, <1>3, <1>4, <1>5, ArrivesClear, MarksClear DEF Delivers

\* A list takes what waits; of that, what is in a hand already is excused.
LEMMA GoesOnClear ==
  ASSUME Typed, Sound, Clear, NEW p \in Procs, GoesOn(p)
  PROVE  Clear'
<1>1. /\ Typed' /\ Others(p) /\ Ids' = Ids
      /\ Listing(p) /\ job[p].how \in {"turn", "recovered", "terminal", "startup"}
  BY GoesOnEffect
<1>2. PICK n \in Later(p) :
        LET kind == Rounds[job[p].how][n] IN
        /\ job'[p] = RoundJob(p, n, kind)
        /\ RoundJob(p, n, kind).todo = ListOf(kind) /\ RoundJob(p, n, kind).held = Rest.held
        /\ \A b \in Ids : /\ SameFate(b)
                          /\ arts'[b].shared <=> (arts[b].shared \/ (b \in ToSet(ListOf(kind)) /\ b \in InHand))
  BY GoesOnEffect
<1> DEFINE L == ListOf(Rounds[job[p].how][n])
<1>3. /\ job'[p].todo = L /\ job'[p].held = Rest.held
      /\ \A b \in Ids : /\ SameFate(b)
                        /\ arts'[b].shared <=> (arts[b].shared \/ (b \in ToSet(L) /\ b \in InHand))
  BY <1>2
<1>4. /\ \A i, k \in DOMAIN L : L[i] = L[k] => i = k
      /\ \A b \in ToSet(L) : Waiting(b)
  <2> DEFINE kind == Rounds[job[p].how][n]
  <2>1. CASE kind = "reply"
    <3>1. L = << >>
      BY <2>1 DEF ListOf
    <3> QED
      BY <3>1, InSeq
  <2>2. CASE kind # "reply"
    <3>1. L = Undelivered(kind)
      BY <2>2 DEF ListOf
    <3> HIDE DEF L, kind
    <3>2. /\ ToSet(Undelivered(kind)) = {a \in Ids : Waiting(a) /\ arts[a].kind = kind}
          /\ \A i, k \in DOMAIN Undelivered(kind) : Undelivered(kind)[i] = Undelivered(kind)[k] => i = k
      BY UndeliveredLists DEF Typed
    <3> QED
      BY <3>1, <3>2
  <2> QED
    BY <2>1, <2>2
<1> HIDE DEF L
<1>5. job[p].pc # "mark"
  BY <1>1, ListingIs
<1>6. HeldIn(job'[p]) = ToSet(L)
  BY <1>3, OnlyTodo
<1> SUFFICES ASSUME NEW a \in Ids PROVE Clean(a)'
  BY <1>1 DEF Clear
<1>7. Once(job'[p], a)
  BY <1>3, <1>4, OnceInList
<1>8. Calm(a)
  BY <1>3, SameIsCalm
<1>9. a \in HeldIn(job'[p]) => arts'[a].shared \/ (~arts[a].delivered /\ a \notin InHand)
  BY <1>3, <1>4, <1>6 DEF Waiting
<1> HIDE DEF HeldIn, Once, Calm
<1> QED
  BY <1>1, <1>5, <1>7, <1>8, <1>9, CleanStays

LEMMA RoundingClear ==
  ASSUME Typed, Sound, Clear, NEW p \in Procs, Rounding(p)
  PROVE  Clear'
<1>1. CASE AnswerIsOut(p)
  <2>1. /\ Typed' /\ Others(p) /\ Ids' = Ids /\ Through(p)
        /\ job'[p] = FilesJob(p)
        /\ \A b \in Ids : SameShare(b) /\ SameFate(b)
    BY <1>1, AnswerIsOutEffect
  <2>2. job'[p].todo = job[p].todo /\ job'[p].held = job[p].held /\ job[p].pc = "send"
    BY <2>1, FilesAre DEF Through, At
  <2>3. \A b \in Ids : Calm(b)
    BY <2>1, SameIsCalm DEF SameShare
  <2> HIDE DEF Calm, SameShare, SameFate
  <2> QED
    BY <2>1, <2>2, <2>3, ClearSame
<1>2. CASE Finishes(p)
  <2>1. /\ Typed' /\ Others(p) /\ Ids' = Ids
        /\ Listing(p)
        /\ job'[p] = Ended(p)
        /\ \A b \in Ids : SameShare(b) /\ SameFate(b)
    BY <1>2, FinishesEffect
  <2>2. job[p].pc # "mark"
    BY <2>1, ListingIs
  <2>3. \A b \in Ids : Calm(b)
    BY <2>1, SameIsCalm DEF SameShare
  <2> HIDE DEF Calm, SameShare, SameFate
  <2> QED
    BY <2>1, <2>2, <2>3, ClearEnded
<1>3. CASE BreaksOff(p)
  <2>1. /\ Typed' /\ Others(p) /\ UNCHANGED arts /\ job'[p] = Ended(p) /\ job[p].pc = "send"
    BY <1>3, BreaksOffEffect DEF Through, At
  <2>2. Ids' = Ids /\ \A a \in Ids : Calm(a)
    BY <2>1 DEF Ids, Calm
  <2> HIDE DEF Calm
  <2> QED
    BY <2>1, <2>2, ClearEnded
<1>4. CASE Speaks(p)
  <2>1. job[p].task \in Tasks
    BY <1>4, TaskOf, ArtifactsAssumption DEF Speaks, At, Sound, Role
  <2>2. PICK a \in Nat : a = Len(arts) + 1
    BY IdsAre DEF Typed
  <2>3. a \notin Ids
    BY <2>2, IdsAre DEF Typed
  <2>4. /\ Typed' /\ Others(p) /\ job[p].pc = "speak"
        /\ Ids' = Ids \cup {a}
        /\ arts'[a].got = 0 /\ ~arts'[a].delivered
        /\ \A b \in Ids : arts'[b] = arts[b]
        /\ job'[p] = SendJob(job[p], <<a>>)
    BY <1>4, <2>1, <2>2, SpeaksEffect
  <2> QED
    BY <2>3, <2>4, ClearWithNew
<1>5. CASE SpeechFails(p)
  BY <1>5, SpeechFailsEffect, NothingClear
<1> QED
  BY <1>1, <1>2, <1>3, <1>4, <1>5, GoesOnClear DEF Rounding

LEMMA DirectlyClear ==
  ASSUME Typed, Sound, Clear, NEW p \in Procs, Directly(p)
  PROVE  Clear'
<1>1. CASE Generates(p)
  <2>2. PICK a \in Nat : a = Len(arts) + 1
    BY IdsAre DEF Typed
  <2>3. a \notin Ids
    BY <2>2, IdsAre DEF Typed
  <2>4. /\ Typed' /\ Others(p) /\ job[p].pc = "generate"
        /\ Ids' = Ids \cup {a}
        /\ arts'[a].got = 0 /\ ~arts'[a].delivered
        /\ \A b \in Ids : arts'[b] = arts[b]
        /\ job'[p] = SendJob(job[p], <<a>>)
    BY <1>1, <2>2, GeneratesEffect
  <2> QED
    BY <2>3, <2>4, ClearWithNew
<1>2. CASE GenerationFails(p)
  BY <1>2, GenerationFailsEffect, NothingClear
<1>3. CASE SaysGenerated(p)
  <2>1. /\ Typed' /\ Others(p) /\ Ids' = Ids /\ job[p].pc = "send"
        /\ \A b \in Ids : SameShare(b) /\ SameFate(b)
    BY <1>3, SaysGeneratedEffect DEF Through, At
  <2>2. \A b \in Ids : Calm(b)
    BY <2>1, SameIsCalm DEF SameShare
  <2>3. CASE job'[p] = SpeakJob(p)
    <3>1. job[p] \in JobSet(Len(arts))
      BY JobIs
    <3>2. job'[p].todo = job[p].todo /\ job'[p].held = job[p].held
      BY <2>3, <3>1 DEF SpeakJob, JobSet
    <3> HIDE DEF Calm, SameShare, SameFate
    <3> QED
      BY <2>1, <2>2, <3>2, ClearSame
  <2>4. CASE job'[p] = Ended(p)
    <3> HIDE DEF Calm, SameShare, SameFate
    <3> QED
      BY <2>1, <2>2, <2>4, ClearEnded
  <2> QED
    BY <1>3, <2>3, <2>4, SaysGeneratedEffect
<1>4. CASE SayingFails(p) \/ ReplyEnds(p) \/ SendEnds(p)
  <2>1. /\ Typed' /\ Others(p) /\ UNCHANGED arts /\ job'[p] = Ended(p) /\ job[p].pc = "send"
    <3>1. CASE SayingFails(p)
      BY <3>1, SayingFailsEffect DEF Through, At
    <3>2. CASE ReplyEnds(p)
      BY <3>2, ReplyEndsEffect DEF Through, At
    <3>3. CASE SendEnds(p)
      BY <3>3, SendEndsEffect DEF Through, At
    <3> QED
      BY <1>4, <3>1, <3>2, <3>3
  <2>2. Ids' = Ids /\ \A a \in Ids : Calm(a)
    BY <2>1 DEF Ids, Calm
  <2> HIDE DEF Calm
  <2> QED
    BY <2>1, <2>2, ClearEnded
<1> QED
  BY <1>1, <1>2, <1>3, <1>4 DEF Directly

LEMMA TakesClear ==
  ASSUME Typed, Sound, Clear, NEW t \in Tasks, Takes(t)
  PROVE  Clear'
<1>0. "worker" \in Procs
  BY Bounds
<1>1. CASE Answers(t)
  <2>1. /\ Typed' /\ Others("worker") /\ UNCHANGED arts /\ job["worker"].pc = "turn"
    BY <1>1, AnswersEffect
  <2>2. PICK W \in SUBSET Request : job'["worker"] = [job["worker"] EXCEPT !.pc = "stage", !.want = W]
    BY <1>1, AnswersEffect
  <2>3. job["worker"] \in JobSet(Len(arts))
    BY <1>0, JobIs
  <2>4. job'["worker"].todo = job["worker"].todo /\ job'["worker"].held = job["worker"].held
    BY <2>2, <2>3 DEF JobSet
  <2>5. Ids' = Ids /\ \A a \in Ids : Calm(a)
    BY <2>1 DEF Ids, Calm
  <2> HIDE DEF Calm
  <2> QED
    BY <1>0, <2>1, <2>4, <2>5, ClearSame
<1>2. CASE ~Answers(t)
  <2>1. /\ Typed' /\ Others("worker") /\ UNCHANGED arts /\ job["worker"].pc \in {"rest", "boot"}
        /\ job'["worker"].todo = << >> /\ job'["worker"].held = Rest.held
    <3>1. CASE TurnBegins(t)
      <4>1. Typed' /\ Others("worker") /\ UNCHANGED arts /\ NextUp(t)
            /\ job'["worker"] = NewJob("turn", "turn", t, {})
        BY <3>1, TurnBeginsEffect
      <4> QED
        BY <4>1, NewJobIs DEF NextUp, Idle, At, Modes, Stands
    <3>2. CASE PictureBegins(t)
      <4>1. Typed' /\ Others("worker") /\ UNCHANGED arts /\ NextUp(t)
            /\ job'["worker"] = NewJob("direct", "generate", t, {})
        BY <3>2, PictureBeginsEffect
      <4> QED
        BY <4>1, NewJobIs DEF NextUp, Idle, At, Modes, Stands
    <3>3. CASE Recovers(t)
      <4>1. Typed' /\ Others("worker") /\ UNCHANGED arts /\ job["worker"].pc = "boot"
        BY <3>3, RecoversEffect
      <4>2. PICK W \in SUBSET Request : job'["worker"] = NewJob("recovered", "stage", t, W)
        BY <3>3, RecoversEffect
      <4> QED
        BY <4>1, <4>2, NewJobIs DEF Modes, Stands
    <3>4. CASE Abandons(t)
      BY <3>4, AbandonsEffect, RestIsJob
    <3> QED
      BY <1>2, <3>1, <3>2, <3>3, <3>4 DEF Takes
  <2>2. Ids' = Ids /\ \A a \in Ids : Calm(a)
    BY <2>1 DEF Ids, Calm
  <2> HIDE DEF Calm
  <2> QED
    BY <1>0, <2>1, <2>2, ClearEmptied
<1> QED
  BY <1>1, <1>2

LEMMA CommandsClear ==
  ASSUME Typed, Sound, Clear,
         \/ TerminalBegins \/ TerminalAnswers \/ ImageCommand
         \/ \E path \in Paths : SendCommand(path)
  PROVE  Clear'
<1>0. \A h \in Modes, c \in Stands, W \in SUBSET Request :
        NewJob(h, c, 0, W).todo = << >> /\ NewJob(h, c, 0, W).held = Rest.held
  <2> SUFFICES ASSUME NEW h \in Modes, NEW c \in Stands, NEW W \in SUBSET Request
               PROVE  NewJob(h, c, 0, W).todo = << >> /\ NewJob(h, c, 0, W).held = Rest.held
    OBVIOUS
  <2>1. 0 \in Nat /\ 0 \in Tasks \cup {0}
    OBVIOUS
  <2>2. NewJob(h, c, 0, W).todo = << >>
    BY <2>1, NewJobIs
  <2>3. NewJob(h, c, 0, W).held = Rest.held
    BY <2>1, NewJobIs
  <2> QED
    BY <2>2, <2>3
<1>1. CASE TerminalAnswers
  <2> DEFINE p == "terminal"
  <2>1. Typed' /\ p \in Procs /\ Others(p) /\ UNCHANGED arts /\ job[p].pc = "turn"
    BY <1>1, TerminalAnswersEffect
  <2>2. PICK F \in SUBSET Paths : job'[p] = [job[p] EXCEPT !.pc = "text", !.named = F]
    BY <1>1, TerminalAnswersEffect
  <2>3. job[p] \in JobSet(Len(arts))
    BY <2>1, JobIs
  <2>4. job'[p].todo = job[p].todo /\ job'[p].held = job[p].held
    BY <2>2, <2>3 DEF JobSet
  <2>5. Ids' = Ids /\ \A a \in Ids : Calm(a)
    BY <2>1 DEF Ids, Calm
  <2> HIDE DEF Calm
  <2> QED
    BY <2>1, <2>4, <2>5, ClearSame
<1>2. ASSUME NEW p \in Procs, Typed', Others(p), UNCHANGED arts, job[p].pc = "rest",
             NEW h \in Modes, NEW c \in Stands, NEW W \in SUBSET Request, job'[p] = NewJob(h, c, 0, W)
      PROVE  Clear'
  <2>1. job'[p].todo = << >> /\ job'[p].held = Rest.held
    BY <1>0, <1>2
  <2>2. Ids' = Ids /\ \A a \in Ids : Calm(a)
    BY <1>2 DEF Ids, Calm
  <2> HIDE DEF Calm
  <2> QED
    BY <1>2, <2>1, <2>2, ClearEmptied
<1>3. CASE TerminalBegins
  <2>1. Typed' /\ "terminal" \in Procs /\ Others("terminal") /\ UNCHANGED arts
        /\ job["terminal"].pc = "rest" /\ job'["terminal"] = NewJob("terminal", "turn", 0, {})
    BY <1>3, TerminalBeginsEffect
  <2>2. "terminal" \in Modes /\ "turn" \in Stands /\ {} \in SUBSET Request
    BY DEF Modes, Stands
  <2> QED
    BY <1>2, <2>1, <2>2
<1>4. CASE ImageCommand
  <2>1. Typed' /\ "chat" \in Procs /\ Others("chat") /\ UNCHANGED arts
        /\ job["chat"].pc = "rest" /\ job'["chat"] = NewJob("direct", "generate", 0, {})
    BY <1>4, ImageCommandEffect
  <2>2. "direct" \in Modes /\ "generate" \in Stands /\ {} \in SUBSET Request
    BY DEF Modes, Stands
  <2> QED
    BY <1>2, <2>1, <2>2
<1>5. ASSUME NEW path \in Paths, SendCommand(path) PROVE Clear'
  <2>1. Typed' /\ "ctl" \in Procs /\ Others("ctl") /\ UNCHANGED arts /\ job["ctl"].pc = "rest"
    BY <1>5, SendCommandEffect
  <2>2. PICK W \in SUBSET Request : job'["ctl"] = NewJob("send", "stage", 0, W)
    BY <1>5, SendCommandEffect
  <2>3. "send" \in Modes /\ "stage" \in Stands
    BY DEF Modes, Stands
  <2> QED
    BY <1>2, <2>1, <2>2, <2>3
<1> QED
  BY <1>1, <1>3, <1>4, <1>5

LEMMA CrashClear ==
  ASSUME Typed, Sound, Clear, Crash
  PROVE  Clear'
<1>1. /\ Typed' /\ Ids' = Ids
      /\ \A p \in Procs : \/ p = "ctl" /\ job'[p] = job[p]
                          \/ p # "ctl" /\ p # "worker" /\ job'[p] = Rest
                          \/ p = "worker" /\ (job'[p] = Startup \/ job'[p] = [Startup EXCEPT !.pc = "boot"])
      /\ \A b \in Ids : SameFate(b) /\ (arts[b].shared => arts'[b].shared)
      /\ \A p \in Procs : p # "ctl" /\ job[p].pc = "mark" => arts'[Head(job[p].todo)].shared
  BY CrashEffect
<1>2. /\ Rest.todo = << >> /\ Startup.todo = << >> /\ Startup.held = Rest.held /\ Startup \in JobSet(0)
  BY RestIsJob
<1>3. [Startup EXCEPT !.pc = "boot"].todo = << >> /\ [Startup EXCEPT !.pc = "boot"].held = Rest.held
  BY <1>2 DEF JobSet
<1>4. \A p \in Procs : IF p = "ctl" THEN job'[p] = job[p] ELSE job'[p].todo = << >> /\ job'[p].held = Rest.held
  BY <1>1, <1>2, <1>3
<1>5. \A p \in Procs : p # "ctl" => HeldIn(job'[p]) = {}
  BY <1>4, NothingHeld
<1> SUFFICES ASSUME NEW a \in Ids, ~arts'[a].shared PROVE Clean(a)'
  BY <1>1 DEF Clear, Clean
<1>6. /\ Alone(a) /\ \A q \in Procs : Once(job[q], a)
      /\ arts[a].got <= 1
      /\ arts[a].delivered => \A q \in Procs : a \notin HeldIn(job[q])
      /\ arts[a].got = 1 => arts[a].delivered \/ Marking(a)
      /\ arts'[a].got = arts[a].got /\ arts'[a].delivered = arts[a].delivered
  BY <1>1 DEF Clear, Clean, SameFate
<1>7. \A q \in Procs : Once(job'[q], a)
  <2> SUFFICES ASSUME NEW q \in Procs PROVE Once(job'[q], a)
    OBVIOUS
  <2>1. CASE q = "ctl"
    BY <1>4, <1>6, <2>1
  <2>2. CASE q # "ctl"
    BY <1>5, <2>2, OnceIfNotHeld
  <2> QED
    BY <2>1, <2>2
<1>8. \A q \in Procs : a \in HeldIn(job'[q]) => a \in HeldIn(job[q])
  BY <1>4, <1>5
<1>9. Marking(a) => Marking(a)'
  <2> SUFFICES ASSUME NEW q \in Procs, job[q].pc = "mark", Head(job[q].todo) = a PROVE Marking(a)'
    BY DEF Marking
  <2>1. q = "ctl"
    BY <1>1
  <2>2. job'[q] = job[q]
    BY <1>4, <2>1
  <2> QED
    BY <2>2 DEF Marking
<1> HIDE DEF HeldIn, Once
<1>10. Alone(a)'
  BY <1>6, <1>8 DEF Alone
<1> QED
  BY <1>6, <1>7, <1>8, <1>9, <1>10 DEF Clean

LEMMA BesideClear ==
  ASSUME Typed, Sound, Clear,
         \/ \E path \in Paths : Writes(path)
         \/ \E kind \in ToolKinds : ToolMakes(kind)
  PROVE  Clear'
<1>1. ASSUME NEW path \in Paths, Writes(path) PROVE Clear'
  <2>1. Typed' /\ UNCHANGED arts /\ \A p \in Procs : job'[p] = [job[p] EXCEPT !.since = job'[p].since]
    BY <1>1, WritesEffect
  <2>2. ASSUME NEW p \in Procs
        PROVE  job'[p].todo = job[p].todo /\ job'[p].held = job[p].held /\ job'[p].pc = job[p].pc
    <3> DEFINE s == job'[p].since
    <3>1. job'[p] = [job[p] EXCEPT !.since = s] /\ job[p] \in JobSet(Len(arts))
      BY <2>1, JobIs
    <3> HIDE DEF s
    <3> QED
      BY <3>1 DEF JobSet
  <2> SUFFICES ASSUME NEW a \in Ids PROVE Clean(a)'
    BY <2>1 DEF Clear, Ids
  <2>3. \A p \in Procs : HeldIn(job'[p]) = HeldIn(job[p]) /\ (Once(job'[p], a) <=> Once(job[p], a))
    BY <2>2, OnceAsBefore
  <2>4. Marking(a) => Marking(a)'
    BY <2>2 DEF Marking
  <2> HIDE DEF HeldIn, Once
  <2>5. Alone(a) => Alone(a)'
    BY <2>3 DEF Alone
  <2> QED
    BY <2>1, <2>3, <2>4, <2>5 DEF Clear, Clean
<1>2. ASSUME NEW kind \in ToolKinds, ToolMakes(kind) PROVE Clear'
  <2>1. PICK a \in Nat : a = Len(arts) + 1
    BY IdsAre DEF Typed
  <2>2. /\ Typed' /\ UNCHANGED job /\ Ids' = Ids \cup {a} /\ a \notin Ids
        /\ arts'[a].got = 0 /\ ~arts'[a].delivered
        /\ \A b \in Ids : arts'[b] = arts[b]
    BY <1>2, <2>1, ToolMakesEffect, IdsAre DEF Typed
  <2>3. "worker" \in Procs /\ Others("worker")
    BY <2>2, Bounds DEF Others
  <2>4. \A q \in Procs : Once(job[q], a)
    BY <2>2, HeldAreIds, OnceIfNotHeld
  <2> HIDE DEF Once
  <2>5. Clean(a)'
    BY <2>2, <2>3, <2>4, CleanNew
  <2>6. ASSUME NEW b \in Ids PROVE Clean(b)'
    BY <2>2 DEF Clear, Clean, Alone, Marking
  <2> QED
    BY <2>2, <2>5, <2>6 DEF Clear
<1> QED
  BY <1>1, <1>2

LEMMA NextClear ==
  ASSUME Typed, Sound, Clear, [Next]_vars
  PROVE  Clear'
<1>1. CASE Next
  <2>1. ASSUME NEW p \in Procs, Step(p) PROVE Clear'
    BY <2>1, StagesClear, DeliversClear, RoundingClear, DirectlyClear DEF Step
  <2>2. ASSUME NEW t \in Tasks, Takes(t) PROVE Clear'
    BY <2>2, TakesClear
  <2> QED
    BY <1>1, <2>1, <2>2, CommandsClear, CrashClear, BesideClear DEF Next
<1>2. CASE UNCHANGED vars
  <2>1. UNCHANGED <<arts, job>>
    BY <1>2 DEF vars
  <2> QED
    BY <2>1 DEF Clear, Clean, Ids, Alone, Marking, HeldIn, Once
<1> QED
  BY <1>1, <1>2

\* Lists, copies staged before, second ways of sending and retries send no file
\* twice, unless Telegram's answer was lost, the daemon died between sending and
\* marking, or two held the file at once (DuplicatesHaveACause).
THEOREM NoFileComesTwice == Spec => []DuplicatesHaveACause
<1>1. Init => Typed /\ Sound /\ Clear
  <2>1. Init => Ids = {}
    BY DEF Init, Ids
  <2> QED
    BY <2>1, InitIsSound DEF Clear
<1>2. Typed /\ Sound /\ Clear /\ [Next]_vars => (Typed /\ Sound /\ Clear)'
  BY NextKeepsSound, NextClear
<1>3. Typed /\ Clear => DuplicatesHaveACause
  <2> SUFFICES ASSUME Typed, Clear, NEW a \in Ids, arts[a].got > 1, ~arts[a].shared PROVE FALSE
    BY DEF DuplicatesHaveACause
  <2>1. arts[a].got <= 1 /\ arts[a].got \in Nat
    BY IdsAre DEF Clear, Clean, Typed, ArtSet
  <2> QED
    BY <2>1
<1> QED
  BY <1>1, <1>2, <1>3, PTL DEF Spec
=============================================================================
