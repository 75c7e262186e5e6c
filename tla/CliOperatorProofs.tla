-------------------------- MODULE CliOperatorProofs --------------------------
(* Lemmas about the operators that CliProcess is built from.  CommandLine:   *)
(* what the usage tables let pass is what createCommand makes a command of,  *)
(* with a rollout that is a percentage.  DebugLog: what is printed of a log  *)
(* does not depend on where it is cut, as long as it is cut between lines.   *)
EXTENDS CommandLine, DebugLog, FiniteSetTheorems, SequenceTheorems, TLAPS

-----------------------------------------------------------------------------
(* Rollouts                                                                *)

\* Which commands take a rollout, and how it is checked.
LEMMA CheckedWords ==
    ASSUME NEW w \in SessionWords \cup UpdateWords
    PROVE  \/ WordUsage[w].check \in {"rollout", "release"}
           \/ "rollout" \notin WordUsage[w].options
<1>1. CASE w \in SessionWords
  <2>1. "rollout" \notin SessionUsage[w].options
    BY <1>1 DEF SessionWords, SessionUsage, Usage
  <2>2. WordUsage[w] = SessionUsage[w]
    BY <1>1 DEF WordUsage, SessionWords
  <2> QED BY <2>1, <2>2
<1>2. CASE w \in {"patch", "promote"}
  BY <1>2 DEF SessionWords, UpdateWords, WordUsage, PatchUsage, PromoteUsage
<1>3. CASE w \in {"release", "release-cordova", "release-react"}
  BY <1>3 DEF SessionWords, UpdateWords, WordUsage, ReleaseUsage, ReleaseCordovaUsage,
              ReleaseReactUsage
<1>4. CASE w = "rollback"
  BY <1>4 DEF SessionWords, UpdateWords, WordUsage, RollbackUsage, Usage
<1> QED BY <1>1, <1>2, <1>3, <1>4 DEF UpdateWords

\* No command with a category takes a rollout.
LEMMA UncheckedCategories ==
    ASSUME NEW w \in DOMAIN CategoryUsage, NEW v \in DOMAIN CategoryUsage[w]
    PROVE  "rollout" \notin CategoryUsage[w][v].options
<1>1. CASE w = "access-key"
  BY <1>1 DEF CategoryUsage, AccessKeyUsage, accessKeyAdd, accessKeyRemove, accessKeyList, Usage
<1>2. CASE w = "app"
  BY <1>2 DEF CategoryUsage, AppUsage, appRemove, appList, Usage
<1>3. CASE w = "collaborator"
  BY <1>3 DEF CategoryUsage, CollaboratorUsage, listCollaborators, removeCollaborator, Usage
<1>4. CASE w = "deployment"
  BY <1>4 DEF CategoryUsage, DeploymentUsage, deploymentHistoryClear, deploymentList,
              deploymentRemove, deploymentHistory, Usage
<1> QED BY <1>1, <1>2, <1>3, <1>4 DEF CategoryUsage

\* A rollout that was checked is a percentage or none.
LEMMA CheckedRollout ==
    ASSUME NEW l, NEW d, isValidRollout(l, d)
    PROVE  getRolloutValue(RolloutOf(l, d)) \in (1..100) \cup {Null}
BY DEF isValidRollout, getRolloutValue, ROLLOUT_PERCENTAGE_REGEX

\* The rollout of patch alone has no default.
LEMMA TypeOfPatch ==
    ASSUME NEW l, CommandType(l) # <<>>
    PROVE  CommandType(l) = <<"patch">> <=> Word(l, 1) = "patch"
<1>1. "patch" \notin DOMAIN CategoryCommands(l) /\ "patch" \in DOMAIN WordCommands
  BY DEF CategoryCommands, WordCommands, UpdateWords
<1>2. \A w, v : <<w, v>> # <<"patch">>
  OBVIOUS
<1>3. \A w : <<w>> = <<"patch">> => w = "patch"
  OBVIOUS
<1> QED BY <1>1, <1>2, <1>3 DEF CommandType

\* The rollout of a command is a percentage or none.
LEMMA CommandRollout ==
    ASSUME NEW l, createCommand(l) # NoCommand, NEW x, x = createCommand(l)
    PROVE  x.rollout \in (1..100) \cup {Null}
<1> DEFINE type == CommandType(l)
           default == IF type = <<"patch">> THEN NoRollout ELSE Everyone
<1>1. /\ ~HelpShown(l) /\ type # <<>>
      /\ x.rollout = getRolloutValue(RolloutOf(l, default))
  BY DEF createCommand
<1> SUFFICES isValidRollout(l, default)
  BY <1>1, CheckedRollout
<1>2. CASE "rollout" \notin DOMAIN l.options
  BY <1>2 DEF isValidRollout, RolloutOf, Option, NoRollout, Everyone, Percent,
              ROLLOUT_PERCENTAGE_REGEX
<1>3. CASE Word(l, 1) \in DOMAIN WordUsage /\ Passes(l, WordUsage[Word(l, 1)], 1)
  <2> DEFINE u == WordUsage[Word(l, 1)]
  <2>1. u.check \in {"rollout", "release"} \/ "rollout" \notin u.options
    BY <1>3, CheckedWords DEF WordUsage
  <2>2. CASE u.check = "rollout"
    <3>1. l.words[1] = Word(l, 1)
      BY <1>3 DEF Word, WordUsage, SessionWords, UpdateWords
    <3> QED BY <1>1, <1>3, <2>2, <3>1, TypeOfPatch DEF Passes
  <2>3. CASE u.check = "release"
    <3>1. Word(l, 1) # "patch"
      BY <2>3 DEF WordUsage, PatchUsage, UpdateWords, SessionWords
    <3> QED BY <1>1, <1>3, <2>3, <3>1, TypeOfPatch DEF Passes, checkValidReleaseOptions
  <2> QED BY <1>2, <1>3, <2>1, <2>2, <2>3 DEF Passes
<1>4. CASE /\ Word(l, 1) \in DOMAIN CategoryUsage
           /\ Word(l, 2) \in DOMAIN CategoryUsage[Word(l, 1)]
           /\ Passes(l, CategoryUsage[Word(l, 1)][Word(l, 2)], 2)
  BY <1>2, <1>4, UncheckedCategories DEF Passes
<1> QED BY <1>1, <1>3, <1>4 DEF HelpShown
-----------------------------------------------------------------------------
(* Words                                                                   *)

\* A line that has the words a usage asks for has those createCommand needs.
LEMMA WordsNeeded ==
    ASSUME NEW w \in DOMAIN WordUsage, NEW n \in WordUsage[w].args
    PROVE  w \in DOMAIN WordCommands /\ WordCommands[w] \subseteq 1..(n + 1)
<1>1. CASE w \in SessionWords
  BY <1>1 DEF WordUsage, WordCommands, SessionWords
<1>2. CASE w \in {"patch", "rollback"}
  <2>1. WordUsage[w].args = 2..2 /\ WordCommands[w] = {2, 3}
    BY <1>2 DEF WordUsage, WordCommands, SessionWords, UpdateWords, PatchUsage, RollbackUsage, Usage
  <2>2. DOMAIN WordCommands = DOMAIN WordUsage
    BY DEF WordUsage, WordCommands
  <2> QED BY <2>1, <2>2
<1>3. CASE w \in {"promote", "release"}
  <2>1. WordUsage[w].args = 3..3 /\ WordCommands[w] = {2, 3, 4}
    BY <1>3 DEF WordUsage, WordCommands, SessionWords, UpdateWords, PatchUsage, PromoteUsage,
                ReleaseUsage
  <2>2. DOMAIN WordCommands = DOMAIN WordUsage
    BY DEF WordUsage, WordCommands
  <2> QED BY <2>1, <2>2
<1>4. CASE w \in {"release-cordova", "release-react"}
  <2>1. WordUsage[w].args = 2..2 /\ WordCommands[w] = {2, 3}
    BY <1>4 DEF WordUsage, WordCommands, SessionWords, UpdateWords, ReleaseUsage,
                ReleaseCordovaUsage, ReleaseReactUsage
  <2>2. DOMAIN WordCommands = DOMAIN WordUsage
    BY DEF WordUsage, WordCommands
  <2> QED BY <2>1, <2>2
<1> QED BY <1>1, <1>2, <1>3, <1>4 DEF WordUsage, UpdateWords

\* So has one with a category, but for deployment add without a name.
LEMMA CategoryWordsNeeded ==
    ASSUME NEW l, NEW w \in DOMAIN CategoryUsage, NEW v \in DOMAIN CategoryUsage[w],
           NEW n \in CategoryUsage[w][v].args
    PROVE  /\ w \in DOMAIN CategoryCommands(l)
           /\ v \in DOMAIN CategoryCommands(l)[w]
           /\ \/ CategoryCommands(l)[w][v] \subseteq 1..(n + 2)
              \/ w = "deployment" /\ v = "add" /\ n = 1 /\ ~Option(l, "default", FALSE)
<1>1. CASE w = "access-key"
  <2>1. CategoryUsage[w] = AccessKeyUsage /\ CategoryCommands(l)[w] = AccessKeyCommands
    BY <1>1 DEF CategoryUsage, CategoryCommands
  <2>2. v \in DOMAIN AccessKeyUsage /\ n \in AccessKeyUsage[v].args
    BY <2>1
  <2>3. v \in DOMAIN AccessKeyCommands /\ AccessKeyCommands[v] \subseteq 1..(n + 2)
    BY <2>2 DEF AccessKeyUsage, AccessKeyCommands, accessKeyAdd, accessKeyRemove,
                accessKeyList, Usage
  <2> QED BY <1>1, <2>1, <2>3 DEF CategoryCommands
<1>2. CASE w = "app"
  <2>1. CategoryUsage[w] = AppUsage /\ CategoryCommands(l)[w] = AppCommands
    BY <1>2 DEF CategoryUsage, CategoryCommands
  <2>2. v \in DOMAIN AppUsage /\ n \in AppUsage[v].args
    BY <2>1
  <2>3. v \in DOMAIN AppCommands /\ AppCommands[v] \subseteq 1..(n + 2)
    BY <2>2 DEF AppUsage, AppCommands, appRemove, appList, Usage
  <2> QED BY <1>2, <2>1, <2>3 DEF CategoryCommands
<1>3. CASE w = "collaborator"
  <2>1. CategoryUsage[w] = CollaboratorUsage /\ CategoryCommands(l)[w] = CollaboratorCommands
    BY <1>3 DEF CategoryUsage, CategoryCommands
  <2>2. v \in DOMAIN CollaboratorUsage /\ n \in CollaboratorUsage[v].args
    BY <2>1
  <2>3. v \in DOMAIN CollaboratorCommands /\ CollaboratorCommands[v] \subseteq 1..(n + 2)
    BY <2>2 DEF CollaboratorUsage, CollaboratorCommands, listCollaborators,
                removeCollaborator, Usage
  <2> QED BY <1>3, <2>1, <2>3 DEF CategoryCommands
<1>4. CASE w = "deployment"
  <2> DEFINE d == Option(l, "default", FALSE)
  <2>1. CategoryUsage[w] = DeploymentUsage /\ CategoryCommands(l)[w] = DeploymentCommands(d)
    BY <1>4 DEF CategoryUsage, CategoryCommands
  <2>2. v \in DOMAIN DeploymentUsage /\ n \in DeploymentUsage[v].args
    BY <2>1
  <2>3. /\ v \in DOMAIN DeploymentCommands(d)
        /\ DeploymentCommands(d)[v] \subseteq 1..(n + 2) \/ (v = "add" /\ n = 1 /\ ~d)
    <3> HIDE DEF d
    <3>1. CASE v = "add"
      <4>1. n \in 1..2
        BY <2>2, <3>1 DEF DeploymentUsage, Usage
      <4>2. v \in DOMAIN DeploymentCommands(d)
        BY <3>1 DEF DeploymentCommands
      <4>3. CASE d
        BY <3>1, <4>1, <4>2, <4>3 DEF DeploymentCommands
      <4>4. CASE ~d
        BY <3>1, <4>1, <4>2, <4>4 DEF DeploymentCommands
      <4> QED BY <4>3, <4>4
    <3>2. CASE v # "add"
      BY <2>2, <3>2 DEF DeploymentUsage, DeploymentCommands, deploymentHistoryClear,
                        deploymentRemove, deploymentList, deploymentHistory, Usage
    <3> QED BY <3>1, <3>2
  <2> QED BY <1>4, <2>1, <2>3 DEF CategoryCommands
<1> QED BY <1>1, <1>2, <1>3, <1>4 DEF CategoryUsage

\* Arithmetic of lengths.
LEMMA LenInNat == \A s \in Seq(STRING) : Len(s) \in Nat /\ DOMAIN s = 1..Len(s)
OBVIOUS

\* Words that follow, and words in all.
LEMMA Less == \A n \in Nat : n - 1 + 1 = n /\ n - 2 + 2 = n /\ (n - 2 = 1 => n = 3)
OBVIOUS

\* The words of a usage that are there are not empty.
LEMMA HasWords ==
    ASSUME NEW l, l.words \in Seq(STRING), \A i \in DOMAIN l.words : l.words[i] # "",
           NEW S, S \subseteq 1..Len(l.words)
    PROVE  Has(l, S)
<1>1. S \subseteq DOMAIN l.words
  BY LenInNat
<1> QED BY <1>1 DEF Has, Word

\* What the tables let pass is a command.
LEMMA TypeMade ==
    ASSUME NEW l, l.words \in Seq(STRING), \A i \in DOMAIN l.words : l.words[i] # "",
           ~HelpShown(l),
           ~ /\ Word(l, 1) = "deployment" /\ Word(l, 2) = "add"
             /\ Len(l.words) = 3 /\ ~Option(l, "default", FALSE)
    PROVE  CommandType(l) # <<>>
<1> DEFINE w == Word(l, 1)
           v == Word(l, 2)
<1>1. CASE w \in DOMAIN WordUsage /\ Passes(l, WordUsage[w], 1)
  <2>1. Len(l.words) - 1 \in WordUsage[w].args /\ Len(l.words) \in Nat
    BY <1>1, LenInNat DEF Passes
  <2>2. w \in DOMAIN WordCommands /\ WordCommands[w] \subseteq 1..Len(l.words)
    <3>1. w \in DOMAIN WordCommands /\ WordCommands[w] \subseteq 1..(Len(l.words) - 1 + 1)
      BY <1>1, <2>1, WordsNeeded
    <3> QED BY <2>1, <3>1, Less
  <2>3. Has(l, WordCommands[w])
    BY <2>2, HasWords
  <2> QED BY <2>2, <2>3 DEF CommandType
<1>2. CASE /\ w \in DOMAIN CategoryUsage /\ v \in DOMAIN CategoryUsage[w]
           /\ Passes(l, CategoryUsage[w][v], 2)
  <2>1. Len(l.words) - 2 \in CategoryUsage[w][v].args /\ Len(l.words) \in Nat
    BY <1>2, LenInNat DEF Passes
  <2>2. /\ w \in DOMAIN CategoryCommands(l) /\ v \in DOMAIN CategoryCommands(l)[w]
        /\ CategoryCommands(l)[w][v] \subseteq 1..Len(l.words)
    <3>1. /\ w \in DOMAIN CategoryCommands(l) /\ v \in DOMAIN CategoryCommands(l)[w]
          /\ \/ CategoryCommands(l)[w][v] \subseteq 1..(Len(l.words) - 2 + 2)
             \/ /\ w = "deployment" /\ v = "add" /\ Len(l.words) - 2 = 1
                /\ ~Option(l, "default", FALSE)
      BY <1>2, <2>1, CategoryWordsNeeded
    <3> QED BY <2>1, <3>1, Less
  <2>3. Has(l, CategoryCommands(l)[w][v])
    BY <2>2, HasWords
  <2> QED BY <2>2, <2>3 DEF CommandType
<1> QED BY <1>1, <1>2 DEF HelpShown

-----------------------------------------------------------------------------
(* Numbers in ascending order                                              *)

\* How many numbers of S are not above i.
Rank(S, i) == Cardinality({h \in S : h <= i})

\* Smaller numbers have smaller ranks.
LEMMA RankGrows ==
    ASSUME NEW S \in SUBSET Nat, IsFiniteSet(S), NEW i \in S, NEW j \in S, i < j
    PROVE  Rank(S, i) \in Nat /\ Rank(S, j) \in Nat /\ Rank(S, i) < Rank(S, j)
<1> DEFINE A == {h \in S : h <= i}
           B == {h \in S : h <= j}
<1>1. IsFiniteSet(B) /\ IsFiniteSet(A)
    BY FS_Subset
<1> i \in Nat /\ j \in Nat
    OBVIOUS
<1>2. A \in SUBSET B /\ j \in B /\ j \notin A
    <2>1. ASSUME NEW h \in A PROVE h \in B
        <3> h \in Nat /\ h \in S /\ h <= i
            OBVIOUS
        <3> QED
            OBVIOUS
    <2>2. j \in B /\ j \notin A
        OBVIOUS
    <2> QED
        BY <2>1, <2>2
<1>3. Cardinality(A) \in Nat /\ Cardinality(B) \in Nat
    BY <1>1, FS_CardinalityType
<1>4. Cardinality(A) <= Cardinality(B) /\ (Cardinality(B) = Cardinality(A) => B = A)
    BY <1>1, <1>2, FS_Subset
<1> QED
    BY <1>2, <1>3, <1>4 DEF Rank

\* Ranks are the numbers up to the size of the set, each of them once.
LEMMA Ranked ==
    ASSUME NEW S \in SUBSET Nat, IsFiniteSet(S)
    PROVE  /\ Cardinality(S) \in Nat
           /\ \A i \in S : Rank(S, i) \in 1..Cardinality(S)
           /\ \A i, j \in S : Rank(S, i) = Rank(S, j) => i = j
           /\ \A k \in 1..Cardinality(S) : Nth(S, k) \in S /\ Rank(S, Nth(S, k)) = k
<1> DEFINE N == Cardinality(S)
           f == [i \in S |-> Rank(S, i)]
<1>1. N \in Nat
    BY FS_CardinalityType
<1>2. ASSUME NEW i \in S PROVE Rank(S, i) \in 1..N
    <2> DEFINE A == {h \in S : h <= i}
    <2>1. IsFiniteSet(A) /\ Cardinality(A) <= N
        BY FS_Subset
    <2>2. A # {}
        OBVIOUS
    <2>3. Cardinality(A) \in Nat /\ Cardinality(A) # 0
        BY <2>1, <2>2, FS_CardinalityType, FS_EmptySet
    <2> QED
        BY <1>1, <2>1, <2>3 DEF Rank
<1>3. ASSUME NEW i \in S, NEW j \in S, Rank(S, i) = Rank(S, j) PROVE i = j
    <2>1. ~(i < j) /\ ~(j < i)
        BY <1>3, RankGrows
    <2> QED
        BY <2>1
<1>4. f \in Injection(S, 1..N)
    BY <1>2, <1>3 DEF Injection, IsInjective
<1>5. IsFiniteSet(1..N) /\ Cardinality(1..N) = N
    BY <1>1, FS_Interval
<1>6. f \in Surjection(S, 1..N)
    BY <1>4, <1>5, FS_Injection
<1>7. ASSUME NEW k \in 1..N PROVE \E i \in S : Rank(S, i) = k
    BY <1>6 DEF Surjection
<1>8. ASSUME NEW k \in 1..N PROVE Nth(S, k) \in S /\ Rank(S, Nth(S, k)) = k
    BY <1>7, <1>8 DEF Nth, Rank
<1> QED
    BY <1>1, <1>2, <1>3, <1>8

\* The k-th number is the one of rank k.
LEMMA NthIs ==
    ASSUME NEW S \in SUBSET Nat, IsFiniteSet(S), NEW i \in S
    PROVE  Nth(S, Rank(S, i)) = i
<1> DEFINE k == Rank(S, i)
<1>1. k \in 1..Cardinality(S)
    BY Ranked
<1>2. Nth(S, k) \in S /\ Rank(S, Nth(S, k)) = k
    BY <1>1, Ranked
<1> QED
    BY <1>2, Ranked

\* A set of numbers has a least one.
LEMMA LeastNumber ==
    ASSUME NEW S \in SUBSET Nat, IsFiniteSet(S), S # {}
    PROVE  Min(S) \in S /\ \A i \in S : Min(S) <= i
<1> DEFINE m == Nth(S, 1)
<1>1. Cardinality(S) \in Nat /\ Cardinality(S) # 0
    BY FS_CardinalityType, FS_EmptySet
<1>2. m \in S /\ Rank(S, m) = 1
    BY <1>1, Ranked
<1>3. ASSUME NEW i \in S PROVE m <= i
    <2>1. Rank(S, i) \in 1..Cardinality(S)
        BY Ranked
    <2>2. i \in Nat /\ m \in Nat
        BY <1>2
    <2>3. ~(i < m)
        <3> SUFFICES ASSUME i < m PROVE FALSE
            OBVIOUS
        <3>1. Rank(S, i) < Rank(S, m)
            BY <1>2, RankGrows
        <3> QED
            BY <1>2, <2>1, <3>1
    <2> HIDE DEF m
    <2> QED
        BY <2>2, <2>3
<1> QED
    BY <1>2, <1>3 DEF Min

\* Min is what its name says.
LEMMA LeastIs ==
    ASSUME NEW S \in SUBSET Nat, NEW m \in S, \A i \in S : m <= i
    PROVE  Min(S) = m
<1>1. \A y \in S : Min(S) <= y
    BY DEF Min
<1>2. Min(S) \in S
    BY DEF Min
<1> Min(S) \in Nat /\ m \in Nat
    BY <1>2
<1> QED
    BY <1>1, <1>2

\* The numbers of R, moved up by n.
Shifted(n, R) == {n + i : i \in R}

\* Numbers up to n and others above n add up.
LEMMA CardinalityOfUnion ==
    ASSUME NEW n \in Nat, NEW S \in SUBSET (1..n),
           NEW R \in SUBSET (Nat \ {0}), IsFiniteSet(R)
    PROVE  /\ S \cup Shifted(n, R) \in SUBSET Nat
           /\ IsFiniteSet(S \cup Shifted(n, R))
           /\ Cardinality(S) \in Nat /\ Cardinality(R) \in Nat
           /\ Cardinality(S \cup Shifted(n, R)) = Cardinality(S) + Cardinality(R)
<1> DEFINE g == [i \in R |-> n + i]
<1>1. IsFiniteSet(S) /\ Cardinality(S) \in Nat /\ Cardinality(R) \in Nat
    <2>1. IsFiniteSet(1..n)
        BY FS_Interval
    <2>2. IsFiniteSet(S)
        BY <2>1, FS_Subset
    <2> QED
        BY <2>2, FS_CardinalityType
<1>2. g \in Bijection(R, Shifted(n, R))
    <2>1. g \in [R -> Shifted(n, R)]
        BY DEF Shifted
    <2>2. \A i, j \in R : g[i] = g[j] => i = j
        OBVIOUS
    <2>3. \A t \in Shifted(n, R) : \E i \in R : g[i] = t
        BY DEF Shifted
    <2> QED
        BY <2>1, <2>2, <2>3 DEF Bijection, Injection, IsInjective, Surjection
<1>3. IsFiniteSet(Shifted(n, R)) /\ Cardinality(Shifted(n, R)) = Cardinality(R)
    <2>1. ExistsBijection(R, Shifted(n, R))
        BY <1>2 DEF ExistsBijection
    <2> QED
        BY <2>1, FS_Bijection
<1>4. S \cap Shifted(n, R) = {}
    BY DEF Shifted
<1>5. IsFiniteSet(S \cup Shifted(n, R))
      /\ Cardinality(S \cup Shifted(n, R))
            = Cardinality(S) + Cardinality(Shifted(n, R)) - Cardinality(S \cap Shifted(n, R))
    BY <1>1, <1>3, FS_Union
<1>6. Cardinality(S \cap Shifted(n, R)) = 0
    BY <1>4, FS_EmptySet
<1>7. S \cup Shifted(n, R) \in SUBSET Nat
    <2>1. \A t \in S : t \in Nat
        OBVIOUS
    <2>2. \A t \in Shifted(n, R) : t \in Nat
        BY DEF Shifted
    <2> QED
        BY <2>1, <2>2
<1>8. Cardinality(S \cup Shifted(n, R)) = Cardinality(S) + Cardinality(R)
    BY <1>1, <1>3, <1>5, <1>6
<1> QED
    BY <1>1, <1>5, <1>7, <1>8

\* The numbers of a set followed by those of another: they are counted one
\* set after the other.
LEMMA NthOfUnion ==
    ASSUME NEW n \in Nat, NEW S \in SUBSET (1..n),
           NEW R \in SUBSET (Nat \ {0}), IsFiniteSet(R),
           NEW T, T = S \cup Shifted(n, R)
    PROVE  /\ \A k \in 1..Cardinality(S) : Nth(T, k) = Nth(S, k) /\ Nth(S, k) \in S
           /\ \A k \in 1..Cardinality(R) :
                 Nth(T, Cardinality(S) + k) = n + Nth(R, k) /\ Nth(R, k) \in R
<1>1. IsFiniteSet(S) /\ S \in SUBSET Nat /\ R \in SUBSET Nat
    <2>1. IsFiniteSet(1..n)
        BY FS_Interval
    <2>2. IsFiniteSet(S)
        BY <2>1, FS_Subset
    <2>3. \A i \in S : i \in Nat
        OBVIOUS
    <2> QED
        BY <2>2, <2>3
<1>2. T \in SUBSET Nat /\ IsFiniteSet(T)
    BY CardinalityOfUnion
<1>3. ASSUME NEW i \in S PROVE Rank(T, i) = Rank(S, i)
    <2>1. \A h \in Shifted(n, R) : ~(h <= i)
        BY DEF Shifted
    <2>2. {h \in T : h <= i} = {h \in S : h <= i}
        BY <2>1
    <2> QED
        BY <2>2 DEF Rank
<1>4. ASSUME NEW i \in R PROVE Rank(T, n + i) = Cardinality(S) + Rank(R, i)
    <2> DEFINE B == {h \in R : h <= i}
    <2>1. B \in SUBSET (Nat \ {0}) /\ IsFiniteSet(B)
        BY FS_Subset
    <2>2. {h \in T : h <= n + i} = S \cup Shifted(n, B)
        <3>1. ASSUME NEW h \in T, h <= n + i PROVE h \in S \cup Shifted(n, B)
            <4>1. CASE h \in S
                BY <4>1
            <4>2. CASE h \in Shifted(n, R)
                <5>1. PICK j \in R : h = n + j
                    BY <4>2 DEF Shifted
                <5>2. j \in Nat /\ i \in Nat /\ j <= i
                    BY <3>1, <5>1
                <5> QED
                    BY <5>1, <5>2 DEF Shifted
            <4> QED
                BY <4>1, <4>2
        <3>2. ASSUME NEW h \in S PROVE h \in T /\ h <= n + i
            OBVIOUS
        <3>3. ASSUME NEW h \in Shifted(n, B) PROVE h \in T /\ h <= n + i
            BY DEF Shifted
        <3> QED
            BY <3>1, <3>2, <3>3
    <2>3. Cardinality(S \cup Shifted(n, B)) = Cardinality(S) + Cardinality(B)
        BY <2>1, CardinalityOfUnion
    <2> QED
        BY <2>2, <2>3 DEF Rank
<1>5. ASSUME NEW k \in 1..Cardinality(S) PROVE Nth(T, k) = Nth(S, k) /\ Nth(S, k) \in S
    <2>1. Nth(S, k) \in S /\ Rank(S, Nth(S, k)) = k
        BY <1>1, Ranked
    <2>2. Nth(S, k) \in T /\ Rank(T, Nth(S, k)) = k
        BY <2>1, <1>3
    <2> QED
        BY <1>2, <2>1, <2>2, NthIs
<1>6. ASSUME NEW k \in 1..Cardinality(R)
      PROVE  Nth(T, Cardinality(S) + k) = n + Nth(R, k) /\ Nth(R, k) \in R
    <2>1. Nth(R, k) \in R /\ Rank(R, Nth(R, k)) = k
        BY <1>1, Ranked
    <2>2. n + Nth(R, k) \in T /\ Rank(T, n + Nth(R, k)) = Cardinality(S) + k
        BY <2>1, <1>4 DEF Shifted
    <2> QED
        BY <1>2, <2>1, <2>2, NthIs
<1> QED
    BY <1>5, <1>6

-----------------------------------------------------------------------------
(* Logs                                                                    *)

\* The last line is complete.
Ended(content) == content = <<>> \/ content[Len(content)] = NL

\* Two parts of a log, joined.
LEMMA Joined ==
    ASSUME NEW a \in Seq(STRING), NEW b \in Seq(STRING)
    PROVE  /\ a \o b \in Seq(STRING) /\ Len(a \o b) = Len(a) + Len(b)
           /\ Len(a) \in Nat /\ Len(b) \in Nat
           /\ \A i \in 1..Len(a) : (a \o b)[i] = a[i]
           /\ \A i \in 1..Len(b) : (a \o b)[Len(a) + i] = b[i]
OBVIOUS

\* Prefixes are at places of the log, finitely many of them.
LEMMA PlacesInLog ==
    ASSUME NEW c \in Seq(STRING)
    PROVE  /\ PrefixesIn(c) \in SUBSET (1..Len(c))
           /\ PrefixesIn(c) \in SUBSET (Nat \ {0})
           /\ Starts(c) \in SUBSET PrefixesIn(c)
           /\ IsFiniteSet(PrefixesIn(c)) /\ IsFiniteSet(Starts(c))
<1>1. Len(c) \in Nat
    OBVIOUS
<1>2. \A i \in PrefixesIn(c) : i \in 1..Len(c) /\ i \in Nat \ {0}
    BY <1>1 DEF PrefixesIn
<1>3. Starts(c) \in SUBSET PrefixesIn(c)
    BY DEF Starts
<1>4. IsFiniteSet(1..Len(c))
    BY <1>1, FS_Interval
<1>5. IsFiniteSet(PrefixesIn(c))
    BY <1>2, <1>4, FS_Subset
<1>6. IsFiniteSet(Starts(c))
    BY <1>3, <1>5, FS_Subset
<1> QED
    BY <1>2, <1>3, <1>5, <1>6

\* A prefix stays one, whatever comes before or after.
LEMMA PrefixesKept ==
    ASSUME NEW a \in Seq(STRING), NEW b \in Seq(STRING)
    PROVE  PrefixesIn(a) \cup Shifted(Len(a), PrefixesIn(b)) \subseteq PrefixesIn(a \o b)
<1> DEFINE n == Len(a)
           c == a \o b
<1>1. c \in Seq(STRING) /\ Len(c) = n + Len(b) /\ n \in Nat /\ Len(b) \in Nat
    BY Joined
<1>2. ASSUME NEW i \in PrefixesIn(a) PROVE i \in PrefixesIn(c)
    <2>1. i \in 1..(n - 1) /\ a[i] = Prefix[1] /\ a[i + 1] = Prefix[2]
        BY DEF PrefixesIn
    <2>2. c[i] = a[i] /\ c[i + 1] = a[i + 1] /\ i \in 1..(Len(c) - 1)
        BY <1>1, <2>1, Joined
    <2> QED
        BY <2>1, <2>2 DEF PrefixesIn
<1>3. ASSUME NEW i \in PrefixesIn(b) PROVE n + i \in PrefixesIn(c)
    <2>1. i \in 1..(Len(b) - 1) /\ b[i] = Prefix[1] /\ b[i + 1] = Prefix[2]
        BY DEF PrefixesIn
    <2>2. c[n + i] = b[i] /\ c[n + (i + 1)] = b[i + 1] /\ n + i \in 1..(Len(c) - 1)
        BY <1>1, <2>1, Joined
    <2>3. n + (i + 1) = (n + i) + 1
        BY <1>1, <2>1
    <2> QED
        BY <2>1, <2>2, <2>3 DEF PrefixesIn
<1> QED
    BY <1>2, <1>3 DEF Shifted

\* Nothing but these are prefixes, if the first part ends with a line.
LEMMA PrefixesJoined ==
    ASSUME NEW a \in Seq(STRING), NEW b \in Seq(STRING), Ended(a)
    PROVE  PrefixesIn(a \o b) = PrefixesIn(a) \cup Shifted(Len(a), PrefixesIn(b))
<1> DEFINE n == Len(a)
           c == a \o b
<1>1. c \in Seq(STRING) /\ Len(c) = n + Len(b) /\ n \in Nat /\ Len(b) \in Nat
    BY Joined
<1>2. ASSUME NEW i \in PrefixesIn(c) PROVE i \in PrefixesIn(a) \cup Shifted(n, PrefixesIn(b))
    <2>1. i \in 1..(Len(c) - 1) /\ c[i] = Prefix[1] /\ c[i + 1] = Prefix[2]
        BY DEF PrefixesIn
    <2>2. CASE i < n
        <3>1. c[i] = a[i] /\ c[i + 1] = a[i + 1] /\ i \in 1..(n - 1)
            BY <1>1, <2>1, <2>2, Joined
        <3> QED
            BY <2>1, <3>1 DEF PrefixesIn
    <2>3. CASE i = n
        <3>1. a # <<>> /\ n \in 1..n
            BY <1>1, <2>1, <2>3
        <3>2. c[n] = NL
            BY <3>1, Joined DEF Ended
        <3>3. Prefix[1] # NL
            BY DEF Prefix, NL
        <3> QED
            BY <2>1, <2>3, <3>2, <3>3
    <2>4. CASE n < i
        <3> DEFINE j == i - n
        <3>1. j \in 1..(Len(b) - 1) /\ i = n + j /\ i + 1 = n + (j + 1)
            BY <1>1, <2>1, <2>4
        <3>2. c[n + j] = b[j] /\ c[n + (j + 1)] = b[j + 1]
            BY <1>1, <3>1, Joined
        <3>3. j \in PrefixesIn(b)
            BY <2>1, <3>1, <3>2 DEF PrefixesIn
        <3> QED
            BY <3>1, <3>3 DEF Shifted
    <2> QED
        BY <1>1, <2>1, <2>2, <2>3, <2>4
<1> QED
    BY <1>2, PrefixesKept

\* What is on one line stays on one.
LEMMA OneLineKept ==
    ASSUME NEW a \in Seq(STRING), NEW b \in Seq(STRING)
    PROVE  /\ \A i, j \in 1..Len(a) : OneLine(a \o b, i, j) <=> OneLine(a, i, j)
           /\ \A i, j \in 1..Len(b) :
                 OneLine(a \o b, Len(a) + i, Len(a) + j) <=> OneLine(b, i, j)
<1> DEFINE n == Len(a)
           c == a \o b
<1>1. n \in Nat /\ Len(b) \in Nat
    BY Joined
<1>2. ASSUME NEW i \in 1..n, NEW j \in 1..n PROVE OneLine(c, i, j) <=> OneLine(a, i, j)
    <2>1. \A m \in i..j : c[m] = a[m]
        BY <1>1, Joined
    <2> QED
        BY <2>1 DEF OneLine
<1>3. ASSUME NEW i \in 1..Len(b), NEW j \in 1..Len(b)
      PROVE  OneLine(c, n + i, n + j) <=> OneLine(b, i, j)
    <2>1. \A m \in i..j : c[n + m] = b[m] /\ n + m \in (n + i)..(n + j)
        BY <1>1, Joined
    <2>2. \A m \in (n + i)..(n + j) : m - n \in i..j /\ n + (m - n) = m
        BY <1>1
    <2>3. ASSUME OneLine(b, i, j), NEW m \in (n + i)..(n + j) PROVE c[m] # NL
        <3> DEFINE k == m - n
        <3>1. k \in i..j /\ n + k = m
            BY <2>2
        <3>2. c[n + k] = b[k]
            BY <2>1, <3>1
        <3> QED
            BY <2>3, <3>1, <3>2 DEF OneLine
    <2>4. ASSUME OneLine(c, n + i, n + j), NEW m \in i..j PROVE b[m] # NL
        BY <2>1, <2>4 DEF OneLine
    <2> QED
        BY <2>3, <2>4 DEF OneLine
<1> QED
    BY <1>2, <1>3

\* The lines that are printed are those of the two parts.
LEMMA StartsJoined ==
    ASSUME NEW a \in Seq(STRING), NEW b \in Seq(STRING), Ended(a)
    PROVE  Starts(a \o b) = Starts(a) \cup Shifted(Len(a), Starts(b))
<1> DEFINE n == Len(a)
           c == a \o b
           P(s) == PrefixesIn(s)
<1>1. n \in Nat /\ Len(b) \in Nat
    BY Joined
<1>2. P(c) = P(a) \cup Shifted(n, P(b)) /\ P(a) \in SUBSET (1..n) /\ P(b) \in SUBSET (1..Len(b))
    BY PrefixesJoined, PlacesInLog
<1>3. ASSUME NEW i \in P(a) PROVE i \in Starts(c) <=> i \in Starts(a)
    <2>1. ASSUME NEW h \in P(c), h < i PROVE h \in P(a) /\ (OneLine(c, h, i) <=> OneLine(a, h, i))
        <3>1. h \in P(a)
            BY <1>1, <1>2, <2>1 DEF Shifted
        <3>2. h \in 1..n /\ i \in 1..n
            BY <1>2, <3>1
        <3> QED
            BY <3>1, <3>2, OneLineKept
    <2>2. i \in P(c) /\ P(a) \subseteq P(c)
        BY <1>2
    <2> QED
        BY <2>1, <2>2 DEF Starts
<1>4. ASSUME NEW i \in P(b) PROVE n + i \in Starts(c) <=> i \in Starts(b)
    <2>1. n + i \in P(c) /\ i \in 1..Len(b)
        BY <1>2 DEF Shifted
    <2>2. ASSUME NEW h \in P(a) PROVE ~OneLine(c, h, n + i)
        <3>1. n \in h..(n + i) /\ n \in 1..n
            BY <1>1, <1>2, <2>1
        <3>2. c[n] = a[n] /\ a[n] = NL
            BY <1>2, <3>1, Joined DEF Ended
        <3> QED
            BY <3>1, <3>2 DEF OneLine
    <2>3. ASSUME NEW h \in P(b)
          PROVE  /\ n + h \in P(c) /\ (n + h < n + i <=> h < i)
                 /\ OneLine(c, n + h, n + i) <=> OneLine(b, h, i)
        <3>1. h \in 1..Len(b)
            BY <1>2
        <3> QED
            BY <1>1, <1>2, <2>1, <3>1, OneLineKept DEF Shifted
    <2>4. ASSUME NEW h \in P(c), h \notin P(a) PROVE \E g \in P(b) : h = n + g
        BY <1>2, <2>4 DEF Shifted
    <2>5. ASSUME i \in Starts(b), NEW h \in P(c), h < n + i PROVE ~OneLine(c, h, n + i)
        <3>1. CASE h \in P(a)
            BY <2>2, <3>1
        <3>2. CASE h \notin P(a)
            <4>1. PICK g \in P(b) : h = n + g
                BY <2>4, <3>2
            <4> QED
                BY <2>3, <2>5, <4>1 DEF Starts
        <3> QED
            BY <3>1, <3>2
    <2>6. ASSUME n + i \in Starts(c), NEW h \in P(b), h < i PROVE ~OneLine(b, h, i)
        BY <2>3, <2>6 DEF Starts
    <2> QED
        BY <2>1, <2>5, <2>6 DEF Starts
<1>5. ASSUME NEW i \in Starts(c) PROVE i \in Starts(a) \cup Shifted(n, Starts(b))
    <2>1. i \in P(c)
        BY DEF Starts
    <2>2. CASE i \in P(a)
        BY <1>3, <2>2
    <2>3. CASE i \in Shifted(n, P(b))
        <3>1. PICK j \in P(b) : i = n + j
            BY <2>3 DEF Shifted
        <3> QED
            BY <1>4, <3>1 DEF Shifted
    <2> QED
        BY <1>2, <2>1, <2>2, <2>3
<1>6. ASSUME NEW i \in Starts(a) PROVE i \in Starts(c)
    BY <1>3 DEF Starts
<1>7. ASSUME NEW i \in Shifted(n, Starts(b)) PROVE i \in Starts(c)
    BY <1>4 DEF Starts, Shifted
<1> QED
    BY <1>5, <1>6, <1>7

\* Where a message can end.
Ends(platform, content, i) ==
    {j \in i..Len(content) :
        \/ content[j] = NL
        \/ platform = "android" /\ content[j] = Source} \cup {Len(content) + 1}

\* A message begins after the prefix and ends on its line.
LEMMA MessageEnds ==
    ASSUME NEW c \in Seq(STRING), NEW i \in PrefixesIn(c), NEW p,
           NEW e, e = normalizeLogMessage(p, c, i)
    PROVE  /\ e \in Ends(p, c, i) /\ \A j \in Ends(p, c, i) : e <= j
           /\ e \in (i + 2)..(Len(c) + 1)
           /\ OneLine(c, i, e - 1)
<1> DEFINE E == Ends(p, c, i)
<1>1. Len(c) \in Nat /\ i \in 1..(Len(c) - 1) /\ c[i] = Prefix[1] /\ c[i + 1] = Prefix[2]
    BY DEF PrefixesIn
<1>2. e = Min(E)
    BY DEF normalizeLogMessage, Ends
<1>3. \A j \in E : j \in i..(Len(c) + 1) /\ j \in Nat
    BY <1>1 DEF Ends
<1>4. E \in SUBSET Nat /\ IsFiniteSet(E) /\ E # {}
    <2>1. IsFiniteSet(i..(Len(c) + 1))
        BY <1>1, FS_Interval
    <2>2. IsFiniteSet(E)
        BY <1>3, <2>1, FS_Subset
    <2>3. E # {}
        BY DEF Ends
    <2> QED
        BY <1>3, <2>2, <2>3
<1>5. e \in E /\ \A j \in E : e <= j
    BY <1>2, <1>4, LeastNumber
<1>6. e # i /\ e # i + 1
    <2>0. Prefix[1] \notin {NL, Source} /\ Prefix[2] \notin {NL, Source}
        BY DEF Prefix, NL, Source
    <2>1. i \notin E
        BY <1>1, <2>0 DEF Ends
    <2>2. i + 1 \notin E
        BY <1>1, <2>0 DEF Ends
    <2> QED
        BY <1>5, <2>1, <2>2
<1>7. e \in (i + 2)..(Len(c) + 1)
    BY <1>1, <1>3, <1>5, <1>6
<1>8. ASSUME NEW m \in i..(e - 1) PROVE c[m] # NL
    <2>1. m \in i..Len(c) /\ ~(e <= m)
        BY <1>1, <1>7
    <2> QED
        BY <1>5, <2>1 DEF Ends
<1> QED
    BY <1>5, <1>7, <1>8 DEF OneLine

\* A message ends at the first place where it can end.
LEMMA EndIs ==
    ASSUME NEW c \in Seq(STRING), NEW i \in PrefixesIn(c), NEW p,
           NEW e \in Ends(p, c, i), \A j \in Ends(p, c, i) : e <= j
    PROVE  normalizeLogMessage(p, c, i) = e
<1>1. Len(c) \in Nat /\ i \in 1..Len(c)
    BY PlacesInLog
<1>2. Ends(p, c, i) \in SUBSET Nat
    BY <1>1 DEF Ends
<1>3. Min(Ends(p, c, i)) = e
    BY <1>2, LeastIs
<1> QED
    BY <1>3 DEF normalizeLogMessage, Ends

\* Two logs with the same atoms from x to y.
LEMMA SameBeginning ==
    ASSUME NEW b \in Seq(STRING), NEW c \in Seq(STRING),
           NEW x \in Nat, NEW y \in Int, x <= y + 1,
           \A k \in x..y : c[k] = b[k]
    PROVE  SubSeq(c, x, y) = SubSeq(b, x, y)
<1> DEFINE m == y - x + 1
<1>1. m \in Nat
    OBVIOUS
<1>2. SubSeq(b, x, y) = [k \in 1..m |-> b[x + k - 1]]
    OBVIOUS
<1>3. SubSeq(c, x, y) = [k \in 1..m |-> c[x + k - 1]]
    OBVIOUS
<1>4. ASSUME NEW k \in 1..m PROVE c[x + k - 1] = b[x + k - 1]
    <2>1. x + k - 1 \in x..y
        BY <1>1
    <2> QED
        BY <2>1
<1> QED
    BY <1>2, <1>3, <1>4

\* Two logs with the same atoms from x to y, n places apart.
LEMMA SamePart ==
    ASSUME NEW b \in Seq(STRING), NEW c \in Seq(STRING), NEW n \in Nat,
           NEW x \in Nat, NEW y \in Int, x <= y + 1,
           \A k \in x..y : c[n + k] = b[k]
    PROVE  SubSeq(c, n + x, n + y) = SubSeq(b, x, y)
<1> DEFINE m == y - x + 1
<1>1. m \in Nat /\ m = (n + y) - (n + x) + 1
    OBVIOUS
<1>2. SubSeq(b, x, y) = [k \in 1..m |-> b[x + k - 1]]
    OBVIOUS
<1>3. SubSeq(c, n + x, n + y) = [k \in 1..m |-> c[n + x + k - 1]]
    BY <1>1
<1>4. ASSUME NEW k \in 1..m PROVE c[n + x + k - 1] = b[x + k - 1]
    <2>1. x + k - 1 \in x..y /\ n + (x + k - 1) = n + x + k - 1
        BY <1>1
    <2> QED
        BY <2>1
<1> QED
    BY <1>2, <1>3, <1>4

\* A message of the first part is the same, if that part ends with a line.
LEMMA MessageKept ==
    ASSUME NEW a \in Seq(STRING), NEW b \in Seq(STRING), Ended(a),
           NEW p, NEW i \in PrefixesIn(a)
    PROVE  Message(p, a \o b, i) = Message(p, a, i)
<1> DEFINE n == Len(a)
           c == a \o b
           e == normalizeLogMessage(p, a, i)
<1>1. c \in Seq(STRING) /\ Len(c) = n + Len(b) /\ n \in Nat /\ Len(b) \in Nat
    BY Joined
<1>2. /\ i \in 1..n /\ i \in PrefixesIn(c)
      /\ e \in Ends(p, a, i) /\ \A j \in Ends(p, a, i) : e <= j
      /\ e \in (i + 2)..(n + 1)
    BY PlacesInLog, PrefixesKept, MessageEnds
<1>3. c[n] = NL /\ a[n] = NL /\ n \in 1..n
    <2>1. a # <<>> /\ n \in 1..n
        BY <1>1, <1>2
    <2> QED
        BY <2>1, Joined DEF Ended
<1>4. e \in 1..n
    <2>1. n \in Ends(p, a, i)
        BY <1>1, <1>2, <1>3 DEF Ends
    <2> QED
        BY <1>1, <1>2, <2>1
<1>5. e \in Ends(p, c, i)
    <2>1. c[e] = a[e]
        BY <1>4, Joined
    <2> QED
        BY <1>1, <1>2, <1>4, <2>1 DEF Ends
<1>6. ASSUME NEW j \in Ends(p, c, i) PROVE e <= j
    <2>1. j \in i..(Len(c) + 1) /\ j \in Nat
        BY <1>1, <1>2 DEF Ends
    <2>2. CASE j <= n
        <3>1. c[j] = a[j] /\ j \in i..n /\ j # Len(c) + 1
            BY <1>1, <1>2, <2>1, <2>2, Joined
        <3>2. j \in Ends(p, a, i)
            BY <3>1 DEF Ends
        <3> QED
            BY <1>2, <3>2
    <2>3. CASE ~(j <= n)
        BY <1>1, <1>4, <2>1, <2>3
    <2> QED
        BY <2>2, <2>3
<1>7. normalizeLogMessage(p, c, i) = e
    BY <1>1, <1>2, <1>5, <1>6, EndIs
<1>8. SubSeq(c, i + 2, e - 1) = SubSeq(a, i + 2, e - 1)
    <2>1. \A k \in (i + 2)..(e - 1) : c[k] = a[k]
        BY <1>1, <1>2, <1>4, Joined
    <2>2. i + 2 \in Nat /\ e - 1 \in Int /\ i + 2 <= (e - 1) + 1
        BY <1>2, <1>4
    <2> HIDE DEF c, e
    <2> QED
        BY <1>1, <2>1, <2>2, SameBeginning
<1> QED
    BY <1>7, <1>8 DEF Message

\* A message of the second part is the same, whatever the first one is.
LEMMA MessageShifted ==
    ASSUME NEW a \in Seq(STRING), NEW b \in Seq(STRING), NEW p, NEW i \in PrefixesIn(b)
    PROVE  Message(p, a \o b, Len(a) + i) = Message(p, b, i)
<1> DEFINE n == Len(a)
           c == a \o b
           e == normalizeLogMessage(p, b, i)
<1>1. c \in Seq(STRING) /\ Len(c) = n + Len(b) /\ n \in Nat /\ Len(b) \in Nat
    BY Joined
<1>2. /\ i \in 1..Len(b)
      /\ e \in Ends(p, b, i) /\ \A j \in Ends(p, b, i) : e <= j
      /\ e \in (i + 2)..(Len(b) + 1)
    BY PlacesInLog, MessageEnds
<1>3. n + i \in PrefixesIn(c)
    BY PrefixesKept DEF Shifted
<1>4. n + e \in Ends(p, c, n + i)
    <2>1. CASE e = Len(b) + 1
        BY <1>1, <2>1 DEF Ends
    <2>2. CASE e # Len(b) + 1
        <3>1. e \in 1..Len(b) /\ c[n + e] = b[e]
            BY <1>1, <1>2, <2>2, Joined
        <3>2. n + e \in (n + i)..Len(c)
            BY <1>1, <1>2, <3>1
        <3> QED
            BY <1>2, <2>2, <3>1, <3>2 DEF Ends
    <2> QED
        BY <2>1, <2>2
<1>5. ASSUME NEW j \in Ends(p, c, n + i) PROVE n + e <= j
    <2> DEFINE k == j - n
    <2>1. j \in (n + i)..(Len(c) + 1) /\ k \in i..(Len(b) + 1) /\ n + k = j
        BY <1>1, <1>2 DEF Ends
    <2>2. k \in Ends(p, b, i)
        <3>1. CASE j = Len(c) + 1
            BY <1>1, <3>1 DEF Ends
        <3>2. CASE j # Len(c) + 1
            <4>1. k \in i..Len(b)
                BY <1>1, <2>1, <3>2
            <4>2. c[n + k] = b[k]
                BY <1>1, <1>2, <4>1, Joined
            <4> QED
                BY <2>1, <3>2, <4>1, <4>2 DEF Ends
        <3> QED
            BY <3>1, <3>2
    <2>3. e <= k
        BY <1>2, <2>2
    <2> QED
        BY <1>1, <1>2, <2>1, <2>3
<1>6. normalizeLogMessage(p, c, n + i) = n + e
    BY <1>1, <1>3, <1>4, <1>5, EndIs
<1>7. SubSeq(c, (n + i) + 2, (n + e) - 1) = SubSeq(b, i + 2, e - 1)
    <2>1. \A k \in (i + 2)..(e - 1) : c[n + k] = b[k]
        BY <1>1, <1>2, Joined
    <2>2. (n + i) + 2 = n + (i + 2) /\ (n + e) - 1 = n + (e - 1)
        BY <1>1, <1>2
    <2>3. SubSeq(c, n + (i + 2), n + (e - 1)) = SubSeq(b, i + 2, e - 1)
        BY <1>1, <1>2, <2>1, SamePart
    <2> QED
        BY <2>2, <2>3
<1> QED
    BY <1>6, <1>7 DEF Message

\* As many messages as there are lines with a prefix.
LEMMA OutputType ==
    ASSUME NEW c \in Seq(STRING), NEW p
    PROVE  /\ processLogData(p, c) \in Seq(Seq(STRING))
           /\ Len(processLogData(p, c)) = Cardinality(Starts(c))
           /\ Cardinality(Starts(c)) \in Nat
<1> DEFINE N == Cardinality(Starts(c))
<1>1. Starts(c) \in SUBSET Nat /\ Starts(c) \in SUBSET PrefixesIn(c) /\ IsFiniteSet(Starts(c))
    BY PlacesInLog
<1>2. N \in Nat /\ \A k \in 1..N : Nth(Starts(c), k) \in Starts(c)
    BY <1>1, Ranked
<1>3. ASSUME NEW i \in PrefixesIn(c) PROVE Message(p, c, i) \in Seq(STRING)
    <2> DEFINE e == normalizeLogMessage(p, c, i)
    <2>1. e \in (i + 2)..(Len(c) + 1) /\ i \in 1..Len(c) /\ Len(c) \in Nat
        BY PlacesInLog, MessageEnds
    <2> HIDE DEF e
    <2>2. SubSeq(c, i + 2, e - 1) \in Seq(STRING)
        BY <2>1
    <2> QED
        BY <2>2 DEF Message, e
<1>4. \A k \in 1..N : Message(p, c, Nth(Starts(c), k)) \in Seq(STRING)
    BY <1>1, <1>2, <1>3
<1> QED
    BY <1>2, <1>4 DEF processLogData

\* Nothing is printed of an empty log.
LEMMA NothingOfNothing ==
    ASSUME NEW p
    PROVE  processLogData(p, <<>>) = <<>> /\ PrefixesIn(<<>>) = {}
<1>1. <<>> \in Seq(STRING) /\ Len(<<>>) = 0
    OBVIOUS
<1>2. PrefixesIn(<<>>) = {}
    BY DEF PrefixesIn
<1>3. Starts(<<>>) = {}
    BY <1>2 DEF Starts
<1>4. Cardinality(Starts(<<>>)) = 0
    BY <1>3, FS_EmptySet
<1>5. processLogData(p, <<>>) \in Seq(Seq(STRING)) /\ Len(processLogData(p, <<>>)) = 0
    BY <1>1, <1>4, OutputType
<1> QED
    BY <1>2, <1>5

\* What two sequences joined are, element by element.
LEMMA JoinedIs ==
    ASSUME NEW T, NEW X \in Seq(T), NEW Y \in Seq(T), NEW Z \in Seq(T),
           Len(Z) = Len(X) + Len(Y),
           \A k \in 1..Len(X) : Z[k] = X[k],
           \A k \in 1..Len(Y) : Z[Len(X) + k] = Y[k]
    PROVE  Z = X \o Y
<1>1. Len(X) \in Nat /\ Len(Y) \in Nat /\ X \o Y \in Seq(T) /\ Len(X \o Y) = Len(X) + Len(Y)
    OBVIOUS
<1>2. ASSUME NEW k \in 1..Len(Z) PROVE Z[k] = (X \o Y)[k]
    <2>1. CASE k \in 1..Len(X)
        BY <1>1, <2>1
    <2>2. CASE k \notin 1..Len(X)
        <3> DEFINE m == k - Len(X)
        <3>1. m \in 1..Len(Y) /\ Len(X) + m = k
            BY <1>1, <2>2
        <3>2. Z[Len(X) + m] = Y[m]
            BY <3>1
        <3>3. (X \o Y)[k] = Y[m]
            BY <1>1, <2>2, <3>1
        <3> QED
            BY <3>1, <3>2, <3>3
    <2> QED
        BY <2>1, <2>2
<1> QED
    BY <1>1, <1>2, SeqEqual

\* After whole lines, a chunk is printed as it would be in one piece with them.
LEMMA OutputJoined ==
    ASSUME NEW a \in Seq(STRING), NEW b \in Seq(STRING), Ended(a), NEW p
    PROVE  processLogData(p, a \o b) = processLogData(p, a) \o processLogData(p, b)
<1> DEFINE n == Len(a)
           c == a \o b
           A == Cardinality(Starts(a))
           B == Cardinality(Starts(b))
           X == processLogData(p, a)
           Y == processLogData(p, b)
           Z == processLogData(p, c)
<1>1. c \in Seq(STRING) /\ n \in Nat
    BY Joined
<1>2. /\ X \in Seq(Seq(STRING)) /\ Len(X) = A /\ A \in Nat
      /\ Y \in Seq(Seq(STRING)) /\ Len(Y) = B /\ B \in Nat
      /\ Z \in Seq(Seq(STRING)) /\ Len(Z) = Cardinality(Starts(c))
    BY <1>1, OutputType
<1>3. /\ Starts(a) \in SUBSET (1..n) /\ Starts(a) \in SUBSET PrefixesIn(a)
      /\ Starts(b) \in SUBSET (Nat \ {0}) /\ Starts(b) \in SUBSET PrefixesIn(b)
      /\ IsFiniteSet(Starts(b))
    BY PlacesInLog
<1>4. Starts(c) = Starts(a) \cup Shifted(n, Starts(b))
    BY StartsJoined
<1>5. Len(Z) = A + B
    <2>1. Cardinality(Starts(a) \cup Shifted(n, Starts(b))) = A + B
        BY <1>1, <1>3, CardinalityOfUnion
    <2> QED
        BY <1>2, <1>4, <2>1
<1>6. ASSUME NEW k \in 1..A PROVE Z[k] = X[k]
    <2>1. Nth(Starts(c), k) = Nth(Starts(a), k) /\ Nth(Starts(a), k) \in PrefixesIn(a)
        <3>1. Nth(Starts(c), k) = Nth(Starts(a), k) /\ Nth(Starts(a), k) \in Starts(a)
            BY <1>1, <1>3, <1>4, NthOfUnion
        <3> QED
            BY <1>3, <3>1
    <2>2. Message(p, c, Nth(Starts(a), k)) = Message(p, a, Nth(Starts(a), k))
        BY <2>1, MessageKept
    <2>3. X[k] = Message(p, a, Nth(Starts(a), k))
        BY DEF processLogData
    <2>4. k \in 1..Cardinality(Starts(c))
        BY <1>2, <1>5
    <2>5. Z[k] = Message(p, c, Nth(Starts(c), k))
        BY <2>4 DEF processLogData
    <2> QED
        BY <2>1, <2>2, <2>3, <2>5
<1>7. ASSUME NEW k \in 1..B PROVE Z[A + k] = Y[k]
    <2>1. Nth(Starts(c), A + k) = n + Nth(Starts(b), k) /\ Nth(Starts(b), k) \in PrefixesIn(b)
        <3>1. Nth(Starts(c), A + k) = n + Nth(Starts(b), k) /\ Nth(Starts(b), k) \in Starts(b)
            BY <1>1, <1>3, <1>4, NthOfUnion
        <3> QED
            BY <1>3, <3>1
    <2>2. Message(p, c, n + Nth(Starts(b), k)) = Message(p, b, Nth(Starts(b), k))
        BY <2>1, MessageShifted
    <2>3. Y[k] = Message(p, b, Nth(Starts(b), k))
        BY DEF processLogData
    <2>4. A + k \in 1..Cardinality(Starts(c))
        BY <1>2, <1>5
    <2>5. Z[A + k] = Message(p, c, Nth(Starts(c), A + k))
        BY <2>4 DEF processLogData
    <2> QED
        BY <2>1, <2>2, <2>3, <2>5
<1> HIDE DEF A, B, X, Y, Z
<1>8. Len(Z) = Len(X) + Len(Y)
    BY <1>2, <1>5
<1>9. (\A k \in 1..Len(X) : Z[k] = X[k]) /\ (\A k \in 1..Len(Y) : Z[Len(X) + k] = Y[k])
    BY <1>2, <1>6, <1>7
<1>10. Z = X \o Y
    BY <1>2, <1>8, <1>9, JoinedIs
<1> QED
    BY <1>10 DEF X, Y, Z

\* There are no more messages than prefixes, and prefixes add up.
LEMMA OutputBounded ==
    ASSUME NEW a \in Seq(STRING), NEW b \in Seq(STRING), NEW p
    PROVE  /\ Cardinality(PrefixesIn(a)) \in Nat /\ Cardinality(PrefixesIn(a \o b)) \in Nat
           /\ Cardinality(PrefixesIn(a)) + Len(processLogData(p, b))
                 <= Cardinality(PrefixesIn(a \o b))
<1> DEFINE n == Len(a)
           c == a \o b
           U == PrefixesIn(a) \cup Shifted(n, PrefixesIn(b))
<1>1. c \in Seq(STRING) /\ n \in Nat
    BY Joined
<1>2. /\ PrefixesIn(a) \in SUBSET (1..n)
      /\ PrefixesIn(b) \in SUBSET (Nat \ {0}) /\ IsFiniteSet(PrefixesIn(b))
      /\ Starts(b) \in SUBSET PrefixesIn(b)
      /\ IsFiniteSet(PrefixesIn(c))
    BY <1>1, PlacesInLog
<1>3. /\ Cardinality(PrefixesIn(a)) \in Nat /\ Cardinality(PrefixesIn(b)) \in Nat
      /\ Cardinality(U) = Cardinality(PrefixesIn(a)) + Cardinality(PrefixesIn(b))
    BY <1>1, <1>2, CardinalityOfUnion
<1>4. Cardinality(PrefixesIn(c)) \in Nat
    BY <1>2, FS_CardinalityType
<1>5. U \in SUBSET PrefixesIn(c)
    BY PrefixesKept
<1>6. Cardinality(U) <= Cardinality(PrefixesIn(c))
    BY <1>2, <1>5, FS_Subset
<1>7. Cardinality(Starts(b)) <= Cardinality(PrefixesIn(b))
    BY <1>2, FS_Subset
<1>8. Len(processLogData(p, b)) = Cardinality(Starts(b)) /\ Cardinality(Starts(b)) \in Nat
    BY OutputType
<1> HIDE DEF U, c
<1>9. Cardinality(PrefixesIn(a)) + Len(processLogData(p, b)) <= Cardinality(PrefixesIn(c))
    BY <1>3, <1>4, <1>6, <1>7, <1>8
<1> QED
    BY <1>3, <1>4, <1>9 DEF c

\* What is printed of a chunk follows a prefix in it.
LEMMA OutputFollows ==
    ASSUME NEW c \in Seq(STRING), NEW p, NEW k \in DOMAIN processLogData(p, c)
    PROVE  FollowsPrefix(c, processLogData(p, c)[k])
<1> DEFINE i == Nth(Starts(c), k)
           e == normalizeLogMessage(p, c, i)
<1>1. Starts(c) \in SUBSET Nat /\ Starts(c) \in SUBSET PrefixesIn(c) /\ IsFiniteSet(Starts(c))
    BY PlacesInLog
<1>2. k \in 1..Cardinality(Starts(c)) /\ processLogData(p, c)[k] = Message(p, c, i)
    BY DEF processLogData
<1>3. i \in PrefixesIn(c)
    BY <1>1, <1>2, Ranked
<1>4. i \in 1..Len(c) /\ Len(c) \in Nat /\ e \in (i + 2)..(Len(c) + 1) /\ OneLine(c, i, e - 1)
    BY <1>3, PlacesInLog, MessageEnds
<1>5. e - 1 \in (i + 1)..Len(c)
    BY <1>4
<1>6. Message(p, c, i) = SubSeq(c, i + Len(Prefix), e - 1)
    BY DEF Message, Prefix
<1> QED
    BY <1>2, <1>3, <1>4, <1>5, <1>6 DEF FollowsPrefix

\* It still does when more has been read, or something was read before.
LEMMA FollowsStill ==
    ASSUME NEW a \in Seq(STRING), NEW b \in Seq(STRING), NEW text
    PROVE  /\ FollowsPrefix(a, text) => FollowsPrefix(a \o b, text)
           /\ FollowsPrefix(b, text) => FollowsPrefix(a \o b, text)
<1> DEFINE n == Len(a)
           c == a \o b
<1>1. c \in Seq(STRING) /\ Len(c) = n + Len(b) /\ n \in Nat /\ Len(b) \in Nat
    BY Joined
<1>2. Len(Prefix) = 2
    BY DEF Prefix
<1>3. ASSUME FollowsPrefix(a, text) PROVE FollowsPrefix(c, text)
    <2>1. PICK i \in PrefixesIn(a) : \E j \in (i + 1)..n :
              text = SubSeq(a, i + 2, j) /\ OneLine(a, i, j)
        BY <1>2, <1>3 DEF FollowsPrefix
    <2>2. PICK j \in (i + 1)..n : text = SubSeq(a, i + 2, j) /\ OneLine(a, i, j)
        BY <2>1
    <2>3. i \in 1..n /\ j \in 1..n /\ i \in PrefixesIn(c)
        BY <1>1, <2>1, <2>2, PlacesInLog, PrefixesKept
    <2>4. OneLine(c, i, j)
        BY <2>2, <2>3, OneLineKept
    <2>5. \A k \in (i + 2)..j : c[k] = a[k]
        BY <1>1, <2>3, Joined
    <2>6. i + 2 \in Nat /\ j \in Int /\ i + 2 <= j + 1
        BY <2>2, <2>3
    <2>7. text = SubSeq(c, i + 2, j)
        <3> HIDE DEF c
        <3>1. SubSeq(c, i + 2, j) = SubSeq(a, i + 2, j)
            BY <1>1, <2>5, <2>6, SameBeginning
        <3> QED
            BY <2>2, <3>1
    <2>8. j \in (i + 1)..Len(c)
        BY <1>1, <2>1, <2>2, <2>3
    <2> QED
        BY <1>2, <2>3, <2>4, <2>7, <2>8 DEF FollowsPrefix
<1>4. ASSUME FollowsPrefix(b, text) PROVE FollowsPrefix(c, text)
    <2>1. PICK i \in PrefixesIn(b) : \E j \in (i + 1)..Len(b) :
              text = SubSeq(b, i + 2, j) /\ OneLine(b, i, j)
        BY <1>2, <1>4 DEF FollowsPrefix
    <2>2. PICK j \in (i + 1)..Len(b) : text = SubSeq(b, i + 2, j) /\ OneLine(b, i, j)
        BY <2>1
    <2>3. i \in 1..Len(b) /\ j \in 1..Len(b) /\ n + i \in PrefixesIn(c)
        BY <1>1, <2>1, <2>2, PlacesInLog, PrefixesKept DEF Shifted
    <2>4. OneLine(c, n + i, n + j)
        BY <2>2, <2>3, OneLineKept
    <2>5. \A k \in (i + 2)..j : c[n + k] = b[k]
        BY <1>1, <2>3, Joined
    <2>6. i + 2 \in Nat /\ j \in Int /\ i + 2 <= j + 1 /\ n + (i + 2) = (n + i) + 2
        BY <1>1, <2>2, <2>3
    <2>7. text = SubSeq(c, (n + i) + 2, n + j)
        <3> HIDE DEF c, n
        <3>1. SubSeq(c, n + (i + 2), n + j) = SubSeq(b, i + 2, j)
            BY <1>1, <2>5, <2>6, SamePart
        <3> QED
            BY <2>2, <2>6, <3>1
    <2>8. n + j \in ((n + i) + 1)..Len(c)
        BY <1>1, <2>1, <2>2, <2>3
    <2> QED
        BY <1>2, <2>3, <2>4, <2>7, <2>8 DEF FollowsPrefix
<1> QED
    BY <1>3, <1>4
=============================================================================
