-------------------------- MODULE ServiceDeployProofs --------------------------
(* Theorems about ServiceDeploy, for every set of pushes and releases.     *)
EXTENDS ServiceDeploy, FiniteSetTheorems, WellFoundedInduction, TLAPS

\* A nonempty set of numbers up to n has a largest member: nextVersion's `tail -1`.
LEMMA Maximum ==
  ASSUME NEW n \in Nat, NEW S \in SUBSET (1 .. n), S # {}
  PROVE  \E m \in S : \A k \in S : k <= m
<1> DEFINE T == {u \in Nat : \A k \in S : k <= u}
<1> DEFINE R == OpToRel(<, Nat)
<1>1. T \subseteq Nat /\ T # {}
  OBVIOUS
<1>2. \E m \in T : \A u \in T : ~(<<u, m>> \in R)
  <2>1. IsWellFoundedOn(R, Nat)
    BY NatLessThanWellFounded
  <2> HIDE DEF T, R
  <2> QED  BY <1>1, <2>1, WFMin
<1>3. PICK m \in T : \A u \in T : ~(u < m)
  <2>1. \A u, m \in Nat : <<u, m>> \in R <=> u < m
    BY DEF OpToRel
  <2> HIDE DEF R
  <2> QED  BY <1>1, <1>2, <2>1
<1>4. ASSUME m \notin S
      PROVE  FALSE
  <2>1. m \in Nat /\ \A k \in S : k \in Int /\ 1 <= k /\ k < m
    BY <1>4, <1>3
  <2>2. m # 0
    <3>1. PICK k \in S : TRUE
      OBVIOUS
    <3> QED  BY <2>1, <3>1
  <2>3. m - 1 \in T
    BY <2>1, <2>2
  <2> QED  BY <2>1, <2>3, <1>3
<1> QED  BY <1>4, <1>3

\* nextVersion returns 1 for an empty listing, and otherwise a number whose
\* predecessor is in the listing and which is above everything listed.
LEMMA NextVersionIsFresh ==
  ASSUME NEW n \in Nat, NEW S \in SUBSET (1 .. n)
  PROVE  /\ NextVersion(S) = 1 \/ NextVersion(S) - 1 \in S
         /\ NextVersion(S) \in Nat \ {0}
         /\ \A v \in S : v < NextVersion(S)
<1>1. CASE S = {}
  BY <1>1 DEF NextVersion
<1>2. CASE S # {}
  <2> DEFINE m == CHOOSE v \in S : \A w \in S : w <= v
  <2>1. m \in S /\ \A w \in S : w <= m
    BY <1>2, Maximum
  <2>2. NextVersion(S) = 1 + m
    BY <1>2 DEF NextVersion
  <2> HIDE DEF m
  <2>3. m \in Nat \ {0} /\ \A w \in S : w \in Nat
    BY <2>1
  <2> QED  BY <2>1, <2>2, <2>3
<1> QED  BY <1>1, <1>2

-------------------------------------------------------------------------------
(* Type correctness.  That a version number stays within 1..|Pushes| needs *)
(* a count: every directory was made by a push that has listed, and no     *)
(* number exceeds the count of those pushes.                               *)

Listed == {p \in Pushes : pc[p] # "new"}

\* Every number is accounted for by the pushes that have listed.
Numbered ==
  /\ \A p \in Pushes : ver[p] # None <=> p \in Listed
  /\ \A p \in Pushes : ver[p] # None => ver[p] <= Cardinality(Listed)
  /\ \A v \in Dirs : \E p \in Pushes : ver[p] = v

TypeInv == TypeOK /\ Numbered

LEMMA VersionFacts ==
  /\ Cardinality(Pushes) \in Nat
  /\ Version \subseteq Nat \ {0}
  /\ None \notin Version /\ CurrentLink \notin Version
BY PushAssumption, NoneAssumption, FS_CardinalityType DEF Version

LEMMA ListedBound ==
  ASSUME NEW S \in SUBSET Pushes
  PROVE  IsFiniteSet(S) /\ Cardinality(S) \in Nat /\ Cardinality(S) <= Cardinality(Pushes)
BY PushAssumption, FS_Subset, FS_CardinalityType

\* Steps that leave the numbers alone and move one push on.
LEMMA NumberedKept ==
  ASSUME Numbered, TypeOK, UNCHANGED ver, Listed' = Listed,
         \A v \in Version : files'[v] # {} => files[v] # {} \/ \E p \in Pushes : ver[p] = v
  PROVE  Numbered'
BY DEF Numbered, Dirs, Listed

LEMMA GotoType ==
  ASSUME TypeOK, NEW p \in Pushes,
         NEW l \in {"new", "extract", "link", "run", "check", "rollback",
                    "rerun", "rejected", "finish", "ok", "failed"},
         Goto(p, l)
  PROVE  /\ pc' \in [Pushes -> {"new", "extract", "link", "run", "check", "rollback",
                               "rerun", "rejected", "finish", "ok", "failed"}]
         /\ l # "new" /\ pc[p] # "new" => Listed' = Listed
         /\ l # "new" => Listed' = Listed \cup {p}
BY DEF TypeOK, Goto, Listed

LEMMA StartType ==
  ASSUME TypeOK, Started \/ StartBroke
  PROVE  running' \subseteq Releases
<1>1. Here \subseteq Releases
  BY DEF TypeOK, Here
<1> QED  BY <1>1 DEF TypeOK, Started, StartBroke

LEMMA MoveType ==
  ASSUME TypeOK, NEW v \in Version, MoveLinks(v)
  PROVE  /\ current' \in Version
         /\ previous' \in Version \cup {None, CurrentLink}
BY DEF TypeOK, MoveLinks

LEMMA PreviousType ==
  ASSUME TypeOK, PreviousDir # None
  PROVE  PreviousDir \in Version
BY DEF TypeOK, PreviousDir

LEMMA CrossedType ==
  ASSUME TypeOK, NEW p
  PROVE  crossed \cup Underway(p) \subseteq Pushes
BY DEF TypeOK, Underway

LEMMA TypeInit == ASSUME Init PROVE TypeInv
BY VersionFacts DEF Init, TypeInv, TypeOK, Numbered, Listed, Dirs

LEMMA ListType ==
  ASSUME TypeInv, NEW p \in Pushes, List(p)
  PROVE  TypeInv'
<1> USE DEF TypeInv
<1>1. /\ p \notin Listed /\ Listed' = Listed \cup {p}
      /\ Listed \subseteq Pushes /\ Listed' \subseteq Pushes
  BY GotoType DEF List, Listed
<1>2. /\ Cardinality(Listed') = Cardinality(Listed) + 1
      /\ Cardinality(Listed) \in Nat
      /\ Cardinality(Listed') <= Cardinality(Pushes)
  BY <1>1, ListedBound, FS_AddElement
<1>3. Dirs \in SUBSET (1 .. Cardinality(Pushes))
  BY DEF Dirs, Version
<1>4. \A v \in Dirs : v <= Cardinality(Listed) /\ v \in Nat
  BY <1>3, VersionFacts DEF Numbered, TypeOK, Dirs
<1>5. NextVersion(Dirs) \in 1 .. Cardinality(Listed')
  <2>1. NextVersion(Dirs) \in Nat \ {0}
    BY <1>3, VersionFacts, NextVersionIsFresh
  <2>2. NextVersion(Dirs) = 1 \/ NextVersion(Dirs) - 1 \in Dirs
    BY <1>3, VersionFacts, NextVersionIsFresh
  <2>3. CASE NextVersion(Dirs) = 1
    BY <2>3, <1>2
  <2>4. CASE NextVersion(Dirs) - 1 \in Dirs
    BY <2>1, <2>4, <1>2, <1>4
  <2> QED  BY <2>2, <2>3, <2>4
<1>6. PICK n : ver' = [ver EXCEPT ![p] = n] /\ (n = NextVersion(Dirs) \/ n = 1)
  BY DEF List
<1>7. n \in 1 .. Cardinality(Listed') /\ n \in Version /\ n # None
  BY <1>2, <1>5, <1>6, VersionFacts DEF Version
<1>8. seen' \in [Pushes -> (SUBSET Version) \cup {None}]
  BY DEF List, TypeOK, Dirs
<1>9. TypeOK'
  BY <1>6, <1>7, <1>8, GotoType DEF List, TypeOK, node
<1>10. Numbered'
  <2>1. UNCHANGED Dirs
    BY DEF List, node, Dirs
  <2>2. \A q \in Pushes : ver'[q] # None <=> q \in Listed'
    BY <1>1, <1>6, <1>7 DEF Numbered, TypeOK
  <2>3. \A q \in Pushes : ver'[q] # None => ver'[q] <= Cardinality(Listed')
    <3> SUFFICES ASSUME NEW q \in Pushes, ver'[q] # None
                 PROVE  ver'[q] <= Cardinality(Listed')
      OBVIOUS
    <3>1. CASE q = p
      BY <3>1, <1>6, <1>7, <1>2 DEF TypeOK
    <3>2. CASE q # p
      <4>1. ver'[q] = ver[q] /\ ver[q] \in Nat
        BY <3>2, <1>6, VersionFacts DEF TypeOK
      <4>2. ver[q] <= Cardinality(Listed)
        BY <4>1 DEF Numbered
      <4> QED  BY <4>1, <4>2, <1>2
    <3> QED  BY <3>1, <3>2
  <2>4. \A v \in Dirs' : \E q \in Pushes : ver'[q] = v
    <3> SUFFICES ASSUME NEW v \in Dirs
                 PROVE  \E q \in Pushes : ver'[q] = v
      BY <2>1
    <3>1. PICK q \in Pushes : ver[q] = v
      BY DEF Numbered
    <3>2. v # None
      BY VersionFacts DEF Dirs
    <3>3. q # p
      BY <1>1, <3>1, <3>2 DEF Numbered
    <3> QED  BY <1>6, <3>1, <3>3 DEF TypeOK
  <2> QED  BY <2>2, <2>3, <2>4 DEF Numbered
<1> QED  BY <1>9, <1>10

LEMMA ExtractType ==
  ASSUME TypeInv, NEW p \in Pushes, Extract(p)
  PROVE  TypeInv'
<1> USE DEF TypeInv
<1>1. ver[p] \in Version
  BY DEF Extract, Numbered, Listed, TypeOK
<1>2. PICK l \in {"link", "failed"} : Goto(p, l)
  BY DEF Extract
<1>3. pc' \in [Pushes -> {"new", "extract", "link", "run", "check", "rollback",
                          "rerun", "rejected", "finish", "ok", "failed"}]
  BY <1>2, GotoType
<1>4. files' \in [Version -> SUBSET Releases]
  BY <1>1 DEF Extract, Unpack, TypeOK
<1>5. cut' \subseteq Version
  BY <1>1 DEF Extract, TypeOK
<1>6. TypeOK'
  BY <1>3, <1>4, <1>5 DEF Extract, TypeOK, history
<1>7. Listed' = Listed
  BY <1>2, GotoType DEF Extract
<1>8. \A v \in Version : files'[v] # {} => files[v] # {} \/ \E q \in Pushes : ver[q] = v
  BY DEF Extract, Unpack, TypeOK
<1>9. Numbered'
  BY <1>7, <1>8, NumberedKept DEF Extract
<1> QED  BY <1>6, <1>9

\* Steps after the extraction change neither the files nor the numbers.
LEMMA LaterType ==
  ASSUME TypeInv, NEW p \in Pushes,
         Link(p) \/ Run(p) \/ Check(p) \/ AutoRollback(p) \/ Rerun(p) \/ Finish(p)
  PROVE  TypeInv'
<1> USE DEF TypeInv
<1>1. pc[p] # "new" /\ UNCHANGED <<files, cut, rel, mode, ver, seen, named>>
  BY DEF Link, Run, Check, AutoRollback, Rerun, Finish, node, history
<1>2. PICK l \in {"run", "check", "rollback", "rerun", "rejected", "finish", "ok", "failed"} :
        Goto(p, l)
  <2>1. CASE Link(p)
    <3>1. mode[p] \in {"default", "zero-downtime", "swarm", "bare"}
      BY ModeAssumption DEF TypeOK
    <3>2. AfterLink(mode[p]) \in {"run", "failed", "finish"}
      BY <3>1 DEF AfterLink, BlueGreen, Swarm, Bare
    <3> QED  BY <2>1, <3>2 DEF Link
  <2>2. CASE ~Link(p)
    BY <2>2 DEF Run, Check, AutoRollback, Rerun, Finish
  <2> QED  BY <2>1, <2>2
<1>3. /\ pc' \in [Pushes -> {"new", "extract", "link", "run", "check", "rollback",
                             "rerun", "rejected", "finish", "ok", "failed"}]
      /\ Listed' = Listed
  BY <1>1, <1>2, GotoType
<1>4. current' \in Version \cup {None} /\ previous' \in Version \cup {None, CurrentLink}
  <2>1. CASE Link(p)
    BY <2>1 DEF Link, TypeOK, Numbered, Listed
  <2>2. CASE AutoRollback(p)
    BY <2>2, PreviousType, MoveType DEF AutoRollback, TypeOK
  <2>3. CASE ~Link(p) /\ ~AutoRollback(p)
    BY <2>3 DEF Run, Check, Rerun, Finish, node, TypeOK
  <2> QED  BY <2>1, <2>2, <2>3
<1>5. running' \subseteq Releases
  BY StartType DEF Link, Run, Check, AutoRollback, Rerun, Finish, node, TypeOK
<1>6. base' \in [Pushes -> Version \cup {None}] /\ crossed' \subseteq Pushes
  BY CrossedType DEF Link, Run, Check, AutoRollback, Rerun, Finish, history, TypeOK
<1>7. TypeOK'
  BY <1>1, <1>3, <1>4, <1>5, <1>6 DEF TypeOK
<1>8. Numbered'
  BY <1>1, <1>3, NumberedKept
<1> QED  BY <1>7, <1>8

LEMMA OperatorType ==
  ASSUME TypeInv, RollbackPrevious \/ (\E v \in Version : RollbackTo(v)) \/ Restart
  PROVE  TypeInv'
<1> USE DEF TypeInv
<1>1. UNCHANGED <<files, cut, pc, rel, mode, ver, seen, base>>
  BY DEF RollbackPrevious, RollbackTo, Restart, push
<1>2. current' \in Version \cup {None} /\ previous' \in Version \cup {None, CurrentLink}
  BY PreviousType, MoveType DEF RollbackPrevious, RollbackTo, Restart, TypeOK
<1>3. running' \subseteq Releases
  BY StartType DEF RollbackPrevious, RollbackTo, Restart, TypeOK
<1>4. crossed' \subseteq Pushes /\ named' \subseteq Version
  BY CrossedType DEF RollbackPrevious, RollbackTo, Restart, TypeOK
<1>5. TypeOK'
  BY <1>1, <1>2, <1>3, <1>4 DEF TypeOK
<1>6. Numbered'
  BY <1>1, NumberedKept DEF Listed
<1> QED  BY <1>5, <1>6

LEMMA TypeStep == TypeInv /\ [Next]_vars => TypeInv'
<1> SUFFICES ASSUME TypeInv, [Next]_vars
             PROVE  TypeInv'
  OBVIOUS
<1>1. CASE UNCHANGED vars
  BY <1>1 DEF vars, node, push, history, TypeInv, TypeOK, Numbered, Listed, Dirs
<1>2. ASSUME NEW p \in Pushes, List(p)
      PROVE  TypeInv'
  BY <1>2, ListType
<1>3. ASSUME NEW p \in Pushes, Extract(p)
      PROVE  TypeInv'
  BY <1>3, ExtractType
<1>4. ASSUME NEW p \in Pushes,
             Link(p) \/ Run(p) \/ Check(p) \/ AutoRollback(p) \/ Rerun(p) \/ Finish(p)
      PROVE  TypeInv'
  BY <1>4, LaterType
<1>5. CASE RollbackPrevious \/ (\E v \in Version : RollbackTo(v)) \/ Restart
  BY <1>5, OperatorType
<1> QED  BY <1>1, <1>2, <1>3, <1>4, <1>5 DEF Next, Done

\* The types hold, and no version number exceeds the number of pushes.
THEOREM TypeCorrect == Spec => []TypeOK
<1>1. Init => TypeInv
  BY TypeInit
<1>2. TypeInv /\ [Next]_vars => TypeInv'
  BY TypeStep
<1>3. TypeInv => TypeOK
  BY DEF TypeInv
<1> QED  BY <1>1, <1>2, <1>3, PTL DEF Spec

-------------------------------------------------------------------------------
(* Versions are kept                                                       *)

\* A push that was shown the directories has a number above all of them.
AboveSeen == \A p \in Pushes : /\ pc[p] = "new" => seen[p] = None
                               /\ seen[p] # None => \A v \in seen[p] : v < ver[p]

LEMMA AboveSeenStep ==
  ASSUME TypeInv, AboveSeen, [Next]_vars
  PROVE  AboveSeen'
<1>1. ASSUME UNCHANGED <<ver, seen>>, \A q \in Pushes : pc'[q] = "new" => pc[q] = "new"
      PROVE  AboveSeen'
  BY <1>1 DEF AboveSeen
<1>2. ASSUME NEW p \in Pushes, List(p)
      PROVE  AboveSeen'
  <2>1. \A q \in Pushes : pc'[q] = "new" => pc[q] = "new" /\ q # p
    BY <1>2 DEF List, Goto, TypeInv, TypeOK
  <2>2. \A q \in Pushes \ {p} : ver'[q] = ver[q] /\ seen'[q] = seen[q]
    BY <1>2 DEF List, TypeInv, TypeOK
  <2>3. CASE seen'[p] = None
    BY <2>1, <2>2, <2>3 DEF AboveSeen
  <2>4. CASE seen'[p] # None
    <3>1. seen[p] = None
      BY <1>2 DEF List, AboveSeen
    <3>2. seen'[p] = Dirs /\ ver'[p] = NextVersion(Dirs)
      BY <1>2, <2>4, <3>1 DEF List, TypeInv, TypeOK
    <3>3. Dirs \in SUBSET (1 .. Cardinality(Pushes))
      BY DEF Dirs, Version
    <3>4. \A v \in seen'[p] : v < ver'[p]
      BY <3>2, <3>3, VersionFacts, NextVersionIsFresh
    <3> QED  BY <2>1, <2>2, <3>4 DEF AboveSeen
  <2> QED  BY <2>3, <2>4
<1>3. ASSUME NEW p \in Pushes,
             Extract(p) \/ Link(p) \/ Run(p) \/ Check(p) \/ AutoRollback(p) \/ Rerun(p) \/ Finish(p)
      PROVE  AboveSeen'
  <2>1. UNCHANGED <<ver, seen>>
    BY <1>3 DEF Extract, Link, Run, Check, AutoRollback, Rerun, Finish, history
  <2>2. pc[p] # "new" /\ \E l : l # "new" /\ Goto(p, l)
    <3>1. CASE Link(p)
      <4>1. mode[p] \in {"default", "zero-downtime", "swarm", "bare"}
        BY ModeAssumption DEF TypeInv, TypeOK
      <4>2. AfterLink(mode[p]) # "new"
        BY <4>1 DEF AfterLink, BlueGreen, Swarm, Bare
      <4> QED  BY <3>1, <4>2 DEF Link
    <3>2. CASE ~Link(p)
      BY <1>3, <3>2 DEF Extract, Run, Check, AutoRollback, Rerun, Finish
    <3> QED  BY <3>1, <3>2
  <2>3. \A q \in Pushes : pc'[q] = "new" => pc[q] = "new"
    BY <2>2 DEF Goto, TypeInv, TypeOK
  <2> QED  BY <1>1, <2>1, <2>3
<1>4. CASE UNCHANGED vars \/ RollbackPrevious \/ (\E v \in Version : RollbackTo(v)) \/ Restart
  BY <1>1, <1>4 DEF vars, push, history, RollbackPrevious, RollbackTo, Restart
<1> QED  BY <1>2, <1>3, <1>4 DEF Next, Done

\* Only Extract writes files, and only into the directory of its number.
LEMMA OnlyExtractWrites ==
  ASSUME TypeInv, [Next]_vars, NEW v \in Version, files'[v] # files[v]
  PROVE  \E p \in Pushes : pc[p] = "extract" /\ ver[p] = v
<1>1. PICK p \in Pushes : Extract(p)
  BY DEF Next, Done, vars, node, List, Link, Run, Check, AutoRollback, Rerun, Finish,
         RollbackPrevious, RollbackTo, Restart
<1> QED  BY <1>1 DEF Extract, Unpack, TypeInv, TypeOK

\* What a version holds is only ever changed by a push that was not shown it.
THEOREM VersionsAreKept == Spec => VersionsKept
<1>1. Init => TypeInv /\ AboveSeen
  BY TypeInit DEF Init, AboveSeen
<1>2. TypeInv /\ AboveSeen /\ [Next]_vars => TypeInv' /\ AboveSeen'
  BY TypeStep, AboveSeenStep
<1>3. TypeInv /\ AboveSeen /\ [Next]_vars
      => [\A v \in Dirs : files'[v] # files[v] =>
            \E p \in Pushes : pc[p] = "extract" /\ ver[p] = v
                             /\ (seen[p] = None \/ v \notin seen[p])]_vars
  <2> SUFFICES ASSUME TypeInv, AboveSeen, [Next]_vars,
                      NEW v \in Dirs, files'[v] # files[v]
               PROVE  \E p \in Pushes : pc[p] = "extract" /\ ver[p] = v
                                      /\ (seen[p] = None \/ v \notin seen[p])
    OBVIOUS
  <2>1. v \in Nat /\ v \in Version
    BY VersionFacts DEF Dirs
  <2>2. PICK p \in Pushes : pc[p] = "extract" /\ ver[p] = v
    BY <2>1, OnlyExtractWrites
  <2>3. seen[p] # None => v \notin seen[p]
    BY <2>1, <2>2 DEF AboveSeen
  <2> QED  BY <2>2, <2>3
<1> QED  BY <1>1, <1>2, <1>3, PTL DEF Spec, VersionsKept

-------------------------------------------------------------------------------
(* What is in service is whole.  A version in service was placed there by  *)
(* a push whose extraction had succeeded, so that whoever breaks off an    *)
(* extraction into it is another push with the same number.                *)

Placed(v) == \E p \in Pushes : ver[p] = v /\ pc[p] \notin {"new", "extract"}

Shared(v) == \E p \in Pushes : Shares(p) /\ ver[p] = v

Settled(v) == v \in named \/ (Placed(v) /\ (v \in cut => Shared(v)))

WholeInv ==
  /\ \A v \in cut : \E q \in Pushes : ver[q] = v /\ pc[q] = "failed"
  /\ \A v \in Dirs : Placed(v)
  /\ \A v \in Version : v = current \/ v = previous => Settled(v)

\* Numbers are never given up, and no push goes back to an earlier command.
LEMMA Forward ==
  ASSUME TypeInv, [Next]_vars, NEW p \in Pushes
  PROVE  /\ ver[p] # None => ver'[p] = ver[p]
         /\ pc[p] \notin {"new", "extract"} => pc'[p] \notin {"new", "extract"}
         /\ pc[p] = "failed" => pc'[p] = "failed"
<1>1. CASE UNCHANGED <<pc, ver>>
  BY <1>1
<1>2. ASSUME NEW q \in Pushes, List(q)
      PROVE  /\ ver[p] # None => ver'[p] = ver[p]
             /\ pc[p] \notin {"new", "extract"} => pc'[p] = pc[p]
  BY <1>2 DEF List, Goto, TypeInv, TypeOK, Numbered, Listed
<1>3. ASSUME NEW q \in Pushes, Link(q)
      PROVE  /\ pc[q] = "link" /\ ver' = ver /\ Goto(q, AfterLink(mode[q]))
             /\ AfterLink(mode[q]) \notin {"new", "extract"}
  <2>1. mode[q] \in {"default", "zero-downtime", "swarm", "bare"}
    BY ModeAssumption DEF TypeInv, TypeOK
  <2> QED  BY <1>3, <2>1 DEF Link, AfterLink, BlueGreen, Swarm, Bare
<1>4. ASSUME NEW q \in Pushes,
             Extract(q) \/ Run(q) \/ Check(q) \/ AutoRollback(q) \/ Rerun(q) \/ Finish(q)
      PROVE  /\ pc[q] # "failed" /\ ver' = ver
             /\ \E l : l \notin {"new", "extract"} /\ Goto(q, l)
  BY <1>4 DEF Extract, Run, Check, AutoRollback, Rerun, Finish
<1> QED  BY <1>1, <1>2, <1>3, <1>4 DEF Next, Done, vars, push, Goto, TypeInv, TypeOK,
            RollbackPrevious, RollbackTo, Restart

LEMMA PlacedStays ==
  ASSUME TypeInv, [Next]_vars, NEW v \in Version
  PROVE  /\ Placed(v) => Placed(v)'
         /\ Shared(v) => Shared(v)'
<1>1. v # None
  BY VersionFacts
<1>2. Placed(v) => Placed(v)'
  BY <1>1, Forward DEF Placed
<1>3. Shared(v) => Shared(v)'
  <2> SUFFICES ASSUME NEW p \in Pushes, NEW q \in Pushes \ {p}, ver[p] = v, ver[q] = v
               PROVE  ver'[p] = v /\ ver'[q] = v
    BY DEF Shared, Shares
  <2> QED  BY <1>1, Forward
<1> QED  BY <1>2, <1>3

\* A settled version stays so, unless its files are cut, which takes a sharing push.
LEMMA SettledStays ==
  ASSUME TypeInv, WholeInv, [Next]_vars, NEW v \in Version, Settled(v)
  PROVE  Settled(v)'
<1>1. named \subseteq named'
  BY DEF Next, Done, vars, history, List, Extract, Link, Run, Check, AutoRollback, Rerun,
         Finish, RollbackPrevious, RollbackTo, Restart
<1>2. ASSUME Placed(v), v \in cut', v \notin cut
      PROVE  Shared(v)'
  <2>1. PICK q \in Pushes : Extract(q)
    BY <1>2 DEF Next, Done, vars, node, List, Link, Run, Check, AutoRollback, Rerun, Finish,
           RollbackPrevious, RollbackTo, Restart
  <2>2. ver[q] = v /\ pc[q] = "extract"
    BY <1>2, <2>1 DEF Extract
  <2>3. Shared(v)
    BY <1>2, <2>2 DEF Placed, Shared, Shares
  <2> QED  BY <2>3, PlacedStays
<1> QED  BY <1>1, <1>2, PlacedStays DEF Settled

LEMMA WholeStep ==
  ASSUME TypeInv, WholeInv, [Next]_vars
  PROVE  WholeInv'
<1>1. \A v \in cut' : \E q \in Pushes : ver'[q] = v /\ pc'[q] = "failed"
  <2> SUFFICES ASSUME NEW v \in cut'
               PROVE  \E q \in Pushes : ver'[q] = v /\ pc'[q] = "failed"
    OBVIOUS
  <2>1. CASE v \in cut
    <3>1. PICK q \in Pushes : ver[q] = v /\ pc[q] = "failed"
      BY <2>1 DEF WholeInv
    <3> QED  BY <2>1, <3>1, Forward, VersionFacts DEF TypeInv, TypeOK
  <2>2. CASE v \notin cut
    <3>1. PICK q \in Pushes : Extract(q)
      BY <2>2 DEF Next, Done, vars, node, List, Link, Run, Check, AutoRollback, Rerun, Finish,
             RollbackPrevious, RollbackTo, Restart
    <3> QED  BY <2>2, <3>1 DEF Extract, Goto, TypeInv, TypeOK
  <2> QED  BY <2>1, <2>2
<1>2. \A v \in Dirs' : Placed(v)'
  <2> SUFFICES ASSUME NEW v \in Dirs'
               PROVE  Placed(v)'
    OBVIOUS
  <2>1. v \in Version
    BY DEF Dirs
  <2>2. CASE v \in Dirs
    BY <2>1, <2>2, PlacedStays DEF WholeInv
  <2>3. CASE v \notin Dirs
    <3>1. PICK q \in Pushes : Extract(q)
      BY <2>1, <2>3 DEF Dirs, Next, Done, vars, node, List, Link, Run, Check, AutoRollback,
             Rerun, Finish, RollbackPrevious, RollbackTo, Restart
    <3>2. ver[q] = v
      BY <2>1, <2>3, <3>1 DEF Dirs, Extract, Unpack, TypeInv, TypeOK
    <3>3. ver'[q] = v /\ pc'[q] \in {"link", "failed"}
      BY <3>1, <3>2 DEF Extract, Goto, TypeInv, TypeOK
    <3> QED  BY <3>3 DEF Placed
  <2> QED  BY <2>2, <2>3
<1>3. \A v \in Version : v = current' \/ v = previous' => Settled(v)'
  <2> SUFFICES ASSUME NEW v \in Version, v = current' \/ v = previous'
               PROVE  Settled(v)'
    OBVIOUS
  <2>1. CASE v = current \/ v = previous
    BY <2>1, SettledStays DEF WholeInv
  <2>2. ASSUME NEW q \in Pushes, Link(q), v # current, v # previous
        PROVE  Settled(v)'
    <3>1. ver[q] = v /\ pc[q] = "link"
      BY <2>2, VersionFacts DEF Link
    <3>2. v \in cut => Shared(v)
      BY <3>1 DEF WholeInv, Shared, Shares
    <3>3. Settled(v)
      BY <3>1, <3>2 DEF Settled, Placed
    <3> QED  BY <3>3, SettledStays
  <2>3. CASE \E w \in Version : RollbackTo(w)
    <3>1. v # current /\ v # previous => v \in named'
      BY <2>3 DEF RollbackTo, MoveLinks
    <3> QED  BY <2>1, <3>1 DEF Settled
  <2>4. ASSUME NEW q \in Pushes,
               List(q) \/ Extract(q) \/ Run(q) \/ Check(q) \/ AutoRollback(q)
                 \/ Rerun(q) \/ Finish(q)
        PROVE  v = current \/ v = previous
    BY <2>4 DEF List, Extract, Run, Check, AutoRollback, Rerun, Finish, MoveLinks,
                PreviousDir, node
  <2>5. CASE RollbackPrevious \/ Restart \/ UNCHANGED vars
    BY <2>5, <2>1 DEF RollbackPrevious, Restart, MoveLinks, PreviousDir, vars, node
  <2> QED  BY <2>1, <2>2, <2>3, <2>4, <2>5 DEF Next, Done
<1> QED  BY <1>1, <1>2, <1>3 DEF WholeInv

\* A broken upload is in service only if an operator named it or two pushes
\* computed the same number.
THEOREM ServiceIsWhole == Spec => []CurrentIsWhole
<1>1. Init => TypeInv /\ WholeInv
  BY TypeInit, VersionFacts DEF Init, WholeInv, Dirs
<1>2. TypeInv /\ WholeInv /\ [Next]_vars => TypeInv' /\ WholeInv'
  BY TypeStep, WholeStep
<1>3. TypeInv /\ WholeInv => CurrentIsWhole
  BY DEF TypeInv, TypeOK, WholeInv, Settled, Shared, CurrentIsWhole
<1> QED  BY <1>1, <1>2, <1>3, PTL DEF Spec

-------------------------------------------------------------------------------
(* A push that ends well serves its release                                *)

Clean(p) == /\ mode[p] = "default" /\ p \notin crossed
            /\ rel[p] \in Runnable /\ ~Shares(p)

ServedInv ==
  \A p \in Pushes : Clean(p) =>
    /\ pc[p] \in {"link", "run", "check", "finish"} => files[ver[p]] = {rel[p]}
    /\ pc[p] \in {"run", "check", "finish"} => current = ver[p]
    /\ pc[p] \in {"check", "finish"} => running = {rel[p]}

LEMMA CleanBefore ==
  ASSUME TypeInv, [Next]_vars, NEW p \in Pushes, ver[p] # None, Clean(p)'
  PROVE  Clean(p) /\ ver'[p] = ver[p] /\ rel'[p] = rel[p]
<1>1. UNCHANGED <<rel, mode>> /\ crossed \subseteq crossed'
  BY DEF Next, Done, vars, push, history, List, Extract, Link, Run, Check, AutoRollback, Rerun,
         Finish, RollbackPrevious, RollbackTo, Restart
<1>2. Shares(p) => Shares(p)'
  BY Forward DEF Shares
<1> QED  BY <1>1, <1>2, Forward DEF Clean

\* A step that is not the push's own and leaves it clean changes nothing it relies on.
LEMMA OthersLeaveIt ==
  ASSUME TypeInv, WholeInv, [Next]_vars, NEW p \in Pushes, ver[p] # None, Clean(p)',
         pc'[p] = pc[p], pc[p] \in {"link", "run", "check", "finish"}
  PROVE  /\ files'[ver[p]] = files[ver[p]]
         /\ pc[p] # "link" => UNCHANGED <<current, running>>
<1>1. Clean(p) /\ ver'[p] = ver[p]
  BY CleanBefore
<1>2. files'[ver[p]] = files[ver[p]]
  <2>1. ver[p] \in Version
    BY DEF TypeInv, TypeOK
  <2>2. ASSUME NEW q \in Pushes, pc[q] = "extract", ver[q] = ver[p]
        PROVE  FALSE
    BY <2>2, <1>1 DEF Clean, Shares
  <2> QED  BY <2>1, <2>2, OnlyExtractWrites
<1>3. ASSUME pc[p] # "link"
      PROVE  UNCHANGED <<current, running>>
  <2>1. ASSUME NEW q \in Pushes,
               Link(q) \/ Run(q) \/ AutoRollback(q) \/ Rerun(q)
        PROVE  UNCHANGED <<current, running>>
    <3>1. q # p
      BY <2>1, <1>3 DEF Link, Run, AutoRollback, Rerun, Goto, TypeInv, TypeOK
    <3>2. p \in Underway(q)
      BY <3>1, <1>3 DEF Underway
    <3>3. p \notin crossed'
      BY DEF Clean
    <3> QED  BY <2>1, <3>2, <3>3 DEF Link, Run, AutoRollback, Rerun
  <2>2. CASE RollbackPrevious \/ (\E v \in Version : RollbackTo(v)) \/ Restart
    <3>1. p \in Underway(None)
      BY <1>3, NoneAssumption DEF Underway
    <3>2. p \notin crossed'
      BY DEF Clean
    <3> QED  BY <2>2, <3>1, <3>2 DEF RollbackPrevious, RollbackTo, Restart
  <2> QED  BY <2>1, <2>2 DEF Next, Done, vars, node, List, Extract, Check, Finish
<1> QED  BY <1>2, <1>3

LEMMA ServedStep ==
  ASSUME TypeInv, WholeInv, ServedInv, [Next]_vars
  PROVE  ServedInv'
<1> SUFFICES ASSUME NEW p \in Pushes, Clean(p)'
             PROVE  /\ pc'[p] \in {"link", "run", "check", "finish"} => files'[ver'[p]] = {rel'[p]}
                    /\ pc'[p] \in {"run", "check", "finish"} => current' = ver'[p]
                    /\ pc'[p] \in {"check", "finish"} => running' = {rel'[p]}
  BY DEF ServedInv
<1>1. CASE pc'[p] = pc[p]
  <2>1. CASE pc[p] \in {"link", "run", "check", "finish"}
    <3>1. ver[p] # None
      BY <2>1 DEF TypeInv, Numbered, Listed
    <3>2. Clean(p) /\ ver'[p] = ver[p] /\ rel'[p] = rel[p]
      BY <3>1, CleanBefore
    <3>3. /\ files'[ver[p]] = files[ver[p]]
          /\ pc[p] # "link" => UNCHANGED <<current, running>>
      BY <1>1, <2>1, <3>1, OthersLeaveIt
    <3> QED  BY <1>1, <2>1, <3>2, <3>3 DEF ServedInv
  <2>2. CASE pc[p] \notin {"link", "run", "check", "finish"}
    BY <1>1, <2>2
  <2> QED  BY <2>1, <2>2
<1>2. ASSUME Extract(p)
      PROVE  /\ pc'[p] \in {"link", "failed"}
             /\ files'[ver'[p]] = {rel'[p]}
  <2>1. pc[p] = "extract" /\ ver[p] \in Version /\ ver[p] # None
    BY <1>2, VersionFacts DEF Extract, TypeInv, TypeOK, Numbered, Listed
  <2>2. Clean(p) /\ ver'[p] = ver[p] /\ rel'[p] = rel[p]
    BY <2>1, CleanBefore
  <2>3. ver[p] \notin Dirs
    BY <2>1, <2>2 DEF WholeInv, Placed, Clean, Shares
  <2>4. files'[ver[p]] = {rel[p]}
    BY <1>2, <2>1, <2>3 DEF Extract, Unpack, Dirs, TypeInv, TypeOK
  <2> QED  BY <1>2, <2>2, <2>4 DEF Extract, Goto, TypeInv, TypeOK
<1>3. ASSUME Link(p)
      PROVE  /\ pc'[p] = "run" /\ current' = ver'[p]
             /\ files'[ver'[p]] = {rel'[p]}
  <2>1. pc[p] = "link" /\ ver[p] # None
    BY <1>3 DEF Link, TypeInv, Numbered, Listed
  <2>2. Clean(p) /\ ver'[p] = ver[p] /\ rel'[p] = rel[p]
    BY <2>1, CleanBefore
  <2>3. files[ver[p]] = {rel[p]}
    BY <2>1, <2>2 DEF ServedInv
  <2>4. p \notin crossed'
    BY DEF Clean
  <2>5. AfterLink(mode[p]) = "run"
    BY <2>2 DEF Clean, AfterLink
  <2> QED  BY <1>3, <2>2, <2>3, <2>4, <2>5 DEF Link, Goto, TypeInv, TypeOK
<1>4. ASSUME Run(p) \/ Check(p), pc'[p] \in {"check", "finish"}
      PROVE  /\ running' = {rel'[p]} /\ current' = ver'[p]
             /\ files'[ver'[p]] = {rel'[p]}
  <2>1. pc[p] \in {"run", "check"} /\ ver[p] # None
    BY <1>4 DEF Run, Check, TypeInv, Numbered, Listed
  <2>2. Clean(p) /\ ver'[p] = ver[p] /\ rel'[p] = rel[p]
    BY <2>1, CleanBefore
  <2>3. files[ver[p]] = {rel[p]} /\ current = ver[p]
    BY <2>1, <2>2 DEF ServedInv
  <2>4. CASE Run(p)
    <3>1. Started
      BY <1>4, <2>4 DEF Run, Goto, TypeInv, TypeOK
    <3>2. Here = {rel[p]} /\ rel[p] \in Runnable
      BY <2>1, <2>2, <2>3 DEF Here, Clean
    <3> QED  BY <2>2, <2>3, <2>4, <3>1, <3>2 DEF Run, Started
  <2>5. CASE Check(p)
    BY <2>2, <2>3, <2>5 DEF Check, node, ServedInv
  <2> QED  BY <1>4, <2>4, <2>5
<1>5. ASSUME pc'[p] # pc[p], ~Extract(p), ~Link(p), ~Run(p), ~Check(p)
      PROVE  pc'[p] \notin {"link", "run", "check", "finish"}
  <2>1. PICK q \in Pushes : List(q) \/ Extract(q) \/ Link(q) \/ Run(q) \/ Check(q)
                            \/ AutoRollback(q) \/ Rerun(q) \/ Finish(q)
    BY <1>5 DEF Next, Done, vars, push, RollbackPrevious, RollbackTo, Restart
  <2>2. q = p
    BY <1>5, <2>1 DEF List, Extract, Link, Run, Check, AutoRollback, Rerun, Finish, Goto,
                      TypeInv, TypeOK
  <2> QED  BY <1>5, <2>1, <2>2 DEF List, AutoRollback, Rerun, Finish, Goto, TypeInv, TypeOK
<1>6. Run(p) => pc'[p] \in {"check", "failed"}
  BY DEF Run, Goto, TypeInv, TypeOK
<1>7. Check(p) => pc'[p] \in {"finish", "rollback"}
  BY DEF Check, Goto, TypeInv, TypeOK
<1> QED  BY <1>1, <1>2, <1>3, <1>4, <1>5, <1>6, <1>7

\* A push that passed its health check undisturbed runs its own release, and
\* `current` names it.
THEOREM OkIsServed == Spec => []OkMeansServed
<1>1. Init => TypeInv /\ WholeInv /\ ServedInv
  BY TypeInit, VersionFacts DEF Init, WholeInv, Dirs, ServedInv
<1>2. TypeInv /\ WholeInv /\ ServedInv /\ [Next]_vars => TypeInv' /\ WholeInv' /\ ServedInv'
  BY TypeStep, WholeStep, ServedStep
<1>3. ServedInv => OkMeansServed
  BY DEF ServedInv, Clean, OkMeansServed
<1> QED  BY <1>1, <1>2, <1>3, PTL DEF Spec

-------------------------------------------------------------------------------
(* What the automatic rollback goes back to                                *)

Judged == {"run", "check", "rollback", "rerun", "rejected"}

\* A rollback that nothing else came between puts the rejected version back in service.
RollsBackToItself ==
  \A p \in Pushes : pc[p] = "rejected" /\ p \notin crossed => current = ver[p]

\* From its link command on, a push that nothing crosses finds both links at its version.
LinkedInv ==
  \A p \in Pushes : pc[p] \in Judged /\ p \notin crossed =>
    current = ver[p] /\ (pc[p] \in {"run", "check", "rollback"} => previous = CurrentLink)

\* Whatever moves a link while a push is underway crosses it.
LEMMA LinksCross ==
  ASSUME TypeInv, [Next]_vars, NEW p \in Pushes, pc[p] \in Judged, p \notin crossed'
  PROVE  \/ UNCHANGED <<current, previous>> /\ (pc'[p] \in Judged => p \notin crossed)
         \/ AutoRollback(p) /\ p \notin crossed
<1>1. crossed \subseteq crossed'
  BY DEF Next, Done, vars, history, List, Extract, Link, Run, Check, AutoRollback, Rerun,
         Finish, RollbackPrevious, RollbackTo, Restart
<1>2. ASSUME NEW q \in Pushes, Link(q) PROVE p \in crossed' \/ UNCHANGED <<current, previous>>
  BY <1>2 DEF Link, Underway, Judged
<1>3. ASSUME NEW q \in Pushes, AutoRollback(q), q # p PROVE p \in crossed'
  BY <1>3 DEF AutoRollback, Underway, Judged
<1>4. ASSUME RollbackPrevious \/ \E v \in Version : RollbackTo(v) PROVE p \in crossed'
  <2>1. p \in Underway(None)
    BY NoneAssumption DEF Underway, Judged
  <2>. QED
    BY <1>4, <2>1 DEF RollbackPrevious, RollbackTo
<1>. QED
  BY <1>1, <1>2, <1>3, <1>4 DEF Next, Done, vars, node, List, Extract, Run, Check, Rerun, Finish, Restart

LEMMA LinkedStep ==
  ASSUME TypeInv, LinkedInv, [Next]_vars
  PROVE  LinkedInv'
<1>. SUFFICES ASSUME NEW p \in Pushes, pc'[p] \in Judged, p \notin crossed'
              PROVE  /\ current' = ver'[p]
                     /\ pc'[p] \in {"run", "check", "rollback"} => previous' = CurrentLink
  BY DEF LinkedInv
<1>1. CASE pc[p] \in Judged
  <2>1. ver'[p] = ver[p]
    BY <1>1, Forward DEF Judged, TypeInv, Numbered, Listed
  <2>2. pc[p] \in {"rerun", "rejected"} => pc'[p] \notin {"run", "check", "rollback"}
    BY DEF Next, Done, vars, push, List, Extract, Link, Run, Check, AutoRollback, Rerun, Finish,
           RollbackPrevious, RollbackTo, Restart, Goto, TypeInv, TypeOK
  <2>3. CASE UNCHANGED <<current, previous>> /\ p \notin crossed
    BY <1>1, <2>1, <2>2, <2>3 DEF LinkedInv, Judged
  <2>4. CASE AutoRollback(p) /\ p \notin crossed
    <3>1. pc[p] = "rollback" /\ pc'[p] \in {"rerun", "failed"}
      BY <2>4 DEF AutoRollback, Goto, TypeInv, TypeOK
    <3>2. current = ver[p] /\ PreviousDir = current
      BY <1>1, <2>4, <3>1 DEF LinkedInv, PreviousDir
    <3>. QED
      BY <2>1, <2>4, <3>1, <3>2 DEF AutoRollback, MoveLinks
  <2>. QED
    BY <1>1, <2>3, <2>4, LinksCross
<1>2. CASE pc[p] \notin Judged
  <2>1. Link(p)
    BY <1>2 DEF Next, Done, vars, push, List, Extract, Link, Run, Check, AutoRollback, Rerun, Finish,
           RollbackPrevious, RollbackTo, Restart, Goto, TypeInv, TypeOK, Judged
  <2>. QED
    BY <2>1 DEF Link
<1>. QED
  BY <1>1, <1>2

\* Of docs/architecture.md:196, "auto-rollback", what holds: for any pushes, releases and
\* faults, the version back in service after a failed health check is the rejected one
\* itself, whatever was in service before, unless another push or an operator moved the
\* links meanwhile.  `previous` names the link `current`, not what it pointed at
\* (upload.go:202).
THEOREM RollbackRestoresNothing == Spec => []RollsBackToItself
<1>1. Init => LinkedInv
  BY DEF Init, LinkedInv, Judged
<1>2. TypeInv /\ LinkedInv /\ [Next]_vars => LinkedInv'
  BY LinkedStep
<1>3. LinkedInv => RollsBackToItself
  BY DEF LinkedInv, RollsBackToItself, Judged
<1>. QED
  BY <1>1, <1>2, <1>3, TypeInit, TypeStep, PTL DEF Spec

===============================================================================
