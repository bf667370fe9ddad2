--------------------------- MODULE MigrateProofs ---------------------------
(***************************************************************************)
(* The migrations for any number of migrators, cut off and run again any   *)
(* number of times, bodies of any length, any limit, and whatever else     *)
(* River brings.                                                           *)
(***************************************************************************)
EXTENDS Migrate, WellFoundedInduction, TLAPS

-----------------------------------------------------------------------------
(* Least and greatest numbers                                              *)

LEMMA LessIsRelated == \A i, j \in Nat : i < j => <<i, j>> \in OpToRel(<, Nat)
  BY DEF OpToRel

LEMMA LeastOfNaturals ==
    ASSUME NEW S \in SUBSET Nat, S # {}
    PROVE  Min(S) \in S /\ \A i \in S : Min(S) <= i
<1>1. PICK least \in S : \A i \in S : ~(<<i, least>> \in OpToRel(<, Nat))
  BY NatLessThanWellFounded, WFMin
<1>2. \A i \in S : ~(i < least)
  BY <1>1, LessIsRelated
<1>3. \E x \in S : \A y \in S : x <= y
  BY <1>2
<1>. QED
  BY <1>3, Zenon DEF Min

LEMMA GreatestOfBounded ==
    ASSUME NEW n \in Nat, NEW S \in SUBSET (0..n), S # {}
    PROVE  Max(S) \in S /\ \A i \in S : Max(S) >= i
<1>. DEFINE T == {i \in 0..n : n - i \in S}
<1>1. T \in SUBSET Nat
  OBVIOUS
<1>2. \A i \in S : n - i \in T /\ i = n - (n - i)
  OBVIOUS
<1>3. T # {}
  BY <1>2
<1>. HIDE DEF T
<1>4. Min(T) \in T /\ \A i \in T : Min(T) <= i
  BY <1>1, <1>3, LeastOfNaturals
<1>5. n - Min(T) \in S /\ Min(T) \in Nat
  BY <1>1, <1>4 DEF T
<1>6. \A i \in S : n - Min(T) >= i
  BY <1>2, <1>4, <1>5
<1>7. \E x \in S : \A y \in S : x >= y
  BY <1>5, <1>6
<1>. QED
  BY <1>7, Zenon DEF Max

-----------------------------------------------------------------------------
(***************************************************************************)
(* Trimming                                                                *)
(***************************************************************************)

LEMMA TrimOfTrimmed ==
    ASSUME NEW body \in Seq(Chars), NEW white,
           body # <<>> => body[1] \notin white /\ body[Len(body)] \notin white
    PROVE  Trim(body, white) = body
<1>. DEFINE kept == {i \in 1..Len(body) : body[i] \notin white}
<1>1. CASE body = <<>>
  <2>1. kept = {}
    BY <1>1
  <2>. QED
    BY <1>1, <2>1 DEF Trim
<1>2. CASE body # <<>>
  <2>1. Len(body) \in Nat /\ 1 \in kept /\ Len(body) \in kept
    BY <1>2
  <2>2. kept \in SUBSET Nat /\ kept \in SUBSET (0..Len(body))
    BY <2>1
  <2>3. Min(kept) \in kept /\ Min(kept) <= 1
    BY <2>1, <2>2, LeastOfNaturals
  <2>4. Max(kept) \in kept /\ Max(kept) >= Len(body)
    BY <2>1, <2>2, GreatestOfBounded
  <2>5. Min(kept) = 1 /\ Max(kept) = Len(body)
    BY <2>1, <2>3, <2>4
  <2>6. SubSeq(body, 1, Len(body)) = body
    OBVIOUS
  <2>. QED
    BY <2>1, <2>5, <2>6 DEF Trim
<1>. QED
  BY <1>1, <1>2

LEMMA Trimmed ==
    ASSUME NEW body \in Seq(Chars), NEW white
    PROVE  /\ Trim(body, white) \in Seq(Chars)
           /\ Trim(body, white) # <<>>
                => /\ Trim(body, white)[1] \notin white
                   /\ Trim(body, white)[Len(Trim(body, white))] \notin white
<1>. DEFINE kept == {i \in 1..Len(body) : body[i] \notin white}
            first == Min(kept)
            last == Max(kept)
<1>1. CASE kept = {}
  <2>1. Trim(body, white) = <<>>
    BY <1>1 DEF Trim
  <2>. QED
    BY <2>1
<1>2. CASE kept # {}
  <2>1. Len(body) \in Nat /\ kept \in SUBSET Nat /\ kept \in SUBSET (0..Len(body))
    OBVIOUS
  <2>2. first \in kept /\ first <= last /\ last \in kept
    BY <1>2, <2>1, LeastOfNaturals, GreatestOfBounded
  <2>3. Trim(body, white) = SubSeq(body, first, last)
    BY <1>2 DEF Trim
  <2>4. first \in 1..Len(body) /\ last \in 1..Len(body)
        /\ body[first] \notin white /\ body[last] \notin white
    BY <2>2
  <2>. HIDE DEF first, last, kept
  <2>5. /\ SubSeq(body, first, last) \in Seq(Chars)
        /\ Len(SubSeq(body, first, last)) = last - first + 1
        /\ \A i \in 1..(last - first + 1) : SubSeq(body, first, last)[i] = body[first + i - 1]
    BY <2>2, <2>4
  <2>. QED
    BY <2>2, <2>3, <2>4, <2>5
<1>. QED
  BY <1>1, <1>2

\* A body that every constraint of every version accepts, and that neither Go nor
\* SQL would trim.
Valid(body) ==
    /\ body \in Seq(Chars)
    /\ TrimSpace(body) = body /\ SqlTrim(body) = body
    /\ Len(body) \in 1..MaxBody

\* What Go has trimmed is left alone by Go and by SQL.
LEMMA TrimSpaceTrims ==
    ASSUME NEW body \in Seq(Chars)
    PROVE  /\ TrimSpace(body) \in Seq(Chars)
           /\ TrimSpace(TrimSpace(body)) = TrimSpace(body)
           /\ SqlTrim(TrimSpace(body)) = TrimSpace(body)
<1>. DEFINE t == Trim(body, {"space", "tab"})
<1>1. /\ t \in Seq(Chars)
      /\ t # <<>> => t[1] \notin {"space", "tab"} /\ t[Len(t)] \notin {"space", "tab"}
  BY Trimmed
<1>. HIDE DEF t
<1>2. Trim(t, {"space", "tab"}) = t
  BY <1>1, TrimOfTrimmed
<1>3. Trim(t, {"space"}) = t
  BY <1>1, TrimOfTrimmed
<1>. QED
  BY <1>1, <1>2, <1>3 DEF t, TrimSpace, SqlTrim

LEMMA ValidatedIsValid ==
    ASSUME NEW body \in Seq(Chars), validateTodoBody(body)
    PROVE  Stored(body) = TrimSpace(body) /\ Valid(TrimSpace(body))
<1>1. /\ TrimSpace(body) \in Seq(Chars)
      /\ TrimSpace(TrimSpace(body)) = TrimSpace(body)
      /\ SqlTrim(TrimSpace(body)) = TrimSpace(body)
  BY TrimSpaceTrims
<1>2. TrimSpace(body) # <<>> /\ ~(Len(TrimSpace(body)) > MaxBody)
  BY DEF validateTodoBody, IsTooLong
<1>3. Len(TrimSpace(body)) \in 1..MaxBody
  BY <1>1, <1>2, MigrateAssumption
<1>. QED
  BY <1>1, <1>3 DEF Stored, Valid

LEMMA ValidHolds ==
    ASSUME NEW body, Valid(body), NEW c \in Objects
    PROVE  Holds(c, body)
  BY MigrateAssumption DEF Valid, Holds, Objects

\* The two constraints that replace trimLength say the same.
LEMMA SplitConstraint ==
    ASSUME NEW body \in Seq(Chars)
    PROVE  Holds("notBlank", body) /\ Holds("maxLength", body) => Holds("trimLength", body)
<1>1. SqlTrim(body) \in Seq(Chars)
  BY Trimmed DEF SqlTrim
<1>2. Len(SqlTrim(body)) \in Nat
  BY <1>1
<1>. QED
  BY <1>2, MigrateAssumption DEF Holds

LEMMA SchemaStages ==
    /\ SchemaAt(0) = {}
    /\ SchemaAt(1) = {"tables", "notBlank"}
    /\ SchemaAt(2) = {"tables", "notBlank", "trimLength"}
    /\ SchemaAt(3) = {"tables", "notBlank", "maxLength"}
<1>1. 1..0 = {} /\ 1..1 = {1} /\ 1..2 = {1, 2} /\ 1..3 = {1, 2, 3}
  OBVIOUS
<1>2. /\ Adds[1] = {"tables", "notBlank"} /\ Adds[2] = {"trimLength"} /\ Adds[3] = {"maxLength"}
      /\ Drops[1] = {} /\ Drops[2] = {} /\ Drops[3] = {"trimLength"}
  BY DEF Adds, Drops
<1>3. SchemaAt(0) = {}
  BY <1>1 DEF SchemaAt
<1>4. SchemaAt(1) = {"tables", "notBlank"}
  BY <1>1, <1>2 DEF SchemaAt
<1>5. SchemaAt(2) = {"tables", "notBlank", "trimLength"}
  BY <1>1, <1>2 DEF SchemaAt
<1>6. SchemaAt(3) = {"tables", "notBlank", "maxLength"}
  BY <1>1, <1>2 DEF SchemaAt
<1>. QED
  BY <1>3, <1>4, <1>5, <1>6

-----------------------------------------------------------------------------
(***************************************************************************)
(* How far the migrations have come.  A migrator has listed the migrations *)
(* from some version on, no later than the next: of those that were applied*)
(* since, it can apply again only the second, once the third has dropped   *)
(* the constraint that the second adds.                                    *)
(***************************************************************************)
Listed(m, n) == pc[m] = "goose" => \E j \in 1..(n + 1) : pending[m] = j..3

Stage(n) ==
    /\ versions = 1..n
    /\ SchemaAt(n) \subseteq schema /\ (n # 3 => schema = SchemaAt(n))
    /\ inserted = IF n = 0 THEN 0 ELSE 1
    /\ n = 0 => bodies = {}
    /\ \A m \in Migrators : Listed(m, n) /\ (pc[m] = "river" => n = 3)
    /\ river > 0 => n = 3

MigrateInv ==
    /\ TypeOK
    /\ \A body \in bodies : Valid(body)
    /\ \E n \in 0..3 : Stage(n)

LEMMA LeastListed ==
    ASSUME NEW j \in 1..3
    PROVE  Min(j..3) = j /\ j..3 # {} /\ (j..3) \ {j} = (j + 1)..3
<1>1. j..3 \in SUBSET Nat /\ j \in j..3
  OBVIOUS
<1>2. Min(j..3) \in j..3 /\ Min(j..3) <= j
  BY <1>1, LeastOfNaturals
<1>3. Min(j..3) = j
  BY <1>2
<1>4. (j..3) \ {j} = (j + 1)..3
  OBVIOUS
<1>. QED
  BY <1>1, <1>3, <1>4

\* Steps that leave the Goose tables alone.
LEMMA StageKept ==
    ASSUME MigrateInv, NEW n \in 0..3, Stage(n),
           UNCHANGED <<versions, schema, inserted>>,
           n = 0 => bodies' = bodies,
           \A m \in Migrators : Listed(m, n)' /\ (pc'[m] = "river" => n = 3),
           river' > 0 => n = 3
    PROVE  Stage(n)'
  BY DEF Stage

LEMMA CreateKeepsInv ==
    ASSUME MigrateInv, NEW body \in Bodies, CreateTodo(body)
    PROVE  MigrateInv'
<1>1. body \in Seq(Chars)
  BY MigrateAssumption
<1>2. Valid(Stored(body))
  BY <1>1, ValidatedIsValid DEF CreateTodo
<1>3. \A b \in bodies' : Valid(b)
  BY <1>2 DEF CreateTodo, MigrateInv
<1>a. IsText(Stored(body))
  BY <1>1, ValidatedIsValid DEF CreateTodo
<1>4. TypeOK'
  <2>1. \A b \in bodies' : b \in Seq(Chars) /\ TrimSpace(b) = b /\ IsText(b)
    BY <1>2, <1>a DEF MigrateInv, TypeOK, CreateTodo, Valid
  <2>. QED
    BY <2>1 DEF MigrateInv, TypeOK, CreateTodo
<1>5. PICK n \in 0..3 : Stage(n)
  BY DEF MigrateInv
<1>6. n # 0
  BY <1>5, SchemaStages DEF Stage, CreateTodo
<1>7. Stage(n)'
  BY <1>5, <1>6 DEF CreateTodo, Stage, Listed
<1>. QED
  BY <1>3, <1>4, <1>7 DEF MigrateInv

\* A migrator applies the first migration it has listed, for the first time, or
\* the second one once more.
LEMMA ApplyKeepsInv ==
    ASSUME MigrateInv, NEW m \in Migrators, ApplyNext(m)
    PROVE  MigrateInv'
<1>1. TypeOK
  BY DEF MigrateInv
<1>2. PICK n \in 0..3 : Stage(n)
  BY DEF MigrateInv
<1>3. PICK v \in 1..(n + 1) : pending[m] = v..3
  BY <1>2 DEF Stage, Listed, ApplyNext
<1>4. v \in 1..3 /\ Min(pending[m]) = v /\ pending[m] \ {v} = (v + 1)..3
  <2>1. v = 4 => v..3 = {}
    OBVIOUS
  <2>2. v \in 1..3
    BY <1>3, <2>1 DEF ApplyNext
  <2>. QED
    BY <1>3, <2>2, LeastListed
<1>5. /\ pc[m] = "goose" /\ Applies(v)
      /\ schema' = (schema \ Drops[v]) \cup Adds[v]
      /\ versions' = versions \cup {v}
      /\ bodies' = IF v = 1 THEN SeedBodies ELSE bodies
      /\ inserted' = IF v = 1 THEN inserted + 1 ELSE inserted
      /\ pending' = [pending EXCEPT ![m] = pending[m] \ {v}]
      /\ UNCHANGED <<river, pc, failures>>
  BY <1>4 DEF ApplyNext, Recorded
<1>6. /\ pending'[m] = (v + 1)..3
      /\ \A other \in Migrators \ {m} : pending'[other] = pending[other]
      /\ pending' \in [Migrators -> SUBSET (1..3)]
  BY <1>1, <1>4, <1>5 DEF TypeOK
<1>7. /\ Adds[1] = {"tables", "notBlank"} /\ Adds[2] = {"trimLength"} /\ Adds[3] = {"maxLength"}
      /\ Drops[1] = {} /\ Drops[2] = {} /\ Drops[3] = {"trimLength"}
  BY DEF Adds, Drops
<1>8. Adds[v] \cap schema = {} /\ Drops[v] \subseteq schema
  BY <1>5 DEF Applies
<1>9. \A b \in bodies' : Valid(b)
  <2>1. ASSUME NEW b \in SeedBodies PROVE Valid(b)
    BY MigrateAssumption, SeedAssumption, ValidatedIsValid
  <2>. QED
    BY <1>5, <2>1 DEF MigrateInv
<1>10. TypeOK'
  <2>1. \A b \in bodies' : b \in Seq(Chars) /\ TrimSpace(b) = b /\ IsText(b)
    BY <1>1, <1>5, <1>9, SeedAssumption DEF Valid, TypeOK
  <2>2. versions' \in SUBSET (1..3) /\ inserted' \in Nat
    BY <1>1, <1>4, <1>5 DEF TypeOK
  <2>3. schema' \in SUBSET Objects
    <3>1. Adds[v] \subseteq Objects
      BY <1>4, <1>7 DEF Objects
    <3>. QED
      BY <1>1, <1>5, <3>1 DEF TypeOK
  <2>. QED
    BY <1>1, <1>5, <1>6, <2>1, <2>2, <2>3 DEF TypeOK
<1>11. CASE v = n + 1
  <2>1. n \in 0..2 /\ n + 1 \in 0..3 /\ schema = SchemaAt(n)
    BY <1>2, <1>4, <1>11 DEF Stage
  <2>2. versions' = 1..(n + 1)
    BY <1>2, <1>5, <1>11 DEF Stage
  <2>3. schema' = SchemaAt(n + 1)
    BY <1>5, <1>7, <1>11, <2>1, SchemaStages
  <2>4. inserted' = 1 /\ n + 1 # 0
    BY <1>2, <1>5, <1>11, <2>1 DEF Stage
  <2>5. \A other \in Migrators : Listed(other, n + 1)' /\ pc[other] # "river"
    <3>1. Listed(m, n + 1)'
      BY <1>3, <1>6, <1>11, <2>1 DEF Listed
    <3>2. \A other \in Migrators \ {m} : Listed(other, n + 1)'
      BY <1>2, <1>5, <1>6, <2>1 DEF Stage, Listed
    <3>3. \A other \in Migrators : pc[other] # "river"
      BY <1>2, <2>1 DEF Stage
    <3>. QED
      BY <3>1, <3>2, <3>3
  <2>6. ~(river > 0)
    BY <1>2, <2>1 DEF Stage
  <2>7. Stage(n + 1)'
    BY <1>5, <2>1, <2>2, <2>3, <2>4, <2>5, <2>6 DEF Stage
  <2>. QED
    BY <1>9, <1>10, <2>1, <2>7 DEF MigrateInv
<1>12. CASE v # n + 1
  <2>1. v \in 1..n /\ SchemaAt(n) \subseteq schema
    BY <1>2, <1>12 DEF Stage
  <2>2. v = 2 /\ n = 3
    BY <1>2, <1>7, <1>8, <2>1, SchemaStages
  <2>3. versions' = 1..3
    BY <1>2, <1>5, <2>2 DEF Stage
  <2>4. SchemaAt(3) \subseteq schema'
    BY <1>5, <1>7, <2>1, <2>2
  <2>5. inserted' = 1
    BY <1>2, <1>5, <2>2 DEF Stage
  <2>6. \A other \in Migrators : Listed(other, 3)'
    <3>1. Listed(m, 3)'
      BY <1>6, <2>2 DEF Listed
    <3>2. \A other \in Migrators \ {m} : Listed(other, 3)'
      BY <1>2, <1>5, <1>6, <2>2 DEF Stage, Listed
    <3>. QED
      BY <3>1, <3>2
  <2>7. Stage(3)'
    BY <1>5, <2>3, <2>4, <2>5, <2>6 DEF Stage
  <2>. QED
    BY <1>9, <1>10, <2>7 DEF MigrateInv
<1>. QED
  BY <1>11, <1>12

\* Everything else a migrator does moves it on, and a migrator that has come to
\* River has nothing of Goose left to do.
LEMMA MigratorKeepsInv ==
    ASSUME MigrateInv, NEW m \in Migrators,
           \/ Start(m) \/ ApplyFails(m) \/ UpReturns(m) \/ MigrateRiver(m) \/ RiverFails(m)
           \/ CutOff(m) \/ RunAgain(m)
    PROVE  MigrateInv'
<1>. USE DEF dbVars, Goto, Fails
<1>1. TypeOK
  BY DEF MigrateInv
<1>2. PICK n \in 0..3 : Stage(n)
  BY DEF MigrateInv
<1>3. UNCHANGED <<versions, schema, inserted, bodies>>
  BY DEF Start, ApplyFails, UpReturns, MigrateRiver, RiverFails, CutOff, RunAgain
<1>4. Order[1] = "goose" /\ After("goose") = "river" /\ After("river") = "done"
  BY DEF Order, After
<1>5. CASE Start(m)
  <2>1. pc' = [pc EXCEPT ![m] = "goose"] /\ pending' = [pending EXCEPT ![m] = 1..3 \ versions]
        /\ UNCHANGED <<river, failures>>
    BY <1>4, <1>5 DEF Start
  <2>2. 1..3 \ versions = (n + 1)..3
    BY <1>2 DEF Stage
  <2>3. TypeOK'
    BY <1>1, <1>3, <2>1 DEF TypeOK
  <2>4. Listed(m, n)' /\ pc'[m] = "goose"
    BY <1>1, <2>1, <2>2 DEF Listed, TypeOK
  <2>5. \A other \in Migrators \ {m} : pc'[other] = pc[other] /\ pending'[other] = pending[other]
    BY <1>1, <2>1 DEF TypeOK
  <2>6. Stage(n)'
    BY <1>2, <1>3, <2>1, <2>4, <2>5 DEF Stage, Listed
  <2>. QED
    BY <1>3, <2>3, <2>6 DEF MigrateInv
<1>6. CASE UpReturns(m)
  <2>1. pc' = [pc EXCEPT ![m] = "river"] /\ UNCHANGED <<pending, river, failures>>
    BY <1>4, <1>6 DEF UpReturns
  <2>2. n = 3
    <3>1. PICK j \in 1..(n + 1) : j..3 = {}
      BY <1>2, <1>6 DEF Stage, Listed, UpReturns
    <3>2. ~(j <= 3)
      BY <3>1
    <3>. QED
      BY <3>1, <3>2
  <2>3. TypeOK'
    BY <1>1, <1>3, <2>1 DEF TypeOK
  <2>4. \A other \in Migrators : pc'[other] = "goose" => pc[other] = "goose"
    BY <1>1, <2>1 DEF TypeOK
  <2>5. Stage(n)'
    BY <1>2, <1>3, <2>1, <2>2, <2>4 DEF Stage, Listed
  <2>. QED
    BY <1>3, <2>3, <2>5 DEF MigrateInv
<1>7. CASE MigrateRiver(m) \/ RiverFails(m)
  <2>1. pc[m] = "river" /\ UNCHANGED <<pending, failures>> /\ river' \in 0..RiverLatest
    BY <1>1, <1>7, MigrateAssumption DEF MigrateRiver, RiverFails, TypeOK
  <2>2. n = 3
    BY <1>2, <2>1 DEF Stage
  <2>3. \/ pc' = pc
        \/ pc' = [pc EXCEPT ![m] = "done"]
        \/ pc' = [pc EXCEPT ![m] = "failed"]
    BY <1>4, <1>7 DEF MigrateRiver, RiverFails
  <2>4. /\ pc' \in [Migrators -> {"start", "goose", "river", "done", "failed"}]
        /\ \A other \in Migrators : pc'[other] = "goose" => pc[other] = "goose"
    BY <1>1, <2>3 DEF TypeOK
  <2>5. TypeOK'
    BY <1>1, <1>3, <2>1, <2>4 DEF TypeOK
  <2>6. Stage(n)'
    BY <1>2, <1>3, <2>1, <2>2, <2>4 DEF Stage, Listed
  <2>. QED
    BY <1>3, <2>5, <2>6 DEF MigrateInv
<1>8. CASE ApplyFails(m) \/ CutOff(m) \/ RunAgain(m)
  <2>1. /\ pc' = [pc EXCEPT ![m] = "failed"] \/ pc' = [pc EXCEPT ![m] = "start"]
        /\ UNCHANGED <<pending, river>> /\ failures' \in 0..MaxFailures
    BY <1>1, <1>8, MigrateAssumption DEF ApplyFails, CutOff, RunAgain, TypeOK
  <2>2. /\ pc' \in [Migrators -> {"start", "goose", "river", "done", "failed"}]
        /\ \A other \in Migrators : /\ pc'[other] = "goose" => pc[other] = "goose"
                                    /\ pc'[other] = "river" => pc[other] = "river"
    BY <1>1, <2>1 DEF TypeOK
  <2>3. TypeOK'
    BY <1>1, <1>3, <2>1, <2>2 DEF TypeOK
  <2>4. Stage(n)'
    BY <1>2, <1>3, <2>1, <2>2 DEF Stage, Listed
  <2>. QED
    BY <1>3, <2>3, <2>4 DEF MigrateInv
<1>. QED
  BY <1>5, <1>6, <1>7, <1>8

LEMMA MigrateInvInit == Init => MigrateInv
<1>. SUFFICES ASSUME Init PROVE MigrateInv
  OBVIOUS
<1>1. TypeOK
  BY MigrateAssumption DEF Init, TypeOK
<1>2. 1..0 = {} /\ SchemaAt(0) = {}
  BY SchemaStages
<1>3. Stage(0)
  BY <1>2 DEF Init, Stage, Listed
<1>. QED
  BY <1>1, <1>3 DEF Init, MigrateInv

LEMMA MigrateInvKept == MigrateInv /\ [Next]_vars => MigrateInv'
<1>. SUFFICES ASSUME MigrateInv, [Next]_vars PROVE MigrateInv'
  OBVIOUS
<1>1. CASE UNCHANGED vars
  BY <1>1 DEF MigrateInv, TypeOK, Stage, Listed, vars, dbVars
<1>. QED
  BY <1>1, ApplyKeepsInv, MigratorKeepsInv, CreateKeepsInv DEF Next, Run

\* The state has its types, and what is stored is trimmed.
THEOREM MigrateTypeCorrect == Spec => []TypeOK
<1>1. MigrateInv => TypeOK
  BY DEF MigrateInv
<1>. QED
  BY <1>1, MigrateInvInit, MigrateInvKept, PTL DEF Spec

\* However many migrators there are, and wherever they are cut off, the version
\* table tells which bodies the database accepts, and the seed rows were inserted
\* once: the transactions make up for the lock that nobody takes.
THEOREM VersionsAlwaysTellSchema == Spec => []VersionsTellSchema
<1>1. MigrateInv => VersionsTellSchema
  <2>. SUFFICES ASSUME MigrateInv PROVE VersionsTellSchema
    OBVIOUS
  <2>1. PICK n \in 0..3 : Stage(n)
    BY DEF MigrateInv
  <2>2. ASSUME NEW body \in Bodies PROVE Accepts(schema, body) <=> Accepts(SchemaAt(n), body)
    <3>1. CASE n # 3
      BY <2>1, <3>1 DEF Stage
    <3>2. CASE n = 3
      <4>1. schema \subseteq Objects /\ SchemaAt(3) = {"tables", "notBlank", "maxLength"}
            /\ SchemaAt(3) \subseteq schema
        BY <2>1, <3>2, SchemaStages DEF MigrateInv, TypeOK, Stage
      <4>2. Holds("notBlank", body) /\ Holds("maxLength", body) => Holds("trimLength", body)
        BY MigrateAssumption, SplitConstraint
      <4>. QED
        BY <3>2, <4>1, <4>2 DEF Accepts, Objects
    <3>. QED
      BY <3>1, <3>2
  <2>. QED
    BY <2>1, <2>2 DEF Stage, VersionsTellSchema
<1>. QED
  BY <1>1, MigrateInvInit, MigrateInvKept, PTL DEF Spec

\* What Go lets pass no constraint of any version refuses, although Go and SQL
\* trim differently; and no stored row stands in the way of a migration.
THEOREM NoConstraintEverRefuses == Spec => []NoConstraintRefuses
<1>1. MigrateInv => NoConstraintRefuses
  <2>. SUFFICES ASSUME MigrateInv PROVE NoConstraintRefuses
    OBVIOUS
  <2>1. ASSUME NEW body \in Bodies, validateTodoBody(body) PROVE Accepts(schema, Stored(body))
    <3>1. Valid(Stored(body))
      BY <2>1, MigrateAssumption, ValidatedIsValid
    <3>. QED
      BY <3>1, ValidHolds DEF Accepts, MigrateInv, TypeOK
  <2>2. ASSUME NEW v \in 1..3 \ versions, NEW body \in bodies PROVE Accepts(Adds[v], body)
    <3>1. Valid(body) /\ Adds[v] \subseteq Objects
      BY DEF MigrateInv, Adds, Objects
    <3>. QED
      BY <3>1, ValidHolds DEF Accepts
  <2>. QED
    BY <2>1, <2>2 DEF NoConstraintRefuses
<1>. QED
  BY <1>1, MigrateInvInit, MigrateInvKept, PTL DEF Spec

\* A server that finds the tables it looks for in a database that began empty finds
\* every Goose migration applied, for River's tables come after them.
THEOREM ReadyAlwaysMeansMigrated == Spec => []ReadyMeansMigrated
<1>1. MigrateInv => ReadyMeansMigrated
  BY DEF MigrateInv, TypeOK, Stage, Ready, ReadyMeansMigrated
<1>. QED
  BY <1>1, MigrateInvInit, MigrateInvKept, PTL DEF Spec
=============================================================================
