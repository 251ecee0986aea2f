---------------------------- MODULE AuditProofs ----------------------------
(***************************************************************************)
(* Proofs about the report of the audit thread of WorkshopService.  Its    *)
(* balances are sums over rows, MapThenSumSet of the community modules;    *)
(* what is needed of such sums is proved here first, by smallest           *)
(* counterexamples in place of induction.                                  *)
(***************************************************************************)
EXTENDS LedgerProofs, WellFoundedInduction

-----------------------------------------------------------------------------
\* Smallest counterexamples.

\* A nonempty set of numbers has a least one.
LEMMA LeastNumber ==
    ASSUME NEW T \in SUBSET Nat, T # {}
    PROVE  \E m \in T : \A k \in T : m <= k
<1> DEFINE R == {ss \in Nat \X Nat : ss[1] < ss[2]}
<1>1. IsWellFoundedOn(R, Nat)
  BY NatLessThanWellFounded DEF OpToRel
<1> HIDE DEF R
<1>2. PICK m \in T : \A k \in T : ~ (<<k, m>> \in R)
  BY <1>1, WFMin
<1>3. \A k \in T : ~ (k < m)
  BY <1>2 DEF R
<1>4. \A k \in T : m <= k
  BY <1>3
<1> QED
  BY <1>4

\* A nonempty family of subsets of a finite set has a member none of whose
\* proper subsets belongs to it: what fails for some subset fails first there.
LEMMA MinimalMember ==
    ASSUME NEW S, IsFiniteSet(S), NEW Bad \in SUBSET (SUBSET S), Bad # {}
    PROVE  \E s \in Bad : \A t \in SUBSET s : t # s => t \notin Bad
<1>1. \A s \in SUBSET S : IsFiniteSet(s) /\ Cardinality(s) \in Nat
  BY FS_Subset, FS_CardinalityType
<1> DEFINE Sizes == {Cardinality(s) : s \in Bad}
<1>2. Sizes \in SUBSET Nat /\ Sizes # {}
  BY <1>1
<1>3. PICK m \in Sizes : \A k \in Sizes : m <= k
  BY <1>2, LeastNumber
<1>4. PICK s \in Bad : Cardinality(s) = m
  BY <1>3
<1>5. ASSUME NEW t \in SUBSET s, t # s, t \in Bad
      PROVE  FALSE
  <2>1. Cardinality(t) <= Cardinality(s) /\ Cardinality(t) # Cardinality(s)
    BY <1>1, <1>5, FS_Subset
  <2>2. Cardinality(s) <= Cardinality(t)
    BY <1>3, <1>4, <1>5
  <2> QED
    BY <1>1, <1>5, <2>1, <2>2
<1> QED
  BY <1>5

-----------------------------------------------------------------------------
\* Sums over the rows of a table.

\* SUM(amount) over the rows S of a table.
SumOf(table, S) == MapThenSumSet(LAMBDA t : table[t].amount, S)

\* The fold behind it: a function g of the subsets of S, which takes one row
\* after the other out of its argument.
OneOf(s) == CHOOSE x \in s : TRUE
IsFold(table, S, g) ==
    g = [s \in SUBSET S |-> IF s = {} THEN 0 ELSE table[OneOf(s)].amount + g[s \ {OneOf(s)}]]
FoldOf(table, S) == CHOOSE g : IsFold(table, S, g)

\* A sum is the value of its fold.
LEMMA SumIsFold == ASSUME NEW table, NEW S PROVE SumOf(table, S) = FoldOf(table, S)[S]
  BY DEF SumOf, MapThenSumSet, MapThenFoldSet, FoldOf, IsFold, OneOf

\* The element taken out of a set that is not empty is one of its own.
LEMMA OneOfIsMember == \A s : s # {} => OneOf(s) \in s
  BY DEF OneOf

\* Two folds over tables that agree on the rows of s agree on s.
LEMMA FoldsAgree ==
    ASSUME NEW S, NEW T, IsFiniteSet(S), NEW s \in SUBSET S, s \in SUBSET T,
           NEW table, NEW other, \A t \in s : table[t].amount = other[t].amount,
           NEW g, IsFold(table, S, g), NEW h, IsFold(other, T, h)
    PROVE  g[s] = h[s]
<1> DEFINE Bad == {u \in SUBSET s : g[u] # h[u]}
<1> SUFFICES ASSUME Bad # {} PROVE FALSE
  OBVIOUS
<1>1. IsFiniteSet(s)
  BY FS_Subset
<1>2. Bad \in SUBSET (SUBSET s)
  OBVIOUS
<1> HIDE DEF Bad
<1>3. PICK u \in Bad : \A v \in SUBSET u : v # u => v \notin Bad
  BY <1>1, <1>2, MinimalMember
<1>4. u \in SUBSET s /\ g[u] # h[u]
  BY <1>3 DEF Bad
<1>5. /\ g[u] = IF u = {} THEN 0 ELSE table[OneOf(u)].amount + g[u \ {OneOf(u)}]
      /\ h[u] = IF u = {} THEN 0 ELSE other[OneOf(u)].amount + h[u \ {OneOf(u)}]
  BY <1>4 DEF IsFold
<1>6. u # {}
  BY <1>4, <1>5
<1>7. OneOf(u) \in u
  BY <1>6, OneOfIsMember
<1>8. table[OneOf(u)].amount = other[OneOf(u)].amount
  BY <1>4, <1>7
<1>9. g[u \ {OneOf(u)}] = h[u \ {OneOf(u)}]
  <2>1. u \ {OneOf(u)} \in SUBSET u /\ u \ {OneOf(u)} # u
    BY <1>7
  <2>2. u \ {OneOf(u)} \notin Bad
    BY <1>3, <2>1
  <2> QED
    BY <1>4, <2>1, <2>2 DEF Bad
<1> QED
  BY <1>4, <1>5, <1>6, <1>8, <1>9

\* A finite set has a fold.
LEMMA FoldExists ==
    ASSUME NEW U, IsFiniteSet(U), NEW table
    PROVE  IsFold(table, U, FoldOf(table, U))
<1> DEFINE Bad == {S \in SUBSET U : ~IsFold(table, S, FoldOf(table, S))}
<1> SUFFICES ASSUME Bad # {} PROVE FALSE
  OBVIOUS
<1>1. Bad \in SUBSET (SUBSET U)
  OBVIOUS
<1> HIDE DEF Bad
<1>2. PICK S \in Bad : \A T \in SUBSET S : T # S => T \notin Bad
  BY <1>1, MinimalMember
<1>3. S \in SUBSET U /\ ~IsFold(table, S, FoldOf(table, S))
  BY <1>2 DEF Bad
<1>4. \A T \in SUBSET S : T # S => IsFold(table, T, FoldOf(table, T))
  BY <1>2, <1>3 DEF Bad
<1> DEFINE total(T) == FoldOf(table, T)[T]
           h == [s \in SUBSET S |-> IF s = {} THEN 0
                                    ELSE table[OneOf(s)].amount + total(s \ {OneOf(s)})]
<1>5. ASSUME NEW s \in SUBSET S, s # {}
      PROVE  h[s \ {OneOf(s)}] = total(s \ {OneOf(s)})
  <2> DEFINE r == s \ {OneOf(s)}
             rest == r \ {OneOf(r)}
  <2>1. OneOf(s) \in s
    BY <1>5, OneOfIsMember
  <2>2. r \in SUBSET S /\ r # S
    BY <2>1
  <2>3. IsFold(table, r, FoldOf(table, r))
    BY <1>4, <2>2
  <2>4. total(r) = IF r = {} THEN 0 ELSE table[OneOf(r)].amount + FoldOf(table, r)[rest]
    <3>1. FoldOf(table, r) = [u \in SUBSET r |-> IF u = {} THEN 0
                ELSE table[OneOf(u)].amount + FoldOf(table, r)[u \ {OneOf(u)}]]
      BY <2>3 DEF IsFold
    <3> HIDE DEF r
    <3> QED
      BY <3>1
  <2>5. CASE r = {}
    BY <2>2, <2>4, <2>5
  <2>6. CASE r # {}
    <3>1. OneOf(r) \in r
      BY <2>6, OneOfIsMember
    <3>2. rest \in SUBSET S /\ rest # S /\ rest \in SUBSET r
      BY <2>1, <3>1
    <3>3. IsFold(table, rest, FoldOf(table, rest))
      BY <1>4, <3>2
    <3>4. IsFiniteSet(r)
      BY <1>3, <2>2, FS_Subset
    <3>5. FoldOf(table, r)[rest] = FoldOf(table, rest)[rest]
      <4> HIDE DEF r, rest
      <4> QED
        BY <2>3, <3>2, <3>3, <3>4, FoldsAgree
    <3> QED
      BY <2>2, <2>4, <2>6, <3>5
  <2> QED
    BY <2>5, <2>6
<1>6. h = [s \in SUBSET S |-> IF s = {} THEN 0 ELSE table[OneOf(s)].amount + h[s \ {OneOf(s)}]]
  BY <1>5
<1>7. IsFold(table, S, h)
  BY <1>6 DEF IsFold
<1>8. IsFold(table, S, FoldOf(table, S))
  <2> HIDE DEF h
  <2> QED
    BY <1>7 DEF FoldOf
<1> QED
  BY <1>3, <1>8

\* No rows add up to nothing; other rows to the row the fold takes out first
\* and the sum of the rest.
LEMMA SumUnfolds ==
    ASSUME NEW S, IsFiniteSet(S), NEW table
    PROVE  /\ S = {} => SumOf(table, S) = 0
           /\ S # {} => SumOf(table, S) = table[OneOf(S)].amount + SumOf(table, S \ {OneOf(S)})
<1> DEFINE rest == S \ {OneOf(S)}
<1>1. IsFiniteSet(rest)
  BY FS_Subset
<1>2. IsFold(table, S, FoldOf(table, S)) /\ IsFold(table, rest, FoldOf(table, rest))
  BY <1>1, FoldExists
<1>3. FoldOf(table, S)[rest] = FoldOf(table, rest)[rest]
  <2> HIDE DEF rest
  <2>1. rest \in SUBSET S /\ rest \in SUBSET rest
    BY DEF rest
  <2> QED
    BY <1>2, <2>1, FoldsAgree
<1>4. FoldOf(table, S)[S] = IF S = {} THEN 0 ELSE table[OneOf(S)].amount + FoldOf(table, S)[rest]
  <2>1. FoldOf(table, S) = [s \in SUBSET S |-> IF s = {} THEN 0
           ELSE table[OneOf(s)].amount + FoldOf(table, S)[s \ {OneOf(s)}]]
    BY <1>2 DEF IsFold
  <2> QED
    BY <2>1
<1> QED
  BY <1>3, <1>4, SumIsFold

\* Rows with numbers add up to a number, and any row of S can be taken out of
\* the sum: the order of the fold does not matter.
LEMMA SumSplits ==
    ASSUME NEW U, IsFiniteSet(U), NEW table, \A t \in U : table[t].amount \in Int
    PROVE  /\ SumOf(table, U) \in Int
           /\ \A t \in U : SumOf(table, U) = table[t].amount + SumOf(table, U \ {t})
<1> DEFINE Splits(S) == /\ SumOf(table, S) \in Int
                        /\ \A t \in S : SumOf(table, S) = table[t].amount + SumOf(table, S \ {t})
           Bad == {S \in SUBSET U : ~Splits(S)}
<1> SUFFICES ASSUME Bad # {} PROVE FALSE
  OBVIOUS
<1>1. Bad \in SUBSET (SUBSET U)
  OBVIOUS
<1> HIDE DEF Bad
<1>2. PICK S \in Bad : \A T \in SUBSET S : T # S => T \notin Bad
  BY <1>1, MinimalMember
<1>3. S \in SUBSET U /\ ~Splits(S)
  BY <1>2 DEF Bad
<1>4. \A T \in SUBSET S : T # S => Splits(T)
  BY <1>2, <1>3 DEF Bad
<1>5. IsFiniteSet(S)
  BY <1>3, FS_Subset
<1>6. S # {}
  <2>1. SumOf(table, {}) = 0
    BY FS_EmptySet, SumUnfolds
  <2> QED
    BY <1>3, <2>1
<1>7. PICK c : c = OneOf(S)
  OBVIOUS
<1>8. c \in S /\ SumOf(table, S) = table[c].amount + SumOf(table, S \ {c})
  BY <1>5, <1>6, <1>7, SumUnfolds, OneOfIsMember
<1>9. Splits(S \ {c})
  <2>1. S \ {c} \in SUBSET S /\ S \ {c} # S
    BY <1>8
  <2> HIDE DEF Splits
  <2> QED
    BY <1>4, <2>1
<1>10. SumOf(table, S) \in Int
  <2>1. SumOf(table, S \ {c}) \in Int /\ table[c].amount \in Int
    BY <1>3, <1>8, <1>9
  <2> QED
    BY <1>8, <2>1
<1>11. ASSUME NEW t \in S
       PROVE  SumOf(table, S) = table[t].amount + SumOf(table, S \ {t})
  <2>1. CASE t = c
    BY <1>8, <2>1
  <2>2. CASE t # c
    <3> DEFINE rest == (S \ {c}) \ {t}
    <3>1. SumOf(table, S \ {c}) = table[t].amount + SumOf(table, rest)
      BY <1>9, <2>2
    <3>2. S \ {t} \in SUBSET S /\ S \ {t} # S
      OBVIOUS
    <3>3. Splits(S \ {t})
      <4> HIDE DEF Splits
      <4> QED
        BY <1>4, <3>2
    <3>4. SumOf(table, S \ {t}) = table[c].amount + SumOf(table, (S \ {t}) \ {c})
      BY <1>8, <2>2, <3>3
    <3>5. (S \ {t}) \ {c} = rest
      OBVIOUS
    <3>6. rest \in SUBSET S /\ rest # S
      BY <1>8
    <3>7. Splits(rest)
      <4> HIDE DEF Splits, rest
      <4> QED
        BY <1>4, <3>6
    <3>8. SumOf(table, rest) \in Int /\ table[c].amount \in Int /\ table[t].amount \in Int
      BY <1>3, <1>8, <3>7
    <3>9. SumOf(table, S \ {t}) = table[c].amount + SumOf(table, rest)
      BY <3>4, <3>5
    <3> HIDE DEF rest
    <3> QED
      BY <1>8, <3>1, <3>8, <3>9
  <2> QED
    BY <2>1, <2>2
<1> QED
  BY <1>3, <1>10, <1>11

-----------------------------------------------------------------------------
\* The list of overbooked intervals.

\* From the moment it has counted the rows the audit knows of every overbooked
\* interval: nobody else gets at the rows before it closes its report.
OverlapsNamed ==
    pc[Auditor] \in {"solduri", "unlock"} =>
        \A room \in Rooms : \A ora \in Times :
            Load(reservations, room, OraGrup[ora]) > MaxCap(room)
                => <<room, OraGrup[ora]>> \in report.critic

OverlapsInv == TypeInv /\ MutualExclusion /\ OverlapsNamed

\* An interval with more rows than seats has a row, and by that row it is a
\* group of the report.
LEMMA OverlapIsGroup ==
    ASSUME TypeInv, NEW room \in Rooms, Capacity[room] # NoRow, NEW ora \in Times,
           Load(reservations, room, OraGrup[ora]) > MaxCap(room)
    PROVE  <<room, OraGrup[ora]>> \in Suprapuneri
<1> DEFINE slot == OraGrup[ora]
<1>1. MaxCap(room) = Capacity[room] /\ Capacity[room] \in Nat
  BY SchemaAssumption DEF MaxCap
<1>2. Occupied(reservations, room, slot) # {}
  <2> SUFFICES ASSUME Occupied(reservations, room, slot) = {} PROVE FALSE
    OBVIOUS
  <2>1. Load(reservations, room, slot) = 0
    BY FS_EmptySet DEF Load
  <2> QED
    BY <1>1, <2>1
<1>3. PICK id \in Occupied(reservations, room, slot) : TRUE
  BY <1>2
<1>4. /\ id \in Reported /\ reservations[id].room = room /\ SlotOf(id) = slot
  BY <1>3 DEF Occupied, SameInterval, Reported, SlotOf
<1>5. <<room, slot>> \in {<<reservations[i].room, SlotOf(i)>> : i \in Reported}
  BY <1>4
<1> QED
  BY <1>1, <1>5 DEF Suprapuneri

\* Every step keeps the list complete.
LEMMA OverlapsStep ==
    ASSUME "audit" \notin Faults, \A room \in Rooms : Capacity[room] # NoRow,
           OverlapsInv, [Next]_vars
    PROVE  OverlapsInv'
<1>1. TypeInv' /\ MutualExclusion'
  BY TypeNext, MutexStep DEF OverlapsInv
<1> SUFFICES OverlapsNamed'
  BY <1>1 DEF OverlapsInv
<1> USE ServiceAssumption DEF OverlapsInv, TypeInv, TypeOK, Threads
<1>2. ASSUME UNCHANGED <<reservations, report>>, pc'[Auditor] = pc[Auditor]
      PROVE  OverlapsNamed'
  BY <1>2 DEF OverlapsNamed
<1>3. ASSUME pc'[Auditor] \notin {"solduri", "unlock"}
      PROVE  OverlapsNamed'
  BY <1>3 DEF OverlapsNamed
<1>4. ASSUME NEW w \in Workers, pc[w] \in CriticalLabels, pc'[Auditor] = pc[Auditor]
      PROVE  OverlapsNamed'
  <2>1. pc[Auditor] \notin CriticalLabels
    BY <1>4, OneAtATime
  <2> QED
    BY <1>3, <1>4, <2>1 DEF CriticalLabels
<1>5. ASSUME NEW w \in Workers, NewRequest(w) \/ Lock(w) \/ Return(w)
      PROVE  OverlapsNamed'
  BY <1>2, <1>5 DEF NewRequest, Lock, Return, Answer, Goto, db
<1>6. ASSUME NEW w \in Workers, Statement(w)
      PROVE  OverlapsNamed'
  <2>1. pc[w] \in CriticalLabels
    BY <1>6 DEF Statement, RezervareCapacitate, RezervareOcupare, RezervareInsert, RezervarePlin,
       PlataUpdate, PlataIncasare, AnulareGasita, AnulareNegasita, AnulareUpdate, AnulareRamburs,
       CriticalLabels
  <2>2. pc'[Auditor] = pc[Auditor]
    BY <1>6 DEF Statement, RezervareCapacitate, RezervareOcupare, RezervareInsert, RezervarePlin,
       PlataUpdate, PlataIncasare, AnulareGasita, AnulareNegasita, AnulareUpdate, AnulareRamburs,
       Plateste, UpdateById, Answer, Goto
  <2> QED
    BY <1>4, <2>1, <2>2
<1>7. CASE AuditOcupari
  <2>1. report' = [report EXCEPT !.critic = Suprapuneri] /\ UNCHANGED reservations
    BY <1>7 DEF AuditOcupari, db
  <2>2. report'.critic = Suprapuneri
    BY <2>1
  <2>3. ASSUME NEW room \in Rooms, NEW ora \in Times,
               Load(reservations, room, OraGrup[ora]) > MaxCap(room)
        PROVE  <<room, OraGrup[ora]>> \in Suprapuneri
    BY <2>3, OverlapIsGroup
  <2> QED
    BY <2>1, <2>2, <2>3 DEF OverlapsNamed
<1>8. CASE AuditSolduri
  <2>1. pc[Auditor] = "solduri" /\ UNCHANGED reservations /\ report'.critic = report.critic
    BY <1>8 DEF AuditSolduri, db
  <2> QED
    BY <2>1 DEF OverlapsNamed
<1>9. CASE NewProcess
  BY <1>3, <1>9 DEF NewProcess, FreshPC
<1>10. CASE AuditStep
  <2>1. CASE AuditWake \/ Lock(Auditor) \/ AuditExpira \/ AuditUnlock
    BY <1>3, <2>1 DEF AuditWake, Lock, FirstStatement, AuditExpira, AuditUnlock, Goto
  <2> QED
    BY <1>7, <1>8, <1>9, <1>10, <2>1 DEF AuditStep, AuditTermina
<1>11. CASE UNCHANGED <<reservations, pc, report>>
  BY <1>2, <1>11
<1> QED
  BY <1>5, <1>6, <1>9, <1>10, <1>11 DEF Next, WorkerStep, Crash, TimeoutPasses, vars, db

\* Whatever reads and writes of the workers fail and wherever the process dies,
\* an audit whose own statements succeed has named every overbooked interval
\* when it closes its report, provided every pair has a capacity row: the JOIN
\* of the report drops the others.
THEOREM AuditNamesOverlaps ==
    ASSUME "audit" \notin Faults, \A room \in Rooms : Capacity[room] # NoRow
    PROVE  Spec => []OverlapsReported
<1>1. Init => OverlapsInv
  <2> SUFFICES ASSUME Init PROVE OverlapsInv
    OBVIOUS
  <2> QED
    BY SeatsInit, ServiceAssumption
    DEF SeatsInv, OverlapsInv, OverlapsNamed, Init, FreshPC, Threads
<1>2. OverlapsInv /\ [Next]_vars => OverlapsInv'
  BY OverlapsStep
<1>3. OverlapsInv => OverlapsReported
  BY DEF OverlapsInv, OverlapsNamed, OverlapsReported
<1> QED
  BY <1>1, <1>2, <1>3, PTL DEF Spec

-----------------------------------------------------------------------------
\* The balances.

\* The rows the second statement of the report adds up for a center, and those
\* among them that are payments of a reservation still paid.
RowsOf(c) ==
    {t \in DOMAIN transactions : reservations[transactions[t].reservation_id].room[1] = c}
PaidRows(c) ==
    {t \in DOMAIN transactions :
        LET id == transactions[t].reservation_id IN
        /\ transactions[t].type = "INCASARE"
        /\ Matches(reservations, id, "PLATITA") /\ reservations[id].room[1] = c}

\* The cancelled reservations of a center, and all rows of some reservations.
CancelledOf(c) ==
    {id \in DOMAIN reservations :
        reservations[id].status = "ANULATA" /\ reservations[id].room[1] = c}
RowsFor(ids) == {t \in DOMAIN transactions : transactions[t].reservation_id \in ids}

\* Nobody is between the two statements of a payment or a refund.
NobodyInFlight == \A id : ~InFlight(id, "incasare") /\ ~InFlight(id, "ramburs")

\* What the report writes for a center is the sum over its rows.
LEMMA SoldIsSum == ASSUME NEW c PROVE Sold(c) = SumOf(transactions, RowsOf(c))
  BY DEF Sold, SumOf, RowsOf, MapThenSumSet, MapThenFoldSet

\* A cancelled reservation has two rows, one the reverse of the other.
LEMMA CancelledPair ==
    ASSUME LedgerInv, NobodyInFlight, NEW id \in DOMAIN reservations,
           reservations[id].status = "ANULATA"
    PROVE  \E t, u \in DOMAIN transactions :
              /\ t # u /\ RowsFor({id}) = {t, u}
              /\ transactions[u].amount = -transactions[t].amount
<1> USE DEF LedgerInv, MoneyInv
<1>1. PICK t \in Entries(id, "INCASARE") : TRUE
  BY DEF PaymentsRecorded, NobodyInFlight
<1>2. PICK u \in Entries(id, "RAMBURS") : TRUE
  BY DEF RefundsRecorded, NobodyInFlight
<1>3. /\ t \in DOMAIN transactions /\ transactions[t].reservation_id = id
      /\ u \in DOMAIN transactions /\ transactions[u].reservation_id = id
      /\ transactions[t].type = "INCASARE" /\ transactions[u].type = "RAMBURS"
  BY <1>1, <1>2 DEF Entries
<1>4. /\ DOMAIN transactions = 1..Len(transactions) /\ Len(transactions) \in Nat
      /\ \A v \in DOMAIN transactions : transactions[v] \in Transaction
  BY LenProperties DEF TypeInv, TypeOK
<1>5. PICK v \in 1..(u - 1) : transactions[v] =
         [reservation_id |-> id, type |-> "INCASARE", amount |-> -transactions[u].amount]
  BY <1>3 DEF MoneyConserved
<1>6. v = t
  BY <1>3, <1>4, <1>5 DEF MoneyConserved
<1>7. transactions[t].amount = -transactions[u].amount
  BY <1>5, <1>6
<1>8. transactions[u].amount = -transactions[t].amount
  <2>1. transactions[u].amount \in Int
    BY <1>3, <1>4 DEF Transaction
  <2> QED
    BY <1>7, <2>1
<1>9. RowsFor({id}) = {t, u}
  <2>1. ASSUME NEW x \in RowsFor({id}) PROVE x \in {t, u}
    <3>1. x \in DOMAIN transactions /\ transactions[x].reservation_id = id
      BY DEF RowsFor
    <3>2. transactions[x].type \in {"INCASARE", "RAMBURS"}
      BY <1>4, <3>1 DEF Transaction
    <3> QED
      BY <1>3, <3>1, <3>2 DEF MoneyConserved
  <2> QED
    BY <1>3, <2>1 DEF RowsFor
<1> QED
  BY <1>3, <1>8, <1>9

\* The rows of cancelled reservations cancel out.
LEMMA CancelledAddNothing ==
    ASSUME LedgerInv, NobodyInFlight, NEW c
    PROVE  SumOf(transactions, PaidRows(c) \cup RowsFor(CancelledOf(c))) =
           SumOf(transactions, PaidRows(c))
<1> DEFINE With(ids) == PaidRows(c) \cup RowsFor(ids)
           Bad == {ids \in SUBSET CancelledOf(c) :
                      SumOf(transactions, With(ids)) # SumOf(transactions, PaidRows(c))}
<1> SUFFICES ASSUME Bad # {} PROVE FALSE
  OBVIOUS
<1>1. /\ IsFiniteSet(DOMAIN transactions) /\ IsFiniteSet(DOMAIN reservations)
      /\ \A v \in DOMAIN transactions : transactions[v] \in Transaction
  BY LenProperties, FS_Interval DEF LedgerInv, MoneyInv, TypeInv, TypeOK
<1>2. IsFiniteSet(CancelledOf(c))
  <2>1. CancelledOf(c) \in SUBSET DOMAIN reservations
    BY DEF CancelledOf
  <2> QED
    BY <1>1, <2>1, FS_Subset
<1>3. PICK ids \in Bad : \A less \in SUBSET ids : less # ids => less \notin Bad
  <2>1. Bad \in SUBSET (SUBSET CancelledOf(c))
    OBVIOUS
  <2> HIDE DEF Bad
  <2> QED
    BY <1>2, <2>1, MinimalMember
<1>4. ids \in SUBSET CancelledOf(c) /\ SumOf(transactions, With(ids)) # SumOf(transactions, PaidRows(c))
  BY <1>3
<1>5. ids # {}
  <2>1. RowsFor({}) = {}
    BY DEF RowsFor
  <2>2. PaidRows(c) \cup {} = PaidRows(c)
    OBVIOUS
  <2> QED
    BY <1>4, <2>1, <2>2
<1>6. PICK id \in ids : TRUE
  BY <1>5
<1>7. id \in DOMAIN reservations /\ reservations[id].status = "ANULATA"
  BY <1>4 DEF CancelledOf
<1>8. PICK t, u \in DOMAIN transactions :
         /\ t # u /\ RowsFor({id}) = {t, u}
         /\ transactions[u].amount = -transactions[t].amount
  BY <1>7, CancelledPair
<1> DEFINE less == ids \ {id}
<1>9. SumOf(transactions, With(less)) = SumOf(transactions, PaidRows(c))
  <2>1. less \in SUBSET ids /\ less # ids /\ less \in SUBSET CancelledOf(c)
    BY <1>4
  <2>2. less \notin Bad
    <3> HIDE DEF Bad, less
    <3> QED
      BY <1>3, <2>1
  <2> QED
    BY <2>1, <2>2
<1>10. /\ t \in With(ids) /\ u \in With(ids) \ {t}
       /\ (With(ids) \ {t}) \ {u} = With(less)
       /\ With(ids) \in SUBSET DOMAIN transactions
  <2>1. \A x : x \in {t, u} <=> x \in DOMAIN transactions /\ transactions[x].reservation_id = id
    BY <1>8 DEF RowsFor
  <2>2. t \notin PaidRows(c) /\ u \notin PaidRows(c)
    BY <1>7, <2>1 DEF PaidRows, Matches
  <2> QED
    BY <1>8, <2>1, <2>2 DEF RowsFor, PaidRows
<1> HIDE DEF With, less, Bad
<1>11. /\ IsFiniteSet(With(ids)) /\ IsFiniteSet(With(ids) \ {t}) /\ IsFiniteSet(With(less))
       /\ \A x \in With(ids) : transactions[x].amount \in Int
       /\ \A x \in With(ids) \ {t} : transactions[x].amount \in Int
       /\ \A x \in With(less) : transactions[x].amount \in Int
  BY <1>1, <1>10, FS_Subset DEF Transaction
<1>12. SumOf(transactions, With(ids)) = transactions[t].amount + SumOf(transactions, With(ids) \ {t})
  BY <1>10, <1>11, SumSplits
<1>13. SumOf(transactions, With(ids) \ {t}) = transactions[u].amount + SumOf(transactions, With(less))
  BY <1>10, <1>11, SumSplits
<1>14. SumOf(transactions, With(less)) \in Int /\ transactions[t].amount \in Int
  BY <1>10, <1>11, SumSplits
<1>15. SumOf(transactions, With(ids)) = SumOf(transactions, With(less))
  BY <1>8, <1>12, <1>13, <1>14
<1> QED
  BY <1>4, <1>9, <1>15

\* Between operations a center's balance is what was taken for its
\* reservations that are paid at that moment.
LEMMA BalanceIsPaid ==
    ASSUME LedgerInv, NobodyInFlight, NEW c
    PROVE  Sold(c) = SumOf(transactions, PaidRows(c))
<1>1. RowsOf(c) = PaidRows(c) \cup RowsFor(CancelledOf(c))
  BY DEF LedgerInv, MoneyInv, MoneyConserved, RowsOf, PaidRows, RowsFor, CancelledOf, Matches
<1> QED
  BY <1>1, SoldIsSum, CancelledAddNothing

-----------------------------------------------------------------------------
\* The whole report.

\* A report never holds an overbooked interval, and a closed one holds the
\* balances of the rows as they still are.
ReportClean == report.critic = {}
BalancesPaid ==
    pc[Auditor] = "unlock" =>
        \A c \in Centers : report.solduri[c] = SumOf(transactions, PaidRows(c))

ReportInv == SeatsInv /\ LedgerInv /\ ReportClean /\ BalancesPaid

\* No group of the report has more rows than seats.
LEMMA NoOverlap == ASSUME SeatsInv PROVE Suprapuneri = {}
<1> SUFFICES ASSUME NEW id \in Reported,
                    Load(reservations, reservations[id].room, SlotOf(id)) >
                       Capacity[reservations[id].room]
             PROVE  FALSE
  BY DEF Suprapuneri
<1> USE DEF SeatsInv, TypeInv, TypeOK
<1>1. /\ reservations[id] \in Reservation
      /\ Capacity[reservations[id].room] # NoRow
  BY LenProperties DEF Reported
<1>2. PICK room \in Rooms : room = reservations[id].room
  BY <1>1 DEF Reservation
<1>3. PICK ora \in Times : ora = reservations[id].ora
  BY <1>1 DEF Reservation
<1>4. Load(reservations, room, OraGrup[ora]) <= Capacity[room]
  BY <1>1, <1>2 DEF SeatsWithinCapacity, MaxCap
<1>5. Load(reservations, room, OraGrup[ora]) \in Nat /\ Capacity[room] \in Nat
  BY <1>1, <1>2, LoadType, SchemaAssumption
<1> QED
  BY <1>2, <1>3, <1>4, <1>5 DEF SlotOf

\* While the audit is at a statement no worker is at one of its own,
\* so no payment and no refund is half done.
LEMMA AuditAlone ==
    ASSUME MutualExclusion, pc[Auditor] \in CriticalLabels
    PROVE  NobodyInFlight
<1>1. \A w \in Workers : pc[w] \notin CriticalLabels
  BY OneAtATime, ServiceAssumption DEF Threads
<1> QED
  BY <1>1 DEF NobodyInFlight, InFlight, CriticalLabels

\* Every step keeps the report true.
LEMMA ReportStep ==
    ASSUME Faults = {}, ReportInv, [Next]_vars
    PROVE  ReportClean' /\ BalancesPaid'
<1> USE ServiceAssumption
    DEF ReportInv, ReportClean, SeatsInv, LedgerInv, MoneyInv, TypeInv, TypeOK, Threads
<1>1. ASSUME UNCHANGED <<db, report>>, pc'[Auditor] = pc[Auditor]
      PROVE  ReportClean' /\ BalancesPaid'
  <2>1. \A c : PaidRows(c)' = PaidRows(c)
    BY <1>1 DEF PaidRows, db
  <2> QED
    BY <1>1, <2>1 DEF BalancesPaid, db
<1>2. ASSUME UNCHANGED report, pc'[Auditor] # "unlock"
      PROVE  ReportClean' /\ BalancesPaid'
  BY <1>2 DEF BalancesPaid
<1>3. ASSUME NEW w \in Workers, NewRequest(w) \/ Lock(w) \/ Return(w)
      PROVE  ReportClean' /\ BalancesPaid'
  BY <1>1, <1>3 DEF NewRequest, Lock, Return, Answer, Goto
<1>4. ASSUME NEW w \in Workers, Statement(w)
      PROVE  ReportClean' /\ BalancesPaid'
  <2>1. pc[w] \in CriticalLabels /\ UNCHANGED report
    BY <1>4 DEF Statement, RezervareCapacitate, RezervareOcupare, RezervareInsert, RezervarePlin,
       PlataUpdate, PlataIncasare, AnulareGasita, AnulareNegasita, AnulareUpdate, AnulareRamburs,
       CriticalLabels
  <2>2. pc'[Auditor] = pc[Auditor]
    BY <1>4 DEF Statement, RezervareCapacitate, RezervareOcupare, RezervareInsert, RezervarePlin,
       PlataUpdate, PlataIncasare, AnulareGasita, AnulareNegasita, AnulareUpdate, AnulareRamburs,
       Plateste, UpdateById, Answer, Goto
  <2>3. pc[Auditor] # "unlock"
    BY <2>1, OneAtATime DEF CriticalLabels
  <2> QED
    BY <1>2, <2>1, <2>2, <2>3
<1>5. CASE AuditWake \/ Lock(Auditor) \/ AuditExpira
  BY <1>2, <1>5 DEF AuditWake, Lock, FirstStatement, AuditExpira, Goto
<1>6. CASE AuditOcupari
  <2>1. pc'[Auditor] = "solduri" /\ report' = [report EXCEPT !.critic = Suprapuneri]
    BY <1>6 DEF AuditOcupari, Goto
  <2>2. report'.critic = {}
    BY <2>1, NoOverlap
  <2> QED
    BY <2>1, <2>2 DEF BalancesPaid
<1>7. CASE AuditSolduri
  <2>1. pc[Auditor] = "solduri" /\ UNCHANGED db
        /\ report' = [report EXCEPT !.solduri = [c \in Centers |-> Sold(c)]]
    BY <1>7 DEF AuditSolduri, Outcomes
  <2>2. report'.critic = {} /\ report'.solduri = [c \in Centers |-> Sold(c)]
    BY <2>1
  <2>3. NobodyInFlight
    BY <2>1, AuditAlone DEF CriticalLabels
  <2>4. ASSUME NEW c \in Centers
        PROVE  Sold(c) = SumOf(transactions, PaidRows(c))
    BY <2>3, BalanceIsPaid
  <2>5. UNCHANGED transactions /\ \A c : PaidRows(c)' = PaidRows(c)
    BY <2>1 DEF PaidRows, db
  <2> QED
    BY <2>2, <2>4, <2>5 DEF BalancesPaid
<1>8. CASE AuditUnlock \/ NewProcess
  <2>1. report' = NoReport /\ pc'[Auditor] = "sleep"
    BY <1>8 DEF AuditUnlock, NewProcess, FreshPC, Goto
  <2> QED
    BY <2>1 DEF NoReport, BalancesPaid
<1>9. CASE UNCHANGED <<db, pc, report>>
  BY <1>1, <1>9
<1> QED
  BY <1>3, <1>4, <1>5, <1>6, <1>7, <1>8, <1>9
  DEF Next, WorkerStep, AuditStep, AuditTermina, Crash, TimeoutPasses, vars, db

\* When nothing fails, a report that is closed lists no overbooked interval,
\* and for every center the exact sum of what its paid reservations paid,
\* although three statements wrote it while clients were waiting.
THEOREM AuditReportIsExact ==
    ASSUME Faults = {}
    PROVE  Spec => []AuditReportsTheBooks
<1>1. Init => ReportInv
  <2> SUFFICES ASSUME Init PROVE ReportInv
    OBVIOUS
  <2>1. LedgerInv
    BY MoneyInit DEF LedgerInv, Init, PaymentsRecorded, RefundsRecorded
  <2>2. ReportClean /\ BalancesPaid
    BY ServiceAssumption DEF Init, FreshPC, NoReport, ReportClean, BalancesPaid, Threads
  <2> QED
    BY <2>1, <2>2, SeatsInit DEF ReportInv
<1>2. ReportInv /\ [Next]_vars => ReportInv'
  BY ReportStep, SeatsStep, MoneyStep, LedgerStep DEF ReportInv, LedgerInv
<1>3. ReportInv => AuditReportsTheBooks
  BY DEF ReportInv, ReportClean, BalancesPaid, AuditReportsTheBooks, SumOf, PaidRows,
     MapThenSumSet, MapThenFoldSet
<1> QED
  BY <1>1, <1>2, <1>3, PTL DEF Spec


=============================================================================
