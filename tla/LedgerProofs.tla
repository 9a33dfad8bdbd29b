----------------------------- MODULE LedgerProofs -----------------------------
(***************************************************************************)
(* Theorems about Ledger for every set of accounts, every set of           *)
(* transactions and every bound.                                           *)
(*                                                                         *)
(* The argument: once the job has read the entries, the sums it holds are  *)
(* right for every account no transaction has touched since it began.  The *)
(* accounting equation needs the sums of SumTheorems besides: a balanced   *)
(* transaction changes both of its sides by as much.                       *)
(***************************************************************************)
EXTENDS Ledger, SumTheorems, TLAPS

LEMMA ChangeIsInt ==
  ASSUME NEW t \in Transaction, NEW a \in Account
  PROVE  BalanceChange(t, a) \in Int
<1>1. t.debit[a] \in Nat /\ t.credit[a] \in Nat
  BY LedgerAssumption
<1> QED BY <1>1 DEF BalanceChange

\* An account a transaction does not use keeps its sum.
LEMMA UnusedUnchanged ==
  ASSUME NEW t \in Transaction, NEW a \in Account, a \notin Used(t)
  PROVE  BalanceChange(t, a) = 0
BY DEF Used, BalanceChange

SumsRight ==
    job = "write" => \A a \in Account \ touched : computed[a] = entries[a]

LedgerInv == TypeOK /\ DriftFromRace /\ SumsRight

LEMMA InvInit == Init => LedgerInv
BY LedgerAssumption DEF Init, Zero, LedgerInv, TypeOK, DriftFromRace, SumsRight

-----------------------------------------------------------------------------
LEMMA RecordKeepsInv ==
  ASSUME LedgerInv, NEW t \in Transaction, Record(t)
  PROVE  LedgerInv'
<1>1. \A a \in Account : BalanceChange(t, a) \in Int
  BY ChangeIsInt
<1>2. TypeOK'
  <2>1. opened' \subseteq Account /\ left' \subseteq opened' /\ touched' \subseteq Account
    BY DEF LedgerInv, TypeOK, Record, Used, reading
  <2>2. entries' \in [Account -> Int] /\ balance' \in [Account -> Int]
    <3>1. \A a \in Account : /\ entries[a] + BalanceChange(t, a) \in Int
                             /\ balance[a] + BalanceChange(t, a) \in Int
      BY <1>1 DEF LedgerInv, TypeOK
    <3> QED BY <3>1 DEF Record
  <2>3. recorded' \in 0 .. MaxRecorded
    BY LedgerAssumption DEF LedgerInv, TypeOK, Record
  <2> QED BY <2>1, <2>2, <2>3 DEF LedgerInv, TypeOK, Record, reading
<1>3. DriftFromRace'
  BY DEF LedgerInv, DriftFromRace, Record
<1>4. SumsRight'
  <2> SUFFICES ASSUME job' = "write", NEW a \in Account \ touched'
               PROVE  computed'[a] = entries'[a]
    BY DEF SumsRight
  <2>1. a \notin Used(t) /\ a \notin touched /\ job = "write" /\ computed' = computed
    BY DEF Record, reading
  <2>2. computed[a] = entries[a]
    BY <2>1 DEF LedgerInv, SumsRight
  <2>3. entries'[a] = entries[a] + 0
    BY <2>1, UnusedUnchanged DEF Record
  <2>4. entries[a] \in Int
    BY DEF LedgerInv, TypeOK
  <2> QED BY <2>1, <2>2, <2>3, <2>4
<1> QED BY <1>2, <1>3, <1>4 DEF LedgerInv

LEMMA WriteKeepsInv ==
  ASSUME LedgerInv, NEW a \in Account, WriteBalance(a)
  PROVE  LedgerInv'
<1>1. TypeOK'
  BY DEF LedgerInv, TypeOK, WriteBalance
<1>2. DriftFromRace'
  <2> SUFFICES ASSUME NEW b \in Account \ drifted'
               PROVE  balance'[b] = entries'[b]
    BY DEF DriftFromRace
  <2>1. CASE b = a /\ computed[a] # stored[a]
    <3>1. a \notin touched
      BY <2>1 DEF WriteBalance
    <3>2. balance'[a] = computed[a] /\ entries' = entries
      BY <2>1 DEF WriteBalance, LedgerInv, TypeOK
    <3> QED BY <2>1, <3>1, <3>2 DEF LedgerInv, SumsRight, WriteBalance
  <2>2. CASE ~(b = a /\ computed[a] # stored[a])
    <3>1. b \notin drifted /\ balance'[b] = balance[b] /\ entries' = entries
      BY <2>2 DEF WriteBalance, LedgerInv, TypeOK
    <3> QED BY <3>1 DEF LedgerInv, DriftFromRace
  <2> QED BY <2>1, <2>2
<1>3. SumsRight'
  BY DEF LedgerInv, SumsRight, WriteBalance
<1> QED BY <1>1, <1>2, <1>3 DEF LedgerInv

LEMMA InvNext == LedgerInv /\ [Next]_vars => LedgerInv'
<1> SUFFICES ASSUME LedgerInv, [Next]_vars
             PROVE  LedgerInv'
  OBVIOUS
<1> USE DEF LedgerInv, TypeOK, DriftFromRace, SumsRight
<1>1. ASSUME NEW t \in Transaction, Record(t) PROVE LedgerInv'
  BY <1>1, RecordKeepsInv
<1>2. CASE ReadBalances
  BY <1>2 DEF ReadBalances
<1>3. CASE ReadEntries
  BY <1>3 DEF ReadEntries
<1>4. ASSUME NEW a \in Account, WriteBalance(a) PROVE LedgerInv'
  BY <1>4, WriteKeepsInv
<1>5. CASE EndReconciliation
  BY <1>5 DEF EndReconciliation
<1>6. CASE Crash
  BY <1>6, LedgerAssumption DEF Crash
<1>7. CASE UNCHANGED vars
  BY <1>7 DEF vars
<1> QED BY <1>1, <1>2, <1>3, <1>4, <1>5, <1>6, <1>7 DEF Next, Reconcile

-----------------------------------------------------------------------------
(* The variables keep their types, and the job has no account to write     *)
(* that was not opened.                                                    *)
THEOREM LedgerTypeHolds == Spec => []TypeOK
<1>1. LedgerInv => TypeOK
  BY DEF LedgerInv
<1> QED BY <1>1, InvInit, InvNext, PTL DEF Spec

(* A balance differs from its entries only where the reconciliation wrote  *)
(* it while transactions ran.                                              *)
THEOREM DriftFromRaceHolds == Spec => []DriftFromRace
<1>1. LedgerInv => DriftFromRace
  BY DEF LedgerInv
<1> QED BY <1>1, InvInit, InvNext, PTL DEF Spec

(* A reconciliation undisturbed on an account leaves its balance alone or  *)
(* makes it exact, whatever earlier runs did.                              *)
THEOREM QuietWriteIsExactHolds == Spec => QuietWriteIsExact
<1>1. LedgerInv /\ [Next]_vars => [WriteIsExact]_vars
  <2> SUFFICES ASSUME LedgerInv, Next PROVE WriteIsExact
    OBVIOUS
  <2> SUFFICES ASSUME NEW a \in Account, balance'[a] # balance[a],
                      entries'[a] = entries[a], a \notin touched
               PROVE  balance'[a] = entries[a]
    BY DEF WriteIsExact
  <2>1. ASSUME NEW t \in Transaction, Record(t) PROVE FALSE
    <3>1. BalanceChange(t, a) \in Int /\ entries[a] \in Int /\ balance[a] \in Int
      BY ChangeIsInt DEF LedgerInv, TypeOK
    <3>2. /\ entries'[a] = entries[a] + BalanceChange(t, a)
          /\ balance'[a] = balance[a] + BalanceChange(t, a)
      BY <2>1 DEF Record
    <3>3. entries'[a] = entries[a]
      OBVIOUS
    <3>4. BalanceChange(t, a) = 0
      BY ONLY <3>1, <3>2, <3>3
    <3>5. balance'[a] = balance[a]
      BY ONLY <3>1, <3>2, <3>4
    <3> QED BY <3>5
  <2>2. ASSUME NEW b \in Account, WriteBalance(b) PROVE balance'[a] = entries[a]
    <3>1. b = a /\ balance'[a] = computed[a] /\ job = "write"
      BY <2>2 DEF WriteBalance, LedgerInv, TypeOK
    <3> QED BY <3>1 DEF LedgerInv, SumsRight
  <2>3. CASE ReadBalances \/ ReadEntries \/ EndReconciliation \/ Crash
    BY <2>3 DEF ReadBalances, ReadEntries, EndReconciliation, Crash
  <2> QED BY <2>1, <2>2, <2>3 DEF Next, Reconcile
<1> QED BY <1>1, InvInit, InvNext, PTL DEF Spec, QuietWriteIsExact

-----------------------------------------------------------------------------
\* What a transaction adds to the debit-normal accounts it adds to the others.
LEMMA ChangesBalance ==
  ASSUME NEW t \in Transaction, Balanced(t),
         NEW change, \A a \in Account : change[a] = BalanceChange(t, a)
  PROVE  SumOver(change, DebitNormal) = SumOver(change, Account \ DebitNormal)
<1> DEFINE Others == Account \ DebitNormal
<1>1. DebitNormal \subseteq Account /\ IsFiniteSet(DebitNormal) /\ IsFiniteSet(Others)
  BY LedgerAssumption, FS_Subset
<1>2. \A a \in Account : t.debit[a] \in Int /\ t.credit[a] \in Int /\ change[a] \in Int
  BY ChangeIsInt, LedgerAssumption
<1>3. SumOver(t.debit, DebitNormal)
        = SumOver(change, DebitNormal) + SumOver(t.credit, DebitNormal)
  <2>1. \A a \in DebitNormal : t.debit[a] = change[a] + t.credit[a]
    BY <1>1, <1>2 DEF BalanceChange
  <2>2. \A a \in DebitNormal : change[a] \in Int /\ t.credit[a] \in Int
    BY <1>1, <1>2
  <2> QED BY <1>1, <2>1, <2>2, SumPlus
<1>4. SumOver(t.credit, Others) = SumOver(change, Others) + SumOver(t.debit, Others)
  <2>1. \A a \in Others : t.credit[a] = change[a] + t.debit[a]
    BY <1>1, <1>2 DEF BalanceChange
  <2>2. \A a \in Others : change[a] \in Int /\ t.debit[a] \in Int
    BY <1>2
  <2> QED BY <1>1, <2>1, <2>2, SumPlus
<1>5. /\ Total(t.debit) = SumOver(t.debit, DebitNormal) + SumOver(t.debit, Others)
      /\ Total(t.credit) = SumOver(t.credit, DebitNormal) + SumOver(t.credit, Others)
  BY <1>1, <1>2, LedgerAssumption, SumUnion DEF Total
<1>6. /\ SumOver(t.debit, DebitNormal) \in Int /\ SumOver(t.credit, DebitNormal) \in Int
      /\ SumOver(t.debit, Others) \in Int /\ SumOver(t.credit, Others) \in Int
      /\ SumOver(change, DebitNormal) \in Int /\ SumOver(change, Others) \in Int
  BY <1>1, <1>2, SumInt
<1>7. Total(t.debit) = Total(t.credit)
  BY DEF Balanced
<1> DEFINE d == SumOver(t.debit, DebitNormal)    dd == SumOver(t.debit, Others)
           c == SumOver(t.credit, DebitNormal)   cc == SumOver(t.credit, Others)
           x == SumOver(change, DebitNormal)     y == SumOver(change, Others)
<1>8. /\ d \in Int /\ dd \in Int /\ c \in Int /\ cc \in Int /\ x \in Int /\ y \in Int
      /\ d = x + c /\ cc = y + dd /\ d + dd = c + cc
  BY <1>3, <1>4, <1>5, <1>6, <1>7
<1> HIDE DEF d, dd, c, cc, x, y
<1>9. x = y
  BY <1>8
<1> QED BY <1>9 DEF x, y

LEMMA RecordKeepsBalance ==
  ASSUME TypeOK, BooksBalance, NEW t \in Transaction, Record(t)
  PROVE  BooksBalance'
<1> DEFINE change == [a \in Account |-> BalanceChange(t, a)]
           Others == Account \ DebitNormal
<1>1. DebitNormal \subseteq Account /\ IsFiniteSet(DebitNormal) /\ IsFiniteSet(Others)
  BY LedgerAssumption, FS_Subset
<1>2. \A a \in Account : /\ entries[a] \in Int /\ change[a] \in Int
                         /\ entries'[a] = entries[a] + change[a]
  BY ChangeIsInt DEF TypeOK, Record
<1>3. SumOver(change, DebitNormal) = SumOver(change, Others)
  BY ChangesBalance DEF Record
<1> HIDE DEF change
<1>4. /\ SumOver(entries', DebitNormal) = SumOver(entries, DebitNormal) + SumOver(change, DebitNormal)
      /\ SumOver(entries', Others) = SumOver(entries, Others) + SumOver(change, Others)
  BY <1>1, <1>2, SumPlus
<1> QED BY <1>3, <1>4 DEF BooksBalance

(* The accounting equation holds of the journal for every chart of         *)
(* accounts and whatever balanced transactions are recorded, also while    *)
(* the reconciliation writes.                                              *)
THEOREM BooksBalanceHolds == Spec => []BooksBalance
<1>1. Init => BooksBalance
  <2> SUFFICES ASSUME Init PROVE BooksBalance
    OBVIOUS
  <2>1. DebitNormal \subseteq Account
    BY LedgerAssumption
  <2>2. \A a \in Account : entries[a] = 0
    BY DEF Init, Zero
  <2>3. SumOver(entries, DebitNormal) = SumOver(entries, {})
    BY <2>1, <2>2, LedgerAssumption, FS_Subset, SumSupport
  <2>4. SumOver(entries, Account \ DebitNormal) = SumOver(entries, {})
    BY <2>2, LedgerAssumption, FS_Subset, SumSupport
  <2> QED BY <2>3, <2>4 DEF BooksBalance
<1>2. LedgerInv /\ BooksBalance /\ [Next]_vars => BooksBalance'
  <2> SUFFICES ASSUME LedgerInv, BooksBalance, [Next]_vars
               PROVE  BooksBalance'
    OBVIOUS
  <2>1. ASSUME NEW t \in Transaction, Record(t) PROVE BooksBalance'
    BY <2>1, RecordKeepsBalance DEF LedgerInv
  <2>2. CASE UNCHANGED entries
    BY <2>2 DEF BooksBalance
  <2>3. (\E t \in Transaction : Record(t)) \/ UNCHANGED entries
    BY DEF Next, Reconcile, ReadBalances, ReadEntries, WriteBalance,
           EndReconciliation, Crash, vars
  <2> QED BY <2>1, <2>2, <2>3
<1> QED BY <1>1, <1>2, InvInit, InvNext, PTL DEF Spec
=============================================================================
