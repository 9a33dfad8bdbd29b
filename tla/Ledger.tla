-------------------------------- MODULE Ledger --------------------------------
(***************************************************************************)
(* The double-entry ledger: transactions append journal entries to their   *)
(* accounts and increment the accounts' balances; a nightly job compares   *)
(* every balance with the sum of its entries and overwrites it when they   *)
(* differ.                                                                 *)
(*                                                                         *)
(* A transaction is one action.  The job's query for the accounts and the  *)
(* one Prisma runs for their entries are two, and each write is another.   *)
(*                                                                         *)
(* Entries are never changed or deleted, so of the entries of an account   *)
(* only their sum is kept.                                                 *)
(***************************************************************************)
EXTENDS Integers, FiniteSets, Sums

CONSTANTS Account,      \* a finite set
          DebitNormal,  \* accounts of type ASSET or EXPENSE
          Transaction,  \* what callers record: [debit, credit: Account -> Nat]
          MaxRecorded,  \* bound: transactions recorded
          MaxCrash      \* bound: reconciliations cut short

ASSUME LedgerAssumption ==
    /\ IsFiniteSet(Account)
    /\ DebitNormal \subseteq Account
    /\ Transaction \subseteq [debit: [Account -> Nat], credit: [Account -> Nat]]
    /\ MaxRecorded \in Nat
    /\ MaxCrash \in Nat

VARIABLES
    opened,     \* accounts whose row exists
    entries,    \* entries[a]: the sum of the journal entries of account a
    balance,    \* LedgerAccount.balance
    job,        \* what the reconciliation is doing
    stored,     \* the balances the job has read
    computed,   \* the sums of the entries it has read
    left,       \* the accounts it has still to write
    touched,    \* history: accounts with entries since the job read the balances
    drifted,    \* history: accounts the job last wrote although touched
    recorded, crashes

reading == <<job, stored, computed, left>>
vars == <<opened, entries, balance, job, stored, computed, left,
          touched, drifted, recorded, crashes>>

TypeOK ==
    /\ opened \subseteq Account
    /\ entries \in [Account -> Int]
    /\ balance \in [Account -> Int]
    /\ job \in {"idle", "entries", "write"}
    /\ stored \in [Account -> Int]
    /\ computed \in [Account -> Int]
    /\ left \subseteq opened
    /\ touched \subseteq Account
    /\ drifted \subseteq Account
    /\ recorded \in 0 .. MaxRecorded
    /\ crashes \in 0 .. MaxCrash

Zero == [a \in Account |-> 0]

Init ==
    /\ opened = {}
    /\ entries = Zero
    /\ balance = Zero
    /\ job = "idle"
    /\ stored = Zero
    /\ computed = Zero
    /\ left = {}
    /\ touched = {}
    /\ drifted = {}
    /\ recorded = 0
    /\ crashes = 0

-----------------------------------------------------------------------------
(* recordTransaction.                                                      *)

Total(f) == SumOver(f, Account)

Balanced(t) == Total(t.debit) = Total(t.credit)

\* A debit increases an asset or expense and decreases the others.
BalanceChange(t, a) ==
    IF a \in DebitNormal THEN t.debit[a] - t.credit[a] ELSE t.credit[a] - t.debit[a]

Used(t) == {a \in Account : t.debit[a] # 0 \/ t.credit[a] # 0}

\* Defect: whatever a caller passes is recorded.
RecordAny(t) ==
    /\ recorded < MaxRecorded
    /\ recorded' = recorded + 1
    /\ opened' = opened \cup Used(t)
    /\ entries' = [a \in Account |-> entries[a] + BalanceChange(t, a)]
    /\ balance' = [a \in Account |-> balance[a] + BalanceChange(t, a)]
    /\ touched' = touched \cup Used(t)
    /\ UNCHANGED <<reading, drifted, crashes>>

\* Accounts are opened as they are needed.  A reference that was recorded before
\* is no obstacle: its entries are appended once more.
Record(t) ==
    /\ recorded < MaxRecorded
    /\ Balanced(t)
    /\ recorded' = recorded + 1
    /\ opened' = opened \cup Used(t)
    /\ entries' = [a \in Account |-> entries[a] + BalanceChange(t, a)]
    /\ balance' = [a \in Account |-> balance[a] + BalanceChange(t, a)]
    /\ touched' = touched \cup Used(t)
    /\ UNCHANGED <<reading, drifted, crashes>>

-----------------------------------------------------------------------------
(* The reconciliation job.                                                 *)

\* Defect: accounts are scanned that have no row yet.
ReadAllBalances ==
    /\ job = "idle"
    /\ job' = "entries"
    /\ stored' = balance
    /\ left' = Account
    /\ touched' = {}
    /\ UNCHANGED <<opened, entries, balance, computed, drifted, recorded, crashes>>

ReadBalances ==
    /\ job = "idle"
    /\ job' = "entries"
    /\ stored' = balance
    /\ left' = opened
    /\ touched' = {}
    /\ UNCHANGED <<opened, entries, balance, computed, drifted, recorded, crashes>>

ReadEntries ==
    /\ job = "entries"
    /\ job' = "write"
    /\ computed' = entries
    /\ UNCHANGED <<opened, entries, balance, stored, left, touched, drifted,
                   recorded, crashes>>

\* Defect: the drift is written instead of the sum.
WriteDrift(a) ==
    /\ job = "write"
    /\ a \in left
    /\ left' = left \ {a}
    /\ IF computed[a] # stored[a]
       THEN /\ balance' = [balance EXCEPT ![a] = computed[a] - stored[a]]
            /\ drifted' = IF a \in touched THEN drifted \cup {a} ELSE drifted \ {a}
       ELSE UNCHANGED <<balance, drifted>>
    /\ UNCHANGED <<opened, entries, job, stored, computed, touched, recorded, crashes>>

\* Defect: only balances that are too high are corrected.
WriteExcess(a) ==
    /\ job = "write"
    /\ a \in left
    /\ left' = left \ {a}
    /\ IF computed[a] < stored[a]
       THEN /\ balance' = [balance EXCEPT ![a] = computed[a]]
            /\ drifted' = IF a \in touched THEN drifted \cup {a} ELSE drifted \ {a}
       ELSE UNCHANGED <<balance, drifted>>
    /\ UNCHANGED <<opened, entries, job, stored, computed, touched, recorded, crashes>>

\* An account whose balance agreed when read is left alone.
WriteBalance(a) ==
    /\ job = "write"
    /\ a \in left
    /\ left' = left \ {a}
    /\ IF computed[a] # stored[a]
       THEN /\ balance' = [balance EXCEPT ![a] = computed[a]]
            /\ drifted' = IF a \in touched THEN drifted \cup {a} ELSE drifted \ {a}
       ELSE UNCHANGED <<balance, drifted>>
    /\ UNCHANGED <<opened, entries, job, stored, computed, touched, recorded, crashes>>

EndReconciliation ==
    /\ job = "write"
    /\ left = {}
    /\ job' = "idle"
    /\ UNCHANGED <<opened, entries, balance, stored, computed, left, touched,
                   drifted, recorded, crashes>>

Crash ==
    /\ job # "idle"
    /\ crashes < MaxCrash
    /\ crashes' = crashes + 1
    /\ job' = "idle"
    /\ UNCHANGED <<opened, entries, balance, stored, computed, left, touched,
                   drifted, recorded>>

Reconcile == \/ ReadBalances \/ ReadEntries \/ EndReconciliation
             \/ \E a \in Account : WriteBalance(a)

Next == \/ \E t \in Transaction : Record(t)
        \/ Reconcile
        \/ Crash

Spec == Init /\ [][Next]_vars

\* The scheduler runs the job every night.
FairSpec == Spec /\ WF_vars(Reconcile)

-----------------------------------------------------------------------------
(***************************************************************************)
(* The accounting equation over the journal: assets and expenses equal the *)
(* rest, whatever is recorded (the balance check of recordTransaction and  *)
(* the account types it books with).                                       *)
(***************************************************************************)
BooksBalance ==
    SumOver(entries, DebitNormal) = SumOver(entries, Account \ DebitNormal)

(***************************************************************************)
(* A balance differs from its entries only where a transaction ran between *)
(* the reconciliation's first query and its write: the job that corrects   *)
(* drift is also the one thing that causes it.                             *)
(***************************************************************************)
DriftFromRace == \A a \in Account \ drifted : balance[a] = entries[a]

(***************************************************************************)
(* A reconciliation never moves a balance away from its entries when no    *)
(* transaction touched the account meanwhile, even if earlier runs did.    *)
(***************************************************************************)
WriteIsExact ==
    \A a \in Account : balance'[a] # balance[a] /\ entries'[a] = entries[a]
        => a \in touched \/ balance'[a] = entries[a]

QuietWriteIsExact == [][WriteIsExact]_vars

(***************************************************************************)
(* Whatever the races have done, once transactions pause the next nights'  *)
(* reconciliations bring every balance back to its entries.                *)
(***************************************************************************)
DriftHeals == <>[](\A a \in Account : balance[a] = entries[a])
=============================================================================
