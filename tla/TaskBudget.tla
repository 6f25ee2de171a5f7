----------------------------- MODULE TaskBudget -----------------------------
(***************************************************************************)
(* The ledger of one research task: reservations made under a lock before  *)
(* every request, checkpoints of the ledger in the tool-call rows of the   *)
(* workflow and of the discovery and comparison runs inside it, the loss of*)
(* the process, and the reconstruction of the ledger from the stored audit.*)
(***************************************************************************)
EXTENDS Naturals, Sequences

CONSTANTS
  Resources,   \* the fields of BudgetLimits
  Limit,       \* BudgetLimits
  Charges,     \* what the transports reserve: one bundle for each kind of request
  Threads,     \* threads that share the task's ledger
  Rows         \* tool_calls rows whose output_summary can hold the ledger

Amounts == [Resources -> Nat]

ASSUME BudgetAssumption ==
  /\ Limit \in Amounts /\ Charges \subseteq Amounts
  /\ "none" \notin Resources \cup Threads \cup Rows

VARIABLES
  alive,      \* the process that holds the ledger is running
  used,       \* TaskBudget.used
  exhausted,  \* TaskBudget.exhausted
  hooks,      \* the rows TaskBudget.checkpoint writes, outermost first
  lock,       \* holder of _lock
  pc,         \* where each thread is in reserve
  charge,     \* the amounts each thread reserves
  written,    \* rows of hooks the lock holder has written
  stored,     \* the ledger in each row
  audit,      \* the row that covers the whole task: the outermost of the last hooks
  permitted   \* all amounts reserve ever returned for, in every process

vars == <<alive, used, exhausted, hooks, lock, pc, charge, written, stored, audit, permitted>>

Zero   == [r \in Resources |-> 0]
Empty  == [kept |-> FALSE, used |-> Zero, exhausted |-> "none"]
Plus(a, b) == [r \in Resources |-> a[r] + b[r]]
snapshot == [kept |-> TRUE, used |-> used, exhausted |-> exhausted]

TypeOK ==
  /\ alive \in BOOLEAN
  /\ used \in Amounts /\ permitted \in Amounts
  /\ exhausted \in Resources \cup {"none"}
  /\ hooks \in Seq(Rows) /\ written \in Nat /\ written <= Len(hooks)
  /\ lock \in Threads \cup {"none"}
  /\ pc \in [Threads -> {"idle", "charge", "save", "deny"}]
  /\ charge \in [Threads -> Amounts]
  /\ stored \in [Rows -> [kept : BOOLEAN, used : Amounts, exhausted : Resources \cup {"none"}]]
  /\ audit \in Rows \cup {"none"}

Init ==
  /\ alive = TRUE /\ used = Zero /\ exhausted = "none" /\ hooks = <<>>
  /\ lock = "none" /\ pc = [t \in Threads |-> "idle"] /\ charge = [t \in Threads |-> Zero]
  /\ written = 0 /\ stored = [w \in Rows |-> Empty] /\ audit = "none" /\ permitted = Zero
-----------------------------------------------------------------------------
(* reserve *)

\* Requests are made while a row records the task, or before its first row.
Spending == hooks # <<>> \/ audit = "none"

\* Mutant of Enter: the lock is not taken before the ledger is read.
EnterUnlocked(t, c) ==
  /\ alive /\ pc[t] = "idle" /\ Spending /\ exhausted = "none"
  /\ lock' = t /\ charge' = [charge EXCEPT ![t] = c] /\ written' = 0

\* A thread enters reserve and takes the lock; an exhausted ledger refuses it.  A
\* malformed request, which raises ValueError, sends nothing and changes nothing.
Enter(t, c) ==
  /\ alive /\ lock = "none" /\ pc[t] = "idle" /\ Spending /\ exhausted = "none"
  /\ lock' = t /\ charge' = [charge EXCEPT ![t] = c] /\ written' = 0

Grant(t, c) ==
  /\ Enter(t, c)
  /\ \A r \in Resources : used[r] + c[r] <= Limit[r]
  /\ pc' = [pc EXCEPT ![t] = "charge"]
  /\ UNCHANGED <<alive, used, exhausted, hooks, stored, audit, permitted>>

\* Mutant of Deny: the latch keeps a code instead of the resource.
DenyWithCode(t, c) ==
  /\ Enter(t, c)
  /\ \E r \in Resources : used[r] + c[r] > Limit[r]
  /\ exhausted' = "TASK_BUDGET_EXHAUSTED"
  /\ pc' = [pc EXCEPT ![t] = "deny"]
  /\ UNCHANGED <<alive, used, hooks, stored, audit, permitted>>

Deny(t, c) ==
  /\ Enter(t, c)
  /\ \E r \in Resources : used[r] + c[r] > Limit[r] /\ exhausted' = r
  /\ pc' = [pc EXCEPT ![t] = "deny"]
  /\ UNCHANGED <<alive, used, hooks, stored, audit, permitted>>

Charge(t) ==
  /\ pc[t] = "charge"
  /\ used' = Plus(used, charge[t])
  /\ pc' = [pc EXCEPT ![t] = "save"]
  /\ UNCHANGED <<alive, exhausted, hooks, lock, charge, written, stored, audit, permitted>>

\* The checkpoint of the ledger commits in the next row.
Save(t) ==
  /\ pc[t] \in {"save", "deny"} /\ written < Len(hooks)
  /\ stored' = [stored EXCEPT ![hooks[written + 1]] = snapshot]
  /\ written' = written + 1
  /\ UNCHANGED <<alive, used, exhausted, hooks, lock, pc, charge, audit, permitted>>

Leave(t) == lock' = "none" /\ pc' = [pc EXCEPT ![t] = "idle"] /\ written' = 0

\* The checkpoint raises: reserve raises too, and the reservation stays.
SaveFails(t) ==
  /\ pc[t] \in {"save", "deny"} /\ written < Len(hooks)
  /\ Leave(t)
  /\ UNCHANGED <<alive, used, exhausted, hooks, charge, stored, audit, permitted>>

\* reserve returns, and the transport sends the one request it is for; or it
\* raises BudgetExhausted.
Return(t) ==
  /\ pc[t] \in {"save", "deny"} /\ written = Len(hooks)
  /\ permitted' = IF pc[t] = "save" THEN Plus(permitted, charge[t]) ELSE permitted
  /\ Leave(t)
  /\ UNCHANGED <<alive, used, exhausted, hooks, charge, stored, audit>>
-----------------------------------------------------------------------------
(* The rows that record the ledger *)

\* Mutant of Attach: the new checkpoint replaces the previous one.
AttachAlone(w) ==
  /\ alive /\ lock = "none" /\ ~stored[w].kept
  /\ stored' = [stored EXCEPT ![w] = snapshot]
  /\ hooks' = <<w>>
  /\ audit' = IF hooks = <<>> THEN w ELSE audit
  /\ UNCHANGED <<alive, used, exhausted, lock, pc, charge, written, permitted>>

\* A run of the task is created with a first checkpoint, and its checkpoint is
\* chained behind the one installed before.
Attach(w) ==
  /\ alive /\ lock = "none" /\ ~stored[w].kept
  /\ stored' = [stored EXCEPT ![w] = snapshot]
  /\ hooks' = Append(hooks, w)
  /\ audit' = IF hooks = <<>> THEN w ELSE audit
  /\ UNCHANGED <<alive, used, exhausted, lock, pc, charge, written, permitted>>

\* The run ends: the previous checkpoint is restored, and the final audit of the
\* run commits, or is lost with the transaction that writes it.
Detach ==
  /\ alive /\ lock = "none" /\ hooks # <<>>
  /\ \/ stored' = [stored EXCEPT ![hooks[Len(hooks)]] = snapshot]
     \/ UNCHANGED stored
  /\ hooks' = SubSeq(hooks, 1, Len(hooks) - 1)
  /\ UNCHANGED <<alive, used, exhausted, lock, pc, charge, written, audit, permitted>>

Crash ==
  /\ alive /\ alive' = FALSE
  /\ used' = Zero /\ exhausted' = "none" /\ hooks' = <<>>
  /\ lock' = "none" /\ pc' = [t \in Threads |-> "idle"] /\ charge' = [t \in Threads |-> Zero]
  /\ written' = 0
  /\ UNCHANGED <<stored, audit, permitted>>

\* Mutant of Restore: the denial recorded in the audit is forgotten.
RestoreUsedOnly ==
  /\ ~alive /\ audit # "none"
  /\ alive' = TRUE /\ used' = stored[audit].used
  /\ UNCHANGED <<exhausted, hooks, lock, pc, charge, written, stored, audit, permitted>>

\* from_trusted_state: a new process takes the ledger up from the stored audit.
Restore ==
  /\ ~alive /\ audit # "none"
  /\ alive' = TRUE
  /\ used' = stored[audit].used /\ exhausted' = stored[audit].exhausted
  /\ UNCHANGED <<hooks, lock, pc, charge, written, stored, audit, permitted>>

Next ==
  \/ \E t \in Threads : \/ \E c \in Charges : Grant(t, c) \/ Deny(t, c)
                        \/ Charge(t) \/ Save(t) \/ SaveFails(t) \/ Return(t)
  \/ \E w \in Rows : Attach(w)
  \/ Detach \/ Crash \/ Restore

Spec == Init /\ [][Next]_vars
-----------------------------------------------------------------------------
(* Properties *)

\* Over all the processes of a task, whatever checkpoints fail and wherever a
\* process dies, the requests let through stay within the limits of the task.
SpendingIsBounded == \A r \in Resources : permitted[r] <= Limit[r]

\* No request leaves before every row of the chain, and the row that a later
\* process would start from, already accounts for it ("Before each ... external
\* request, a Repository checkpoint persists the ledger").
SpendingIsRecorded ==
  /\ \A i \in 1 .. Len(hooks), r \in Resources : permitted[r] <= stored[hooks[i]].used[r]
  /\ audit # "none" => \A r \in Resources : permitted[r] <= stored[audit].used[r]

\* A denial of one resource stops every kind of request, and only a crash before
\* it is recorded can undo it: a process that takes the ledger up keeps to it, and
\* so do the rows attached later.
Denied == exhausted # "none" \/ (audit # "none" /\ stored[audit].exhausted # "none")
DenialIsFinal == [][Denied => permitted' = permitted /\ (alive' => Denied')]_vars
=============================================================================
