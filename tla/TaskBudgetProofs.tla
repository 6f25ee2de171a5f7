-------------------------- MODULE TaskBudgetProofs --------------------------
(***************************************************************************)
(* Theorems about TaskBudget, for all limits, charges, threads and rows.   *)
(***************************************************************************)
EXTENDS TaskBudget, SequenceTheorems, TLAPS

\* Taking the last row off the chain.
LEMMA FrontOfSeq ==
  ASSUME NEW S, NEW s \in Seq(S), Len(s) \in 1 .. Len(s)
  PROVE  /\ Len(SubSeq(s, 1, Len(s) - 1)) = Len(s) - 1
         /\ \A i \in 1 .. Len(s) - 1 : SubSeq(s, 1, Len(s) - 1)[i] = s[i]
<1>0. Len(s) \in Nat /\ Len(s) - 1 \in 0 .. Len(s)
  BY LenProperties
<1>1. PICK n \in 0 .. Len(s) : n = Len(s) - 1
  BY <1>0
<1>2. SubSeq(s, 1, n) = Restrict(s, 1 .. n)
  BY <1>1, SubSeqRestrict
<1>3. \A i \in 1 .. n : SubSeq(s, 1, n)[i] = s[i]
  BY <1>2 DEF Restrict
<1>4. SubSeq(s, 1, n) \in Seq(S) /\ DOMAIN SubSeq(s, 1, n) = 1 .. n
  BY <1>1, <1>2 DEF Restrict
<1>5. Len(SubSeq(s, 1, n)) = n
  BY <1>1, <1>4, LenProperties
<1> QED  BY <1>1, <1>3, <1>5

LEMMA PlusTyped == ASSUME NEW a \in Amounts, NEW b \in Amounts PROVE Plus(a, b) \in Amounts
BY DEF Amounts, Plus

\* The lock is held by the one thread inside reserve, and nothing is being written
\* while it is free.
Locked == /\ \A t \in Threads : pc[t] # "idle" => alive /\ lock = t
          /\ lock = "none" => written = 0

Ledgers == [kept : BOOLEAN, used : Amounts, exhausted : Resources \cup {"none"}]

LEMMA ZeroTyped == Zero \in Amounts
BY DEF Zero, Amounts

LEMMA SnapshotTyped == TypeOK => snapshot \in Ledgers
BY DEF TypeOK, snapshot, Ledgers

\* Writing the ledger in one row.
LEMMA WriteTyped ==
  ASSUME TypeOK, NEW w \in Rows
  PROVE  /\ [stored EXCEPT ![w] = snapshot] \in [Rows -> Ledgers]
         /\ \A v \in Rows : [stored EXCEPT ![w] = snapshot][v].used
                              = IF v = w THEN used ELSE stored[v].used
<1>1. stored \in [Rows -> Ledgers]
  BY DEF TypeOK, Ledgers
<1>2. snapshot.used = used
  BY DEF snapshot
<1> QED  BY <1>1, <1>2, SnapshotTyped

LEMMA InitTyped == Init => TypeOK /\ Locked
BY BudgetAssumption DEF Init, TypeOK, Locked, Zero, Empty, Amounts

LEMMA TypedStep == ASSUME TypeOK, Locked, [Next]_vars PROVE TypeOK' /\ Locked'
<1> USE DEF Locked
<1>1. CASE UNCHANGED vars
  BY <1>1 DEF vars, TypeOK
<1>2. ASSUME NEW t \in Threads, NEW c \in Charges, Grant(t, c) PROVE TypeOK' /\ Locked'
  BY <1>2, BudgetAssumption DEF Grant, Enter, TypeOK
<1>3. ASSUME NEW t \in Threads, NEW c \in Charges, Deny(t, c) PROVE TypeOK' /\ Locked'
  BY <1>3, BudgetAssumption DEF Deny, Enter, TypeOK
<1>4. ASSUME NEW t \in Threads, Charge(t) PROVE TypeOK' /\ Locked'
  BY <1>4, PlusTyped DEF Charge, TypeOK
<1>5. ASSUME NEW t \in Threads, Save(t) PROVE TypeOK' /\ Locked'
  <2>1. hooks[written + 1] \in Rows
    BY <1>5 DEF Save, TypeOK
  <2>2. stored' \in [Rows -> Ledgers]
    BY <1>5, <2>1, WriteTyped DEF Save
  <2> QED  BY <1>5, <2>2, BudgetAssumption DEF Save, TypeOK, Ledgers
<1>6. ASSUME NEW t \in Threads, SaveFails(t) PROVE TypeOK' /\ Locked'
  BY <1>6 DEF SaveFails, Leave, TypeOK
<1>7. ASSUME NEW t \in Threads, Return(t) PROVE TypeOK' /\ Locked'
  <2>1. permitted' \in Amounts
    BY <1>7, PlusTyped DEF Return, TypeOK
  <2> QED  BY <1>7, <2>1 DEF Return, Leave, TypeOK
<1>8. ASSUME NEW w \in Rows, Attach(w) PROVE TypeOK' /\ Locked'
  BY <1>8 DEF Attach, snapshot, TypeOK
<1>9. CASE Detach
  <2>1. hooks' \in Seq(Rows) /\ hooks[Len(hooks)] \in Rows
    BY <1>9 DEF Detach, TypeOK
  <2>2. stored' \in [Rows -> Ledgers]
    <3>1. CASE stored' = [stored EXCEPT ![hooks[Len(hooks)]] = snapshot]
      BY <2>1, <3>1, WriteTyped
    <3>2. CASE stored' = stored
      BY <3>2 DEF TypeOK, Ledgers
    <3> QED  BY <1>9, <3>1, <3>2 DEF Detach
  <2> QED  BY <1>9, <2>1, <2>2 DEF Detach, TypeOK, Ledgers
<1>10. CASE Crash
  <2>1. hooks' \in Seq(Rows) /\ written' \in Nat /\ written' <= Len(hooks')
    BY <1>10 DEF Crash
  <2>2. pc' \in [Threads -> {"idle", "charge", "save", "deny"}] /\ charge' \in [Threads -> Amounts]
    BY <1>10, ZeroTyped DEF Crash
  <2>3. alive' \in BOOLEAN /\ used' \in Amounts /\ exhausted' = "none" /\ lock' = "none"
        /\ UNCHANGED <<stored, audit, permitted>>
    BY <1>10, ZeroTyped DEF Crash
  <2>4. TypeOK'
    BY <2>1, <2>2, <2>3 DEF TypeOK
  <2>5. Locked'
    BY <1>10 DEF Crash
  <2> QED  BY <2>4, <2>5
<1>11. CASE Restore
  BY <1>11 DEF Restore, TypeOK
<1> QED  BY <1>1, <1>2, <1>3, <1>4, <1>5, <1>6, <1>7, <1>8, <1>9, <1>10, <1>11 DEF Next

\* Every reachable ledger is well typed, and at most one thread is inside reserve.
THEOREM TypeCorrect == Spec => [](TypeOK /\ Locked)
<1>1. TypeOK /\ Locked /\ [Next]_vars => (TypeOK /\ Locked)'
  BY TypedStep
<1> QED  BY <1>1, InitTyped, PTL DEF Spec
-----------------------------------------------------------------------------
(* Spending *)

\* Neither the ledger in memory nor one in a row exceeds the limits, and the
\* holder of the lock has checked what it is about to charge.
Within == /\ \A r \in Resources : used[r] <= Limit[r]
          /\ \A w \in Rows, r \in Resources : stored[w].used[r] <= Limit[r]
          /\ \A t \in Threads : pc[t] = "charge" =>
               \A r \in Resources : used[r] + charge[t][r] <= Limit[r]

LEMMA WithinStep ==
  ASSUME TypeOK, Locked, Within, [Next]_vars PROVE Within'
<1> USE DEF Within
<1>1. CASE UNCHANGED vars
  BY <1>1 DEF vars
<1>2. ASSUME NEW t \in Threads, NEW c \in Charges, Grant(t, c) PROVE Within'
  BY <1>2, BudgetAssumption DEF Grant, Enter, TypeOK, Locked
<1>3. ASSUME NEW t \in Threads, NEW c \in Charges, Deny(t, c) PROVE Within'
  BY <1>3, BudgetAssumption DEF Deny, Enter, TypeOK, Locked
<1>4. ASSUME NEW t \in Threads, Charge(t) PROVE Within'
  BY <1>4, BudgetAssumption DEF Charge, Plus, TypeOK, Locked
<1>5. ASSUME NEW t \in Threads, Save(t) PROVE Within'
  BY <1>5 DEF Save, snapshot, TypeOK, Locked
<1>6. ASSUME NEW t \in Threads, SaveFails(t) \/ Return(t) PROVE Within'
  BY <1>6 DEF SaveFails, Return, Leave, TypeOK, Locked
<1>7. ASSUME NEW w \in Rows, Attach(w) PROVE Within'
  BY <1>7 DEF Attach, snapshot, TypeOK, Locked
<1>8. CASE Detach
  <2>1. hooks[Len(hooks)] \in Rows
    BY <1>8 DEF Detach, TypeOK
  <2> QED  BY <1>8, <2>1 DEF Detach, snapshot, TypeOK, Locked
<1>9. CASE Crash
  BY <1>9, BudgetAssumption DEF Crash, Zero, TypeOK, Amounts
<1>10. CASE Restore
  BY <1>10 DEF Restore, TypeOK, Locked
<1> QED  BY <1>1, <1>2, <1>3, <1>4, <1>5, <1>6, <1>7, <1>8, <1>9, <1>10 DEF Next

\* What has been let through is in memory while the process lives, in the rows of
\* the chain and in the audit; the holder of the lock has its charge in memory, and
\* in the rows it has written.  A task lost before its first row never comes back.
Recorded ==
  /\ SpendingIsRecorded
  /\ hooks # <<>> => audit = hooks[1]
  /\ alive => \A r \in Resources : permitted[r] <= used[r]
  /\ ~alive /\ audit = "none" => \A r \in Resources : permitted[r] <= Limit[r]
  /\ \A t \in Threads : pc[t] # "idle" => (hooks = <<>> => audit = "none")
  /\ \A t \in Threads : pc[t] = "charge" => written = 0
  /\ \A t \in Threads : pc[t] = "save" => \A r \in Resources :
       /\ permitted[r] + charge[t][r] <= used[r]
       /\ \A i \in 1 .. Len(hooks) :
            i <= written => permitted[r] + charge[t][r] <= stored[hooks[i]].used[r]

LEMMA RecordedStep ==
  ASSUME TypeOK, Locked, Within, Recorded, [Next]_vars PROVE Recorded'
<1> USE DEF Recorded, SpendingIsRecorded
<1>1. CASE UNCHANGED vars
  BY <1>1 DEF vars
<1>2. ASSUME NEW t \in Threads, NEW c \in Charges, Grant(t, c) \/ Deny(t, c) PROVE Recorded'
  BY <1>2, BudgetAssumption DEF Grant, Deny, Enter, Spending, TypeOK, Locked
<1>3. ASSUME NEW t \in Threads, Charge(t) PROVE Recorded'
  BY <1>3, BudgetAssumption DEF Charge, Plus, Amounts, TypeOK, Locked
<1>4. ASSUME NEW t \in Threads, Save(t) PROVE Recorded'
  <2> DEFINE h == hooks[written + 1]
  <2>1. /\ alive /\ lock = t /\ h \in Rows
        /\ \A r \in Resources : permitted[r] \in Nat /\ used[r] \in Nat
        /\ \A i \in 1 .. Len(hooks) : hooks[i] \in Rows
        /\ UNCHANGED <<alive, used, hooks, pc, charge, audit, permitted>>
        /\ written' = written + 1 /\ written \in Nat
    BY <1>4 DEF Save, TypeOK, Amounts, Locked
  <2>2. \A v \in Rows : stored'[v].used = IF v = h THEN used ELSE stored[v].used
    BY <1>4, <2>1, WriteTyped DEF Save
  <2>3. SpendingIsRecorded'
    BY <2>1, <2>2, BudgetAssumption DEF TypeOK
  <2>4. ASSUME NEW u \in Threads, pc[u] = "save", NEW r \in Resources,
               NEW i \in 1 .. Len(hooks), i <= written + 1
        PROVE  permitted[r] + charge[u][r] <= stored'[hooks[i]].used[r]
    <3>1. CASE hooks[i] = h
      BY <2>1, <2>2, <2>4, <3>1
    <3>2. CASE hooks[i] # h
      <4>1. i <= written
        BY <2>1, <2>4, <3>2
      <4> QED  BY <2>1, <2>2, <2>4, <3>2, <4>1
    <3> QED  BY <3>1, <3>2
  <2>5. \A u \in Threads : pc'[u] # "charge"
    BY <1>4, <2>1 DEF Save, Locked
  <2> QED  BY <2>1, <2>3, <2>4, <2>5
<1>5. ASSUME NEW t \in Threads, SaveFails(t) PROVE Recorded'
  BY <1>5 DEF SaveFails, Leave, TypeOK, Locked
<1>6. ASSUME NEW t \in Threads, Return(t) PROVE Recorded'
  <2>1. /\ alive /\ lock = t
        /\ UNCHANGED <<alive, used, hooks, charge, stored, audit>>
        /\ \A u \in Threads : pc'[u] = "idle"
    BY <1>6 DEF Return, Leave, TypeOK, Locked
  <2>2. CASE pc[t] = "save"
    <3>1. \A r \in Resources : permitted'[r] = permitted[r] + charge[t][r]
      BY <1>6, <2>2 DEF Return, Plus
    <3>2. \A r \in Resources : permitted'[r] <= used[r]
      BY <2>2, <3>1
    <3>3. \A i \in 1 .. Len(hooks), r \in Resources : permitted'[r] <= stored[hooks[i]].used[r]
      BY <1>6, <2>2, <3>1 DEF Return, TypeOK
    <3>4. audit # "none" => \A r \in Resources : permitted'[r] <= stored[audit].used[r]
      <4>1. hooks # <<>> => 1 \in 1 .. Len(hooks)
        BY DEF TypeOK
      <4> QED  BY <2>2, <3>3, <4>1
    <3> QED  BY <2>1, <3>2, <3>3, <3>4
  <2>3. CASE pc[t] # "save"
    BY <1>6, <2>1, <2>3 DEF Return
  <2> QED  BY <2>2, <2>3
<1>7. ASSUME NEW w \in Rows, Attach(w) PROVE Recorded'
  <2>1. /\ UNCHANGED <<alive, used, pc, permitted>> /\ alive
        /\ \A u \in Threads : pc[u] = "idle"
        /\ \A i \in 1 .. Len(hooks) : hooks[i] \in Rows
    BY <1>7, BudgetAssumption DEF Attach, TypeOK, Locked
  <2>2. \A v \in Rows : stored'[v].used = IF v = w THEN used ELSE stored[v].used
    BY <1>7, WriteTyped DEF Attach
  <2>3. /\ hooks' = Append(hooks, w) /\ Len(hooks') = Len(hooks) + 1 /\ Len(hooks) \in Nat
        /\ \A i \in 1 .. Len(hooks) : hooks'[i] = hooks[i]
        /\ hooks'[Len(hooks) + 1] = w
    BY <1>7 DEF Attach, TypeOK
  <2>4. ASSUME NEW i \in 1 .. Len(hooks'), NEW r \in Resources
        PROVE  permitted[r] <= stored'[hooks'[i]].used[r]
    <3>1. CASE i = Len(hooks) + 1
      BY <2>1, <2>2, <2>3, <3>1
    <3>2. CASE i # Len(hooks) + 1
      <4>1. i \in 1 .. Len(hooks)
        BY <2>3, <3>2
      <4> QED  BY <2>1, <2>2, <2>3, <4>1
    <3> QED  BY <3>1, <3>2
  <2>5. audit' = hooks'[1] /\ 1 \in 1 .. Len(hooks')
    <3>1. CASE hooks = <<>>
      BY <1>7, <2>3, <3>1 DEF Attach
    <3>2. CASE hooks # <<>>
      <4>1. 1 \in 1 .. Len(hooks)
        BY <3>2 DEF TypeOK
      <4> QED  BY <1>7, <2>3, <3>2, <4>1 DEF Attach
    <3> QED  BY <3>1, <3>2
  <2>6. SpendingIsRecorded'
    BY <2>1, <2>4, <2>5
  <2> QED  BY <2>1, <2>5, <2>6
<1>8. CASE Detach
  <2>1. /\ UNCHANGED <<alive, used, pc, permitted, audit>> /\ alive
        /\ \A u \in Threads : pc[u] = "idle"
        /\ \A i \in 1 .. Len(hooks) : hooks[i] \in Rows
    BY <1>8, BudgetAssumption DEF Detach, TypeOK, Locked
  <2>2. Len(hooks) \in 1 .. Len(hooks)
    BY <1>8 DEF Detach, TypeOK
  <2>3. \A v \in Rows : stored'[v].used \in {used, stored[v].used}
    <3>1. CASE stored' = [stored EXCEPT ![hooks[Len(hooks)]] = snapshot]
      BY <2>1, <2>2, <3>1, WriteTyped
    <3>2. CASE stored' = stored
      BY <3>2
    <3> QED  BY <1>8, <3>1, <3>2 DEF Detach
  <2>4. Len(hooks') = Len(hooks) - 1 /\ \A i \in 1 .. Len(hooks') : hooks'[i] = hooks[i]
    <3>1. hooks \in Seq(Rows) /\ hooks' = SubSeq(hooks, 1, Len(hooks) - 1)
      BY <1>8 DEF Detach, TypeOK
    <3> QED  BY <2>2, <3>1, FrontOfSeq
  <2>5. \A i \in 1 .. Len(hooks'), r \in Resources : permitted[r] <= stored'[hooks'[i]].used[r]
    BY <2>1, <2>2, <2>3, <2>4
  <2>6. audit # "none" => \A r \in Resources : permitted[r] <= stored'[audit].used[r]
    BY <2>1, <2>3 DEF TypeOK
  <2>7. hooks' # <<>> => audit = hooks'[1]
    <3>1. hooks' # <<>> => 1 \in 1 .. Len(hooks')
      BY <1>8, <2>2 DEF Detach, TypeOK
    <3> QED  BY <1>8, <2>4, <3>1 DEF Detach
  <2> QED  BY <2>1, <2>5, <2>6, <2>7
<1>9. CASE Crash
  BY <1>9, BudgetAssumption DEF Crash, Amounts, TypeOK, Within
<1>10. CASE Restore
  BY <1>10 DEF Restore, Amounts, TypeOK, Locked
<1> QED  BY <1>1, <1>2, <1>3, <1>4, <1>5, <1>6, <1>7, <1>8, <1>9, <1>10 DEF Next

LEMMA LedgerHolds == Spec => [](TypeOK /\ Within /\ Recorded)
<1>1. Init => Within /\ Recorded
  BY BudgetAssumption DEF Init, Within, Recorded, SpendingIsRecorded, Zero, Empty, Amounts
<1>2. TypeOK /\ Locked /\ Within /\ Recorded /\ [Next]_vars => (Within /\ Recorded)'
  BY WithinStep, RecordedStep
<1> QED  BY <1>1, <1>2, TypeCorrect, PTL DEF Spec

\* However many processes work on a task, and whatever checkpoints fail or are
\* lost, what reserve lets through stays within the limits.
THEOREM BudgetSafe == Spec => []SpendingIsBounded
<1>1. TypeOK /\ Within /\ Recorded => SpendingIsBounded
  <2> SUFFICES ASSUME TypeOK, Within, Recorded, NEW r \in Resources
               PROVE  permitted[r] <= Limit[r]
    BY DEF SpendingIsBounded
  <2>1. permitted[r] \in Nat /\ used[r] \in Nat /\ Limit[r] \in Nat
    BY BudgetAssumption DEF TypeOK, Amounts
  <2>2. CASE alive
    BY <2>1, <2>2 DEF Within, Recorded
  <2>3. CASE ~alive /\ audit = "none"
    BY <2>3 DEF Recorded
  <2>4. CASE audit # "none"
    <3>1. audit \in Rows /\ stored[audit].used[r] \in Nat
      BY <2>4 DEF TypeOK, Amounts
    <3> QED  BY <2>1, <2>4, <3>1 DEF Within, Recorded, SpendingIsRecorded
  <2> QED  BY <2>2, <2>3, <2>4
<1> QED  BY <1>1, LedgerHolds, PTL

\* Every request let through is already in the rows a later process can read.
THEOREM RecordedBeforeSent == Spec => []SpendingIsRecorded
<1>1. Recorded => SpendingIsRecorded
  BY DEF Recorded
<1> QED  BY <1>1, LedgerHolds, PTL
-----------------------------------------------------------------------------
(* Denial *)

\* A live ledger knows of the denial its audit records, and nobody is being let
\* through an exhausted ledger.
Latched ==
  /\ alive /\ audit # "none" /\ stored[audit].exhausted # "none" => exhausted # "none"
  /\ \A t \in Threads : pc[t] \in {"charge", "save"} => exhausted = "none"
  /\ ~alive => exhausted = "none"

LEMMA WrittenDenial ==
  ASSUME TypeOK, NEW w \in Rows
  PROVE  \A v \in Rows : [stored EXCEPT ![w] = snapshot][v].exhausted
                           = IF v = w THEN exhausted ELSE stored[v].exhausted
<1>1. stored \in [Rows -> Ledgers] /\ snapshot.exhausted = exhausted
  BY DEF TypeOK, Ledgers, snapshot
<1> QED  BY <1>1

LEMMA LatchedStep ==
  ASSUME TypeOK, Locked, Latched, [Next]_vars
  PROVE  /\ Latched'
         /\ Denied => permitted' = permitted /\ (alive' => Denied')
<1> USE DEF Latched, Denied
<1>1. CASE UNCHANGED vars
  BY <1>1 DEF vars
<1>2. ASSUME NEW t \in Threads, NEW c \in Charges, Grant(t, c)
      PROVE  Latched' /\ (Denied => permitted' = permitted /\ (alive' => Denied'))
  BY <1>2, BudgetAssumption DEF Grant, Enter, TypeOK, Locked
<1>3. ASSUME NEW t \in Threads, NEW c \in Charges, Deny(t, c)
      PROVE  Latched' /\ (Denied => permitted' = permitted /\ (alive' => Denied'))
  BY <1>3, BudgetAssumption DEF Deny, Enter, TypeOK, Locked
<1>4. ASSUME NEW t \in Threads, Charge(t) \/ SaveFails(t) \/ Return(t)
      PROVE  Latched' /\ (Denied => permitted' = permitted /\ (alive' => Denied'))
  BY <1>4 DEF Charge, SaveFails, Return, Leave, TypeOK, Locked
<1>5. ASSUME NEW t \in Threads, Save(t)
      PROVE  Latched' /\ (Denied => permitted' = permitted /\ (alive' => Denied'))
  <2>1. hooks[written + 1] \in Rows
    BY <1>5 DEF Save, TypeOK
  <2>2. \A v \in Rows : stored'[v].exhausted
          = IF v = hooks[written + 1] THEN exhausted ELSE stored[v].exhausted
    BY <1>5, <2>1, WrittenDenial DEF Save
  <2> QED  BY <1>5, <2>2 DEF Save, TypeOK, Locked
<1>6. ASSUME NEW w \in Rows, Attach(w)
      PROVE  Latched' /\ (Denied => permitted' = permitted /\ (alive' => Denied'))
  <2>1. \A v \in Rows : stored'[v].exhausted = IF v = w THEN exhausted ELSE stored[v].exhausted
    BY <1>6, WrittenDenial DEF Attach
  <2>2. audit' \in {audit, w}
    BY <1>6 DEF Attach
  <2> QED  BY <1>6, <2>1, <2>2 DEF Attach, TypeOK, Locked
<1>7. CASE Detach
  <2>1. hooks[Len(hooks)] \in Rows
    BY <1>7 DEF Detach, TypeOK
  <2>2. \A v \in Rows : stored'[v].exhausted \in {exhausted, stored[v].exhausted}
    <3>1. CASE stored' = [stored EXCEPT ![hooks[Len(hooks)]] = snapshot]
      BY <2>1, <3>1, WrittenDenial
    <3>2. CASE stored' = stored
      BY <3>2
    <3> QED  BY <1>7, <3>1, <3>2 DEF Detach
  <2> QED  BY <1>7, <2>2 DEF Detach, TypeOK, Locked
<1>8. CASE Crash
  BY <1>8 DEF Crash, TypeOK
<1>9. CASE Restore
  BY <1>9 DEF Restore, TypeOK, Locked
<1> QED  BY <1>1, <1>2, <1>3, <1>4, <1>5, <1>6, <1>7, <1>8, <1>9 DEF Next

\* After a denial no request of any kind is let through, by the process that was
\* denied or by one that takes the ledger up from an audit that records it.
THEOREM DenialStands == Spec => DenialIsFinal
<1>1. Init => Latched
  BY DEF Init, Latched
<1>2. TypeOK /\ Locked /\ Latched /\ [Next]_vars => Latched'
  BY LatchedStep
<1>3. TypeOK /\ Locked /\ Latched /\ [Next]_vars
        => [Denied => permitted' = permitted /\ (alive' => Denied')]_vars
  BY LatchedStep
<1> QED  BY <1>1, <1>2, <1>3, TypeCorrect, PTL DEF Spec, DenialIsFinal
=============================================================================
