------------------------------ MODULE LoopProofs ------------------------------
(***************************************************************************)
(* The two loops of the harness that spend budgets: what holds of          *)
(* DebugLoop whatever the signatures, their overlaps, the budget of        *)
(* attempts and the size of the bank, and of ProjectLoop whatever the      *)
(* backlog, the budgets, the window and the number of sessions.            *)
(***************************************************************************)
EXTENDS DebugLoop, ProjectLoop, FiniteSetTheorems, TLAPS

\* A nonempty set of naturals has a least element.
LEMMA LeastNatural ==
  ASSUME NEW T \in SUBSET Nat, T # {}
  PROVE  \E x \in T : \A y \in T : x <= y
<1> DEFINE less == {ss \in Nat \X Nat : ss[1] < ss[2]}
<1>1. IsWellFoundedOn(less, Nat)
  BY NatLessThanWellFounded DEF OpToRel
<1>2. \A x, y \in Nat : x < y => <<x, y>> \in less
  OBVIOUS
<1>3. T \subseteq Nat
  OBVIOUS
<1> HIDE DEF less
<1>4. PICK x \in T : \A y \in T : ~(<<y, x>> \in less)
  BY <1>1, <1>3, WFMin, Zenon
<1>5. \A y \in T : ~(y < x)
  BY <1>2, <1>3, <1>4
<1> QED BY <1>3, <1>5

-----------------------------------------------------------------------------
(* DebugLoop *)

\* Where a loop stands: it debugs a failure, and that failure is in the bank
\* unless the bank was full when it came.
Begun ==
  /\ pc # "idle" => signature \in Signal
  /\ pc # "idle" => Known(signature) \/ Len(bank) >= MaxGenes
  /\ pc = "check" => attempts = 0
  /\ pc = "check" /\ ~Known(signature) => dropped >= 1

\* t adds up the counts of the bank.
AddsUp(t) == t = [i \in 0..Len(bank) |-> IF i = 0 THEN 0 ELSE t[i - 1] + bank[i].count]

\* The counts of the bank can be added up, and no failure is missing from them.
Accounted ==
  \E t \in [0..Len(bank) -> Nat] : AddsUp(t) /\ t[Len(bank)] + dropped = failures

\* The inductive invariant: FirstOrTurnedAway needs Begun to know that a retry
\* merges with the gene the loop began with.
Inv == TypeOK /\ Selective /\ Begun /\ FirstOrTurnedAway /\ AnswerFitsAttempts /\ Accounted

-----------------------------------------------------------------------------
\* The first gene sharing a token with a signature is unique.
LEMMA ExistingIsUnique ==
  ASSUME bank \in Seq(Gene), NEW s, NEW i, NEW j,
         IsExisting(i, s), IsExisting(j, s)
  PROVE  i = j
<1>1. i \in 1..Len(bank) /\ j \in 1..Len(bank)
  BY DEF IsExisting
<1>2. i <= j /\ j <= i
  BY DEF IsExisting
<1> QED BY <1>1, <1>2

\* A merge changes one count and no signature, so no gene gains or loses an
\* overlap by it.
LEMMA MergeKeeps ==
  ASSUME bank \in Seq(Gene), NEW i \in DOMAIN bank, Merge(i)
  PROVE  /\ bank' \in Seq(Gene)
         /\ Len(bank') = Len(bank) /\ DOMAIN bank' = DOMAIN bank
         /\ \A j \in DOMAIN bank : bank'[j].signal = bank[j].signal
         /\ bank'[i].count = bank[i].count + 1
         /\ \A s : Known(s)' <=> Known(s)
         /\ \A j, s : IsExisting(j, s)' <=> IsExisting(j, s)
<1>1. bank[i] \in Gene
  OBVIOUS
<1>2. [bank[i] EXCEPT !.count = @ + 1] \in Gene
  BY <1>1 DEF Gene
<1>3. bank' = [bank EXCEPT ![i] = [bank[i] EXCEPT !.count = @ + 1]]
  BY DEF Merge
<1>4. /\ bank' \in Seq(Gene)
      /\ Len(bank') = Len(bank) /\ DOMAIN bank' = DOMAIN bank
  BY <1>2, <1>3
<1>5. \A j \in DOMAIN bank : bank'[j].signal = bank[j].signal
  BY <1>1, <1>3 DEF Gene
<1>6. bank'[i].count = bank[i].count + 1
  BY <1>1, <1>3 DEF Gene
<1>7. \A s : Known(s)' <=> Known(s)
  BY <1>4, <1>5 DEF Known
<1>8. \A j, s : IsExisting(j, s)' <=> IsExisting(j, s)
  BY <1>4, <1>5 DEF IsExisting
<1> QED BY <1>4, <1>5, <1>6, <1>7, <1>8

\* What one banked failure does to the bank: it stays well typed and
\* selective, and afterwards the failure is known or the bank is full.
LEMMA BankGeneKeeps ==
  ASSUME TypeOK, Selective, NEW s \in Signal, BankGene(s)
  PROVE  /\ bank' \in Seq(Gene) /\ failures' \in Nat /\ dropped' \in Nat
         /\ Selective'
         /\ Known(s)' \/ Len(bank') >= MaxGenes
         /\ ~Known(s)' => ~Known(s) /\ dropped' = dropped + 1
<1> USE BoundAssumption, OverlapAssumption
<1>0. bank \in Seq(Gene) /\ failures' \in Nat /\ dropped \in Nat
  BY DEF TypeOK, BankGene
<1>1. CASE \E i \in DOMAIN bank : IsExisting(i, s) /\ Merge(i)
  <2>1. PICK i \in DOMAIN bank : IsExisting(i, s) /\ Merge(i)
    BY <1>1
  <2>2. Known(s) /\ Known(s)'
    <3>1. Known(s)
      BY <2>1 DEF IsExisting, Known
    <3> QED BY <1>0, <2>1, <3>1, MergeKeeps
  <2>3. dropped' \in Nat
    BY <1>0, <2>1 DEF Merge
  <2>4. Selective'
    BY <1>0, <2>1, MergeKeeps DEF Selective
  <2> QED BY <1>0, <2>1, <2>2, <2>3, <2>4, MergeKeeps
<1>2. CASE ~Known(s) /\ AddGene(s) /\ Len(bank) < MaxGenes
  <2> DEFINE g == [signal |-> s, count |-> 1]
  <2>1. bank' = Append(bank, g) /\ dropped' = dropped
    BY <1>2 DEF AddGene
  <2>2. g \in Gene
    BY DEF Gene
  <2>3. /\ bank' \in Seq(Gene) /\ Len(bank') = Len(bank) + 1
        /\ \A i \in 1..Len(bank) : bank'[i] = bank[i]
        /\ bank'[Len(bank) + 1] = g
    BY <1>0, <2>1, <2>2
  <2>4. Selective'
    <3>0. Len(bank') <= MaxGenes /\ DOMAIN bank' = 1..(Len(bank) + 1)
      BY <1>0, <1>2, <2>3
    <3>1. SUFFICES ASSUME NEW i \in 1..(Len(bank) + 1), NEW j \in 1..(Len(bank) + 1), i < j
                   PROVE  <<bank'[i].signal, bank'[j].signal>> \notin Overlap
      BY <3>0 DEF Selective
    <3>2. CASE j \in 1..Len(bank)
      <4>1. i \in DOMAIN bank /\ j \in DOMAIN bank /\ bank'[i] = bank[i] /\ bank'[j] = bank[j]
        BY <1>0, <2>3, <3>1, <3>2
      <4> QED BY <3>1, <4>1 DEF Selective
    <3>3. CASE j = Len(bank) + 1
      <4>1. i \in 1..Len(bank)
        BY <1>0, <3>1, <3>3
      <4>2. bank'[i].signal = bank[i].signal /\ bank'[j].signal = s
        BY <2>3, <3>3, <4>1
      <4>3. i \in DOMAIN bank
        BY <1>0, <4>1
      <4>4. ~(\E m \in DOMAIN bank : <<bank[m].signal, s>> \in Overlap)
        BY <1>2 DEF Known
      <4> QED BY <4>2, <4>3, <4>4
    <3> QED BY <1>0, <3>2, <3>3
  <2>5. Known(s)'
    <3>1. Len(bank) + 1 \in DOMAIN bank'
      BY <1>0, <2>3
    <3>2. <<bank'[Len(bank) + 1].signal, s>> \in Overlap
      BY <2>3
    <3>3. \E i \in DOMAIN bank' : <<bank'[i].signal, s>> \in Overlap
      BY <3>1, <3>2
    <3> QED BY <3>3 DEF Known
  <2> QED BY <1>0, <2>1, <2>3, <2>4, <2>5
<1>3. CASE ~Known(s) /\ AddGene(s) /\ ~(Len(bank) < MaxGenes)
  <2>1. bank' = bank /\ dropped' = dropped + 1
    BY <1>3 DEF AddGene
  <2> QED BY <1>0, <1>3, <2>1 DEF Selective, Known
<1> QED BY <1>1, <1>2, <1>3 DEF BankGene

\* Two sums of the bank agree: there is no first gene after which they differ.
LEMMA SumIsUnique ==
  ASSUME bank \in Seq(Gene), NEW t, NEW u, AddsUp(t), AddsUp(u)
  PROVE  t[Len(bank)] = u[Len(bank)]
<1> DEFINE D == {i \in 0..Len(bank) : t[i] # u[i]}
<1>0. Len(bank) \in Nat
  OBVIOUS
<1>1. SUFFICES ASSUME D # {} PROVE FALSE
  BY <1>0
<1>2. D \in SUBSET Nat
  BY <1>0
<1>3. PICK i \in D : \A j \in D : i <= j
  BY <1>1, <1>2, LeastNatural
<1>4. t[0] = 0 /\ u[0] = 0
  BY <1>0 DEF AddsUp
<1>5. i \in 0..Len(bank) /\ i # 0 /\ t[i] # u[i]
  BY <1>3, <1>4
<1>6. i - 1 \in 0..Len(bank) /\ ~(i <= i - 1)
  BY <1>0, <1>5
<1>7. t[i - 1] = u[i - 1]
  BY <1>3, <1>6
<1>8. t[i] = t[i - 1] + bank[i].count /\ u[i] = u[i - 1] + bank[i].count
  BY <1>5 DEF AddsUp
<1> QED BY <1>5, <1>7, <1>8

\* What is accounted for adds up.
LEMMA AccountedAddsUp ==
  ASSUME bank \in Seq(Gene), Accounted
  PROVE  FailuresAreCounted
<1>1. PICK t : AddsUp(t) /\ t[Len(bank)] + dropped = failures
  BY DEF Accounted
<1> DEFINE total == CHOOSE u : AddsUp(u)
<1>2. AddsUp(total)
  BY <1>1
<1>3. TotalCount = total[Len(bank)]
  BY DEF TotalCount, AddsUp
<1> HIDE DEF total
<1>4. total[Len(bank)] = t[Len(bank)]
  BY <1>1, <1>2, SumIsUnique
<1> QED BY <1>1, <1>3, <1>4 DEF FailuresAreCounted

\* A banked failure is added to one count, opens a gene or is dropped.
LEMMA BankGeneAccounts ==
  ASSUME bank \in Seq(Gene), dropped \in Nat, failures \in Nat, Accounted,
         NEW s \in Signal, BankGene(s)
  PROVE  Accounted'
<1> DEFINE n == Len(bank)
<1>0. n \in Nat /\ failures' = failures + 1
  BY DEF BankGene
<1>1. PICK t \in [0..n -> Nat] : AddsUp(t) /\ t[n] + dropped = failures
  BY DEF Accounted
<1>2. /\ t[0] = 0
      /\ \A i \in 1..n : t[i] = t[i - 1] + bank[i].count
      /\ t[n] \in Nat
  <2>1. AddsUp(t)
    BY <1>1
  <2>2. \A i \in 0..n : t[i] = IF i = 0 THEN 0 ELSE t[i - 1] + bank[i].count
    BY <2>1 DEF AddsUp
  <2> QED BY <1>0, <1>1, <2>2
<1>3. \A i \in 1..n : bank[i].count \in Nat
  <2>1. \A i \in 1..n : bank[i] \in Gene
    BY <1>0
  <2> QED BY <2>1 DEF Gene
<1>4. CASE \E i \in DOMAIN bank : IsExisting(i, s) /\ Merge(i)
  <2>1. PICK k \in 1..n : Merge(k)
    BY <1>0, <1>4
  <2>2. /\ Len(bank') = n /\ dropped' = dropped
        /\ \A i \in 1..n : bank'[i].count = IF i = k THEN bank[i].count + 1 ELSE bank[i].count
    BY <2>1 DEF Merge, Gene
  <2>9. PICK u : u = [i \in 0..n |-> IF k <= i THEN t[i] + 1 ELSE t[i]]
    OBVIOUS
  <2>3. u \in [0..n -> Nat] /\ u[n] = t[n] + 1
    BY <1>0, <2>1, <2>9
  <2>4. ASSUME NEW i \in 0..n
        PROVE  u[i] = IF i = 0 THEN 0 ELSE u[i - 1] + bank'[i].count
    <3>1. CASE i = 0
      BY <1>2, <2>1, <2>9, <3>1
    <3>2. CASE i # 0
      <4>1. i \in 1..n /\ i - 1 \in 0..n /\ t[i] \in Nat /\ t[i - 1] \in Nat /\ bank[i].count \in Nat
        BY <1>0, <1>3, <3>2
      <4>2. t[i] = t[i - 1] + bank[i].count
        BY <1>2, <4>1
      <4>3. CASE i = k
        <5>1. u[i] = t[i] + 1 /\ u[i - 1] = t[i - 1] /\ bank'[i].count = bank[i].count + 1
          BY <2>1, <2>2, <2>9, <4>1, <4>3
        <5> QED BY <3>2, <4>1, <4>2, <5>1
      <4>4. CASE i < k
        <5>1. u[i] = t[i] /\ u[i - 1] = t[i - 1] /\ bank'[i].count = bank[i].count
          BY <2>1, <2>2, <2>9, <4>1, <4>4
        <5> QED BY <3>2, <4>1, <4>2, <5>1
      <4>5. CASE k < i
        <5>1. u[i] = t[i] + 1 /\ u[i - 1] = t[i - 1] + 1 /\ bank'[i].count = bank[i].count
          BY <2>1, <2>2, <2>9, <4>1, <4>5
        <5> QED BY <3>2, <4>1, <4>2, <5>1
      <4> QED BY <2>1, <4>1, <4>3, <4>4, <4>5
    <3> QED BY <3>1, <3>2
  <2>5. u = [i \in 0..n |-> u[i]]
    BY <2>3
  <2>6. AddsUp(u)'
    BY <2>2, <2>4, <2>5 DEF AddsUp
  <2>7. u[n] + dropped' = failures'
    <3>1. u[n] = t[n] + 1 /\ dropped' = dropped /\ failures' = failures + 1 /\ t[n] + dropped = failures
      BY <1>0, <1>1, <2>2, <2>3
    <3>2. t[n] \in Nat
      BY <1>2
    <3> HIDE DEF n
    <3> QED BY <3>1, <3>2
  <2>8. u \in [0..Len(bank') -> Nat] /\ u[Len(bank')] + dropped' = failures'
    BY <2>2, <2>3, <2>7
  <2> QED BY <2>6, <2>8 DEF Accounted
<1>5. CASE ~Known(s) /\ AddGene(s) /\ Len(bank) < MaxGenes
  <2>1. bank' = Append(bank, [signal |-> s, count |-> 1]) /\ dropped' = dropped
    BY <1>5 DEF AddGene
  <2>2. /\ Len(bank') = n + 1 /\ bank'[n + 1].count = 1
        /\ \A i \in 1..n : bank'[i].count = bank[i].count
    BY <2>1
  <2>9. PICK u : u = [i \in 0..(n + 1) |-> IF i = n + 1 THEN t[n] + 1 ELSE t[i]]
    OBVIOUS
  <2>3. u \in [0..(n + 1) -> Nat] /\ u[n + 1] = t[n] + 1
    BY <1>0, <2>9
  <2>4. ASSUME NEW i \in 0..(n + 1)
        PROVE  u[i] = IF i = 0 THEN 0 ELSE u[i - 1] + bank'[i].count
    <3>1. CASE i = 0
      BY <1>0, <1>2, <2>9, <3>1
    <3>2. CASE i \in 1..n
      <4>1. u[i] = t[i] /\ i - 1 \in 0..(n + 1) /\ u[i - 1] = t[i - 1] /\ i # 0
        BY <1>0, <2>9, <3>2
      <4> QED BY <1>2, <2>2, <3>2, <4>1
    <3>3. CASE i = n + 1
      <4>1. u[i] = t[n] + 1 /\ u[i - 1] = t[n] /\ i # 0 /\ bank'[i].count = 1
        BY <1>0, <2>2, <2>9, <3>3
      <4> QED BY <4>1
    <3> QED BY <1>0, <3>1, <3>2, <3>3
  <2>5. u = [i \in 0..(n + 1) |-> u[i]]
    BY <2>3
  <2>6. AddsUp(u)'
    BY <2>2, <2>4, <2>5 DEF AddsUp
  <2>7. u[n + 1] + dropped' = failures'
    <3>1. u[n + 1] = t[n] + 1 /\ dropped' = dropped /\ failures' = failures + 1 /\ t[n] + dropped = failures
      BY <1>0, <1>1, <2>1, <2>3
    <3>2. t[n] \in Nat
      BY <1>2
    <3> HIDE DEF n
    <3> QED BY <3>1, <3>2
  <2>8. u \in [0..Len(bank') -> Nat] /\ u[Len(bank')] + dropped' = failures'
    BY <2>2, <2>3, <2>7
  <2> QED BY <2>6, <2>8 DEF Accounted
<1>6. CASE ~Known(s) /\ AddGene(s) /\ ~(Len(bank) < MaxGenes)
  <2>1. bank' = bank /\ dropped' = dropped + 1
    BY <1>6 DEF AddGene
  <2>2. AddsUp(t)'
    BY <1>1, <2>1 DEF AddsUp
  <2>3. t[Len(bank')] + dropped' = failures' /\ t \in [0..Len(bank') -> Nat]
    BY <1>0, <1>1, <1>2, <2>1
  <2> QED BY <2>2, <2>3 DEF Accounted
<1> QED BY <1>4, <1>5, <1>6 DEF BankGene
-----------------------------------------------------------------------------
LEMMA InitInv == Init => Inv
<1> SUFFICES ASSUME Init PROVE Inv
  OBVIOUS
<1>1. TypeOK /\ Selective /\ Begun /\ FirstOrTurnedAway /\ AnswerFitsAttempts
  BY BoundAssumption
     DEF Init, TypeOK, Selective, Begun, FirstOrTurnedAway, AnswerFitsAttempts, Result
<1>2. Accounted
  <2>1. Len(bank) = 0 /\ bank = <<>> /\ dropped = 0 /\ failures = 0
    BY DEF Init
  <2>2. PICK t : t = [i \in 0..0 |-> 0]
    OBVIOUS
  <2>3. t \in [0..Len(bank) -> Nat] /\ t[0] = 0 /\ AddsUp(t)
    BY <2>1, <2>2 DEF AddsUp
  <2> QED BY <2>1, <2>3 DEF Accounted
<1> QED BY <1>1, <1>2 DEF Inv

LEMMA StepInv == Inv /\ [Next]_vars => Inv'
<1> SUFFICES ASSUME Inv, [Next]_vars PROVE Inv'
  OBVIOUS
<1> USE BoundAssumption, SignalAssumption
<1>1. ASSUME NEW s \in Signal, Begin(s) PROVE Inv'
  <2>1. /\ bank' \in Seq(Gene) /\ failures' \in Nat /\ dropped' \in Nat
        /\ Selective' /\ (Known(s)' \/ Len(bank') >= MaxGenes)
        /\ ~Known(s)' => dropped' >= 1
    BY <1>1, BankGeneKeeps DEF Inv, Begin, TypeOK
  <2>2. /\ pc' = "check" /\ signature' = s /\ attempts' = 0
        /\ loops' = loops + 1 /\ result' = result
    BY <1>1 DEF Begin
  <2>3. TypeOK'
    BY <2>1, <2>2 DEF Inv, TypeOK
  <2>4. Begun'
    BY <2>1, <2>2 DEF Begun, Known
  <2>5. Accounted'
    BY <1>1, BankGeneAccounts DEF Inv, TypeOK, Begin
  <2> QED BY <2>1, <2>2, <2>3, <2>4, <2>5 DEF Inv, FirstOrTurnedAway, AnswerFitsAttempts
<1>2. ASSUME bank' = bank, failures' = failures, dropped' = dropped,
             signature' = signature, loops' = loops,
             attempts' \in 0..MaxAttempts,
             pc' = "idle", result' \in Result, AnswerFitsAttempts'
      PROVE  Inv'
  <2>1. TypeOK' /\ Selective' /\ Begun' /\ FirstOrTurnedAway'
    BY <1>2 DEF Inv, TypeOK, Selective, Begun, FirstOrTurnedAway
  <2>2. Accounted'
    BY <1>2 DEF Inv, Accounted, AddsUp
  <2> QED BY <1>2, <2>1, <2>2 DEF Inv
<1>3. CASE EscalateSystemic
  BY <1>2, <1>3 DEF EscalateSystemic, End, Result, Inv, TypeOK, Begun, AnswerFitsAttempts
<1>4. CASE Proceed
  <2>1. /\ UNCHANGED <<bank, signature, attempts, result, loops, failures, dropped>>
        /\ pc = "check" /\ pc' = "repair" /\ ~IsSystemic(signature)
    BY <1>4 DEF Proceed
  <2>2. attempts = 0 /\ Retries = 0
    BY <2>1 DEF Inv, Begun, Retries
  <2>3. ASSUME NEW i \in DOMAIN bank, IsExisting(i, signature)
        PROVE  bank[i].count = 1
    <3>1. bank[i] \in Gene
      BY <2>3 DEF Inv, TypeOK
    <3>2. ~(bank[i].count >= RecurringThreshold)
      BY <2>1, <2>3 DEF IsSystemic
    <3> QED BY <3>1, <3>2 DEF Gene, RecurringThreshold
  <2>4. FirstOrTurnedAway'
    BY <2>1, <2>2, <2>3 DEF FirstOrTurnedAway, IsExisting, Retries, Known, Inv, Begun, TypeOK
  <2>5. TypeOK' /\ Selective'
    BY <2>1 DEF Inv, TypeOK, Selective
  <2>6. Begun'
    BY <2>1 DEF Inv, Begun, Known
  <2>7. Accounted'
    BY <2>1 DEF Inv, Accounted, AddsUp
  <2> QED BY <2>1, <2>4, <2>5, <2>6, <2>7 DEF Inv, AnswerFitsAttempts
<1>5. AskForRepair => attempts' \in 1..MaxAttempts
  BY DEF AskForRepair, Inv, TypeOK
<1>6. CASE NoValidOutput
  BY <1>2, <1>5, <1>6 DEF NoValidOutput, End, Result, AnswerFitsAttempts
<1>7. CASE RefuseProposal
  BY <1>2, <1>5, <1>7 DEF RefuseProposal, End, Result, AnswerFitsAttempts
<1>8. CASE RepairPasses
  BY <1>2, <1>5, <1>8 DEF RepairPasses, End, Result, AnswerFitsAttempts
<1>9. CASE RepairFails
  <2>1. /\ pc = "repair" /\ pc' = "repair" /\ attempts' = attempts + 1
        /\ attempts < MaxAttempts /\ attempts' \in 0..MaxAttempts /\ attempts \in 0..MaxAttempts
        /\ signature' = signature /\ result' = result /\ loops' = loops
    BY <1>5, <1>9 DEF RepairFails, AskForRepair, Inv, TypeOK
  <2>2. signature \in Signal /\ (Known(signature) \/ Len(bank) >= MaxGenes)
    BY <2>1 DEF Inv, Begun
  <2>3. Retries = attempts
    BY <2>1 DEF Retries
  <2>4. CASE attempts' < MaxAttempts
    <3>1. BankGene(signature)
      BY <1>9, <2>4 DEF RepairFails
    <3>2. /\ bank' \in Seq(Gene) /\ failures' \in Nat /\ dropped' \in Nat /\ Accounted'
          /\ Selective' /\ (Known(signature)' \/ Len(bank') >= MaxGenes)
          /\ ~Known(signature)' => ~Known(signature) /\ dropped' = dropped + 1
      <4>1. PICK s \in Signal : s = signature
        BY <2>2
      <4>2. /\ bank' \in Seq(Gene) /\ failures' \in Nat /\ dropped' \in Nat
            /\ Selective' /\ (Known(s)' \/ Len(bank') >= MaxGenes)
            /\ ~Known(s)' => ~Known(s) /\ dropped' = dropped + 1
        BY <3>1, <4>1, BankGeneKeeps DEF Inv
      <4>3. Accounted'
        BY <3>1, <4>1, BankGeneAccounts DEF Inv, TypeOK
      <4> QED BY <2>1, <4>1, <4>2, <4>3 DEF Known
    <3>3. Retries' = attempts + 1
      BY <2>1, <2>4 DEF Retries
    <3>7. ~Known(signature)' => Len(bank') >= MaxGenes /\ dropped' >= 1 + Retries'
      <4>1. SUFFICES ASSUME ~Known(signature)' PROVE dropped' >= 1 + Retries'
        BY <3>2
      <4>2. dropped >= 1 + attempts /\ dropped \in Nat
        BY <2>1, <2>3, <3>2, <4>1 DEF Inv, FirstOrTurnedAway, TypeOK
      <4> QED BY <2>1, <3>2, <3>3, <4>1, <4>2
    <3>4. FirstOrTurnedAway'
      <4>1. CASE \E k \in DOMAIN bank : IsExisting(k, signature) /\ Merge(k)
        <5>1. PICK k \in DOMAIN bank : IsExisting(k, signature) /\ Merge(k)
          BY <4>1
        <5>2. bank[k].count = 1 + attempts
          BY <2>1, <2>3, <5>1 DEF Inv, FirstOrTurnedAway
        <5>3. bank'[k].count = 1 + (attempts + 1)
          BY <2>1, <5>1, <5>2, MergeKeeps DEF Inv, TypeOK
        <5>4. ASSUME NEW i, IsExisting(i, signature)' PROVE i = k
          <6>1. PICK s \in Signal : s = signature
            BY <2>2
          <6>2. bank \in Seq(Gene) /\ IsExisting(k, s)
            BY <5>1, <6>1 DEF Inv, TypeOK
          <6>3. IsExisting(i, s)'
            BY <2>1, <5>4, <6>1 DEF IsExisting
          <6>4. IsExisting(i, s)
            BY <5>1, <6>2, <6>3, MergeKeeps
          <6> QED BY <6>2, <6>4, ExistingIsUnique
        <5> QED BY <2>1, <3>3, <3>7, <5>3, <5>4 DEF FirstOrTurnedAway
      <4>2. CASE ~Known(signature) /\ AddGene(signature)
        <5>1. bank' = bank
          BY <2>2, <4>2 DEF AddGene, Inv, TypeOK
        <5> QED BY <2>1, <3>7, <4>2, <5>1 DEF FirstOrTurnedAway, IsExisting, Known
      <4> QED BY <3>1, <4>1, <4>2 DEF BankGene
    <3>5. TypeOK'
      BY <2>1, <3>2 DEF Inv, TypeOK
    <3>6. Begun'
      BY <2>1, <2>2, <3>2 DEF Begun, Known
    <3> QED BY <2>1, <3>2, <3>4, <3>5, <3>6 DEF Inv, AnswerFitsAttempts
  <2>5. CASE ~(attempts' < MaxAttempts)
    <3>1. bank' = bank /\ failures' = failures /\ dropped' = dropped
      BY <1>9, <2>5 DEF RepairFails
    <3>2. Retries' = attempts
      BY <2>1, <2>5 DEF Retries
    <3>3. TypeOK' /\ Selective'
      BY <2>1, <3>1 DEF Inv, TypeOK, Selective
    <3>4. Begun'
      BY <2>1, <3>1 DEF Inv, Begun, Known
    <3>5. FirstOrTurnedAway'
      BY <2>1, <2>3, <3>1, <3>2 DEF Inv, FirstOrTurnedAway, IsExisting, Known
    <3>6. Accounted'
      BY <3>1 DEF Inv, Accounted, AddsUp
    <3> QED BY <2>1, <3>3, <3>4, <3>5, <3>6 DEF Inv, AnswerFitsAttempts
  <2> QED BY <2>4, <2>5
<1>10. CASE EscalateExhausted
  BY <1>2, <1>10 DEF EscalateExhausted, End, Result, Inv, TypeOK, AnswerFitsAttempts
<1>11. CASE UNCHANGED vars
  <2>1. TypeOK' /\ Selective' /\ Begun' /\ FirstOrTurnedAway' /\ AnswerFitsAttempts'
    BY <1>11 DEF vars, Inv, TypeOK, Selective, Begun, FirstOrTurnedAway, AnswerFitsAttempts,
                 Known, IsExisting, Retries
  <2>2. Accounted'
    BY <1>11 DEF vars, Inv, Accounted, AddsUp
  <2> QED BY <2>1, <2>2 DEF Inv
<1> QED
  BY <1>1, <1>3, <1>4, <1>6, <1>7, <1>8, <1>9, <1>10, <1>11 DEF Next, Loop

-----------------------------------------------------------------------------
LEMMA Invariant == Spec => []Inv
  BY InitInv, StepInv, PTL DEF Spec

\* Every variable of the loop and the bank keeps its type, and no loop asks
\* for more than maxAttempts repairs.
THEOREM TypeCorrect == Spec => []TypeOK
  BY Invariant, PTL DEF Inv

\* bankGene never adds a gene beside an earlier one it shares a token with,
\* nor beyond maxActiveGenes, even where sharing is not symmetric.
THEOREM BankIsSelective == Spec => []Selective
  BY Invariant, PTL DEF Inv

\* bankGene loses no failure and counts none twice, whatever loops called it:
\* each is in a gene's count or was turned away by the full bank.
THEOREM BankAccountsForFailures == Spec => []FailuresAreCounted
<1>1. Inv => FailuresAreCounted
  BY AccountedAddsUp DEF Inv, TypeOK
<1> QED BY <1>1, Invariant, PTL

\* A pattern is repaired in the first loop that fails with it and in no other,
\* unless the full bank turned every failure of it away.
THEOREM OneLoopPerPattern == Spec => []FirstOrTurnedAway
  BY Invariant, PTL DEF Inv

\* What a loop answers fits the attempts it reports: try again only with
\* attempts left, exhausted only with none.
THEOREM AnswersFitAttempts == Spec => []AnswerFitsAttempts
  BY Invariant, PTL DEF Inv

-----------------------------------------------------------------------------
(* ProjectLoop *)

\* The state a load starts from.
Saved == IF file = None THEN FreshRunState ELSE file

\* A story that may still be worked on has attempts left.
Workable(state) ==
  \A s \in Stories : state.status[s] \in {"todo", "in_progress"} => state.attempts[s] < AttemptBudget
AttemptsRemain == Workable(Saved) /\ (mem # None => Workable(mem))

\* A story at work is marked so, and the budget had room for it.
WorkIsMarked == step = "work" => mem.status[story] = "in_progress" /\ mem.used < RunBudget

\* The temporary file that is renamed holds what the session has.
TmpIsWhole == step = "rename" => tmp = mem

\* Only a file of schema 1 is migrated, and it has no ledger to lose.
LedgerSurvives ==
  /\ file # None => (file.schema = 1 => file.usd = 0)
  /\ mem # None => mem.schema = 2

\* A session is ahead of the file by the iteration it has not saved.
OneIterationAhead ==
  /\ Saved.used <= RunBudget
  /\ mem # None =>
       /\ mem.used = Saved.used + (IF step \in Saving THEN 1 ELSE 0)
       /\ mem.used <= RunBudget
       /\ mem.usd >= Saved.usd
       /\ mem.usd <= Saved.usd + (IF step \in Saving THEN MaxCost ELSE 0)
       /\ file # None => Extends(file, mem)

\* Every iteration that was worked is counted, but those a crash cut off.
WorkIsCounted == worked <= Charged.used + crashes

\* A session that runs has not been cut off.
CrashesAreSessions == step # "down" => crashes < sessions

\* The inductive invariant of the project loop.
ProjectInv ==
  /\ ProjectTypeOK /\ AttemptsRemain /\ WorkIsMarked /\ TmpIsWhole /\ LedgerSurvives
  /\ OneIterationAhead /\ WorkIsCounted /\ CrashesAreSessions
  /\ BudgetsAreDurable /\ TrendIsHeeded

-----------------------------------------------------------------------------
\* The next story is runnable.
LEMMA NextIsRunnable ==
  ASSUME NEW status, Runnable(status) # {}
  PROVE  SelectNextStory(status) \in Runnable(status)
<1> DEFINE Ranks == {Rank[s] : s \in Runnable(status)}
<1>1. Ranks \in SUBSET Nat /\ Ranks # {}
  BY StoryAssumption DEF Runnable
<1>2. PICK r \in Ranks : \A q \in Ranks : r <= q
  BY <1>1, LeastNatural
<1>3. \E s \in Runnable(status) : \A t \in Runnable(status) : Rank[s] <= Rank[t]
  BY <1>2
<1> QED BY <1>3 DEF SelectNextStory

\* A session that advances picks a story to do within the budget, and its last
\* window is not bad.
LEMMA AdvanceIsEarned ==
  ASSUME ProjectTypeOK, mem # None, StopReason = None
  PROVE  /\ SelectNextStory(mem.status) \in Runnable(mem.status)
         /\ mem.used < RunBudget
         /\ AssessConvergence = "converging"
<1>1. mem.used \in Nat
  BY DEF ProjectTypeOK, RunState
<1>2. AssessConvergence \in {"diverging", "stalled", "converging"}
  BY DEF AssessConvergence
<1> QED BY <1>1, <1>2, NextIsRunnable, StateAssumption, ProjectBoundAssumption
        DEF Stops, StopReason, NextStop, WithinRunBudget

\* A session that converges has not had a bad window last.
LEMMA ConvergingIsNotBad ==
  ASSUME history \in Seq(Metrics), Len(history) >= Window, AssessConvergence = "converging"
  PROVE  ~BadWindow(Len(history) - Window + 1)
<1> DEFINE n == Len(history) - Window
<1>0. n \in Nat /\ Window \in Nat \ {0} /\ Len(history) \in Nat
  BY ProjectBoundAssumption
<1>1. /\ Len(Recent) = Window
      /\ \A k \in 1..Window : Recent[k] = history[n + k]
  BY <1>0 DEF Recent
<1>2. \A k \in 1..Window : n + k \in DOMAIN history /\ history[n + k] \in Metrics
  BY <1>0
<1>3. ASSUME NEW v \in [1..Window -> Nat], NEW w,
             \A k \in 1..Window : v[k] = w[n + k],
             Window > 1, \A j \in (n + 1)..(n + 1 + Window - 2) : w[j] < w[j + 1]
      PROVE  StrictlyRising(v)
  <2>1. Len(v) = Window
    BY <1>0, <1>3
  <2>2. ASSUME NEW k \in 2..Window PROVE v[k] > v[k - 1]
    <3>1. n + k - 1 \in (n + 1)..(n + 1 + Window - 2)
      BY <1>0, <2>2
    <3>2. w[n + k - 1] < w[n + k - 1 + 1]
      BY <1>3, <3>1
    <3>3. n + k - 1 = n + (k - 1) /\ n + k - 1 + 1 = n + k /\ k \in 1..Window /\ k - 1 \in 1..Window
      BY <1>0, <2>2
    <3>4. v[k] = w[n + k] /\ v[k - 1] = w[n + (k - 1)] /\ v[k] \in Nat /\ v[k - 1] \in Nat
      BY <1>3, <3>3
    <3>5. v[k - 1] < v[k]
      BY <3>2, <3>3, <3>4
    <3> QED BY <3>4, <3>5
  <2>3. \A i \in 2..Len(v) : v[i] > v[i - 1]
    BY <2>1, <2>2
  <2> QED BY <1>0, <1>3, <2>1, <2>3 DEF StrictlyRising
<1>4. /\ [i \in 1..Window |-> Recent[i].clobber] \in [1..Window -> Nat]
      /\ [i \in 1..Window |-> Recent[i].rework] \in [1..Window -> Nat]
  <2>1. \A m \in Metrics : m.rework \in Nat /\ m.clobber \in Nat
    BY ProjectBoundAssumption, StoryAssumption, FS_CardinalityType DEF Metrics
  <2> QED BY <1>1, <1>2, <2>1
<1>5. /\ ~StrictlyRising([i \in 1..Window |-> Recent[i].clobber])
      /\ ~StrictlyRising([i \in 1..Window |-> Recent[i].rework])
      /\ ~(\A i \in 1..Window : Recent[i].delivered = 0)
  BY DEF AssessConvergence, EnoughHistory
<1>6. SUFFICES ASSUME BadWindow(n + 1) PROVE FALSE
  OBVIOUS
<1>7. CASE \A j \in (n + 1)..(n + 1 + Window - 1) : history[j].delivered = 0
  <2>1. \A k \in 1..Window : n + k \in (n + 1)..(n + 1 + Window - 1)
    BY <1>0
  <2> QED BY <1>1, <1>5, <1>7, <2>1
<1>8. ASSUME Window > 1,
             \A j \in (n + 1)..(n + 1 + Window - 2) :
               [k \in DOMAIN history |-> history[k].clobber][j]
                 < [k \in DOMAIN history |-> history[k].clobber][j + 1]
      PROVE  FALSE
  <2>1. \A k \in 1..Window : [i \in 1..Window |-> Recent[i].clobber][k]
                               = [j \in DOMAIN history |-> history[j].clobber][n + k]
    BY <1>1, <1>2
  <2> QED BY <1>3, <1>4, <1>5, <1>8, <2>1
<1>9. ASSUME Window > 1,
             \A j \in (n + 1)..(n + 1 + Window - 2) :
               [k \in DOMAIN history |-> history[k].rework][j]
                 < [k \in DOMAIN history |-> history[k].rework][j + 1]
      PROVE  FALSE
  <2>1. \A k \in 1..Window : [i \in 1..Window |-> Recent[i].rework][k]
                               = [j \in DOMAIN history |-> history[j].rework][n + k]
    BY <1>1, <1>2
  <2> QED BY <1>3, <1>4, <1>5, <1>9, <2>1
<1> QED BY <1>6, <1>7, <1>8, <1>9 DEF BadWindow

\* An iteration does not change the windows before it.
LEMMA AppendKeepsWindows ==
  ASSUME history \in Seq(Metrics), NEW m, history' = Append(history, m),
         NEW i \in 1..(Len(history) - Window + 1), BadWindow(i)'
  PROVE  BadWindow(i)
<1>0. Window \in Nat \ {0} /\ Len(history) \in Nat
  BY ProjectBoundAssumption
<1>1. \A j \in i..(i + Window - 1) : j \in DOMAIN history /\ j \in DOMAIN history' /\ history'[j] = history[j]
  BY <1>0
<1>2. \A j \in i..(i + Window - 2) : j \in i..(i + Window - 1) /\ j + 1 \in i..(i + Window - 1)
  BY <1>0
<1> QED BY <1>1, <1>2 DEF BadWindow

\* A step of the trend: an iteration ends the work of the session, and the next
\* begins only after a window that is not bad.
LEMMA TrendStep ==
  ASSUME ProjectTypeOK, TrendIsHeeded, step = "work", step' = "write",
         NEW m, history' = Append(history, m)
  PROVE  TrendIsHeeded'
<1>0. Window \in Nat \ {0} /\ Len(history) \in Nat /\ history \in Seq(Metrics)
  BY ProjectBoundAssumption DEF ProjectTypeOK
<1>1. Len(history') = Len(history) + 1
  BY <1>0
<1>2. ASSUME NEW i \in 1..(Len(history') - Window) PROVE ~BadWindow(i)'
  <2>1. i \in 1..(Len(history) - Window + 1)
    BY <1>0, <1>1, <1>2
  <2>2. CASE i = Len(history) - Window + 1
    BY <1>0, <2>1, <2>2, AppendKeepsWindows DEF TrendIsHeeded
  <2>3. CASE i \in 1..(Len(history) - Window)
    BY <1>0, <2>1, <2>3, AppendKeepsWindows DEF TrendIsHeeded
  <2> QED BY <1>0, <2>1, <2>2, <2>3
<1> QED BY <1>2 DEF TrendIsHeeded

-----------------------------------------------------------------------------
\* The fields of a run state.
LEMMA RunStateFields ==
  ASSUME NEW r \in RunState
  PROVE  /\ r.schema \in {1, 2} /\ r.used \in Nat /\ r.usd \in Nat
         /\ r.status \in [Stories -> {"todo", "in_progress", "done", "escalated"}]
         /\ r.attempts \in [Stories -> 0..AttemptBudget]
         /\ r.registry \in [Contracts -> Stories \cup {None}]
  BY DEF RunState

LEMMA ExtendsItself ==
  ASSUME NEW r \in RunState
  PROVE  Extends(r, r)
  BY RunStateFields DEF Extends

LEMMA ExtendsTransitive ==
  ASSUME NEW r1 \in RunState, NEW r2 \in RunState, NEW r3 \in RunState,
         Extends(r1, r2), Extends(r2, r3)
  PROVE  Extends(r1, r3)
<1>1. r1.used <= r3.used /\ r1.usd <= r3.usd
  BY RunStateFields DEF Extends
<1>2. \A s \in Stories : r1.status[s] \in {"done", "escalated"} => r3.status[s] = r1.status[s]
  BY DEF Extends
<1>3. \A c \in Contracts : r1.registry[c] # None => r3.registry[c] = r1.registry[c]
  BY DEF Extends
<1> QED BY <1>1, <1>2, <1>3 DEF Extends

\* A fresh run state is one, and so is a migrated one; a migration keeps what
\* was saved, where a file of schema 1 had no ledger.
LEMMA FreshState ==
  /\ FreshRunState \in RunState /\ Workable(FreshRunState)
  /\ FreshRunState.used = 0 /\ FreshRunState.usd = 0 /\ FreshRunState.schema = 2
  BY ProjectBoundAssumption DEF FreshRunState, RunState, Workable

LEMMA MigratedState ==
  ASSUME NEW r \in RunState, r.schema = 1 => r.usd = 0
  PROVE  /\ Migrated(r) \in RunState /\ Migrated(r).schema = 2
         /\ Migrated(r).used = r.used /\ Migrated(r).usd = r.usd
         /\ Migrated(r).attempts = r.attempts /\ Migrated(r).status = r.status
         /\ Extends(r, Migrated(r))
<1>1. /\ Migrated(r) \in RunState /\ Migrated(r).schema = 2
      /\ Migrated(r).used = r.used /\ Migrated(r).usd = r.usd
      /\ Migrated(r).attempts = r.attempts /\ Migrated(r).status = r.status
      /\ Migrated(r).registry = r.registry
  <2>1. CASE r.schema = 1
    <3>1. Migrated(r) = [r EXCEPT !.schema = 2, !.usd = 0]
      BY <2>1 DEF Migrated
    <3> QED BY <2>1, <3>1 DEF RunState
  <2>2. CASE r.schema # 1
    <3>1. Migrated(r) = r /\ r.schema = 2
      BY <2>2, RunStateFields DEF Migrated
    <3> QED BY <3>1
  <2> QED BY <2>1, <2>2
<1> QED BY <1>1, RunStateFields DEF Extends

\* An empty file is one of the legacy files: nothing is counted in it.
LEMMA LegacyState ==
  ASSUME NEW r \in LegacyFiles
  PROVE  /\ r \in RunState /\ Workable(r)
         /\ r.schema = 1 /\ r.used = 0 /\ r.usd = 0
<1>1. PICK done \in SUBSET Stories :
        r = [FreshRunState EXCEPT !.schema = 1,
               !.status = [s \in Stories |-> IF s \in done THEN "done" ELSE "todo"]]
  BY DEF LegacyFiles
<1>2. [s \in Stories |-> IF s \in done THEN "done" ELSE "todo"]
        \in [Stories -> {"todo", "in_progress", "done", "escalated"}]
  OBVIOUS
<1>3. /\ r.attempts = FreshRunState.attempts /\ r.schema = 1
      /\ r.used = FreshRunState.used /\ r.usd = FreshRunState.usd
  BY <1>1, FreshState DEF RunState
<1>4. r \in RunState
  BY <1>1, <1>2, FreshState DEF RunState
<1>5. \A s \in Stories : FreshRunState.attempts[s] = 0
  BY DEF FreshRunState
<1> QED BY <1>3, <1>4, <1>5, FreshState, ProjectBoundAssumption DEF Workable

LEMMA ProjectInitInv == ProjectInit => ProjectInv
<1> SUFFICES ASSUME ProjectInit PROVE ProjectInv
  OBVIOUS
<1>1. file = None \/ (file # None /\ file \in LegacyFiles /\ file \in RunState)
  BY LegacyState, StateAssumption DEF ProjectInit
<1>2. /\ tmp = None /\ mem = None /\ history = <<>> /\ green = {}
      /\ epic \in Epics /\ gate = FALSE /\ step = "down" /\ story = None
      /\ sessions = 0 /\ crashes = 0 /\ worked = 0 /\ spent = 0
  BY DEF ProjectInit
<1>3. ProjectTypeOK
  <2>1. <<>> \in Seq(Metrics)
    OBVIOUS
  <2>2. step = "down" /\ "down" # "work" /\ file \in RunState \cup {None}
    BY <1>1, <1>2
  <2>3. sessions \in 0..MaxSessions /\ crashes \in 0..sessions /\ worked \in Nat /\ spent \in Nat
    BY <1>2, ProjectBoundAssumption
  <2> QED BY <1>2, <2>1, <2>2, <2>3 DEF ProjectTypeOK
<1>4. AttemptsRemain
  BY <1>1, <1>2, FreshState, LegacyState DEF AttemptsRemain, Saved
<1>5. LedgerSurvives /\ WorkIsMarked /\ TmpIsWhole /\ CrashesAreSessions
  BY <1>1, <1>2, LegacyState DEF LedgerSurvives, WorkIsMarked, TmpIsWhole, CrashesAreSessions
<1>6. Saved.used = 0 /\ Saved.usd = 0 /\ Charged = Saved
  BY <1>1, <1>2, FreshState, LegacyState DEF Saved, Charged
<1>7. OneIterationAhead /\ WorkIsCounted /\ BudgetsAreDurable
  <2>1. MaxCost * 0 = 0
    BY ProjectBoundAssumption
  <2> QED BY <1>2, <1>6, <2>1, ProjectBoundAssumption
          DEF OneIterationAhead, WorkIsCounted, BudgetsAreDurable
<1>8. TrendIsHeeded
  BY <1>2, ProjectBoundAssumption DEF TrendIsHeeded
<1> QED BY <1>3, <1>4, <1>5, <1>7, <1>8 DEF ProjectInv

-----------------------------------------------------------------------------
(* The steps of a session. *)

LEMMA LoadInv ==
  ASSUME ProjectInv, NEW e \in Epics, LoadOrInit(e)
  PROVE  ProjectInv'
<1>1. /\ step \in Stops \cup {"down"} /\ sessions < MaxSessions /\ sessions' = sessions + 1
      /\ step' \in {"project_budget", "decide"} /\ epic' = e
      /\ history' = <<>> /\ green' = {} /\ gate' = FALSE /\ story' = None
      /\ file' = file /\ tmp' = tmp /\ crashes' = crashes /\ worked' = worked /\ spent' = spent
  BY DEF LoadOrInit
<1>2. Saved' = Saved /\ Saved \in RunState /\ (file # None => file \in RunState)
  BY <1>1, FreshState DEF Saved, ProjectInv, ProjectTypeOK
<1>3. /\ mem' \in RunState /\ mem'.schema = 2
      /\ mem'.used = Saved.used /\ mem'.usd = Saved.usd
      /\ mem'.attempts = Saved.attempts /\ mem'.status = Saved.status
      /\ file # None => Extends(file, mem')
  <2>1. CASE file = None
    <3>1. mem' = FreshRunState
      BY <2>1 DEF LoadOrInit
    <3> QED BY <2>1, <3>1, FreshState DEF Saved
  <2>2. CASE file # None
    <3>1. mem' = Migrated(file) /\ Saved = file
      BY <2>2 DEF LoadOrInit, Saved
    <3>2. file.schema = 1 => file.usd = 0
      BY <2>2 DEF ProjectInv, LedgerSurvives
    <3>3. file \in RunState
      BY <1>2, <2>2
    <3> QED BY <3>1, <3>2, <3>3, MigratedState
  <2> QED BY <2>1, <2>2
<1>4. mem' # None /\ step' \notin Saving /\ step' # "work" /\ step' # "down"
  BY <1>1, <1>3, StateAssumption DEF Saving
<1>5. ProjectTypeOK'
  <2>1. <<>> \in Seq(Metrics)
    OBVIOUS
  <2>2. sessions' \in 0..MaxSessions /\ crashes' \in 0..sessions'
    BY <1>1, ProjectBoundAssumption DEF ProjectInv, ProjectTypeOK
  <2>3. step' \in {"down", "decide", "work"} \cup Saving \cup Stops
    BY <1>1 DEF Stops
  <2> QED BY <1>1, <1>3, <1>4, <2>1, <2>2, <2>3 DEF ProjectInv, ProjectTypeOK
<1>6. AttemptsRemain'
  BY <1>2, <1>3 DEF ProjectInv, AttemptsRemain, Workable
<1>7. WorkIsMarked' /\ TmpIsWhole' /\ LedgerSurvives'
  BY <1>1, <1>3, <1>4 DEF ProjectInv, WorkIsMarked, TmpIsWhole, LedgerSurvives, Saving
<1>8. OneIterationAhead'
  <2>1. Saved.used \in Nat /\ Saved.usd \in Nat
    BY <1>2, RunStateFields
  <2> QED BY <1>1, <1>2, <1>3, <1>4, <2>1 DEF ProjectInv, OneIterationAhead
<1>9. Charged.used = Saved.used /\ Charged.usd = Saved.usd /\ Charged' = mem'
  <2>1. CASE mem = None
    BY <1>4, <2>1 DEF Charged, Saved
  <2>2. CASE mem # None
    <3>1. mem.used \in Nat /\ mem.usd \in Nat /\ Saved.used \in Nat /\ Saved.usd \in Nat
      BY <1>2, <2>2, RunStateFields DEF ProjectInv, ProjectTypeOK
    <3>2. step \notin Saving
      BY <1>1 DEF Saving, Stops
    <3> QED BY <1>4, <2>2, <3>1, <3>2 DEF Charged, ProjectInv, OneIterationAhead
  <2> QED BY <2>1, <2>2
<1>10. WorkIsCounted' /\ BudgetsAreDurable'
  BY <1>1, <1>3, <1>9 DEF ProjectInv, WorkIsCounted, BudgetsAreDurable
<1>11. CrashesAreSessions'
  BY <1>1 DEF ProjectInv, ProjectTypeOK, CrashesAreSessions
<1>12. TrendIsHeeded'
  BY <1>1, <1>4, ProjectBoundAssumption DEF TrendIsHeeded
<1> QED BY <1>5, <1>6, <1>7, <1>8, <1>10, <1>11, <1>12 DEF ProjectInv

\* What a session is before it decides.
LEMMA DecideInv ==
  ASSUME ProjectInv, DecideAutoAdvance
  PROVE  ProjectInv'
<1>1. /\ step = "decide"
      /\ file' = file /\ tmp' = tmp /\ history' = history /\ green' = green /\ epic' = epic
      /\ gate' = gate /\ sessions' = sessions /\ crashes' = crashes
      /\ worked' = worked /\ spent' = spent
  BY DEF DecideAutoAdvance
<1>2. mem # None /\ mem \in RunState
  BY <1>1 DEF ProjectInv, ProjectTypeOK
<1>3. CASE StopReason = None
  <2> DEFINE s == SelectNextStory(mem.status)
  <2>1. /\ s \in Runnable(mem.status) /\ mem.used < RunBudget /\ AssessConvergence = "converging"
    BY <1>2, <1>3, AdvanceIsEarned DEF ProjectInv
  <2>2. s \in Stories /\ mem.status[s] = "todo"
    BY <2>1 DEF Runnable
  <2>3. step' = "work" /\ story' = s /\ mem' = [mem EXCEPT !.status[s] = "in_progress"]
    BY <1>3 DEF DecideAutoAdvance
  <2> HIDE DEF s
  <2>4. /\ mem' \in RunState /\ mem'.schema = mem.schema /\ mem'.used = mem.used
        /\ mem'.usd = mem.usd /\ mem'.attempts = mem.attempts /\ mem'.registry = mem.registry
        /\ mem'.status = [mem.status EXCEPT ![s] = "in_progress"]
    BY <1>2, <2>2, <2>3 DEF RunState
  <2>5. Extends(mem, mem')
    BY <1>2, <2>2, <2>4, RunStateFields DEF Extends
  <2>6. mem' # None
    BY <2>4, StateAssumption
  <2>7. ProjectTypeOK'
    <3>1. s # None
      BY <2>2, StoryAssumption
    <3> QED BY <1>1, <2>2, <2>3, <2>4, <2>6, <3>1 DEF ProjectInv, ProjectTypeOK
  <2>8. AttemptsRemain'
    <3>1. Saved' = Saved
      BY <1>1 DEF Saved
    <3>2. Workable(mem')
      BY <1>2, <2>2, <2>4, RunStateFields DEF ProjectInv, AttemptsRemain, Workable
    <3> QED BY <3>1, <3>2 DEF ProjectInv, AttemptsRemain, Workable
  <2>9. WorkIsMarked' /\ TmpIsWhole' /\ LedgerSurvives' /\ CrashesAreSessions'
    <3>1. mem'.status[s] = "in_progress"
      BY <1>2, <2>2, <2>4, RunStateFields
    <3> QED BY <1>1, <1>2, <2>1, <2>3, <2>4, <3>1
            DEF ProjectInv, WorkIsMarked, TmpIsWhole, LedgerSurvives, CrashesAreSessions
  <2>10. OneIterationAhead'
    <3>1. Saved' = Saved /\ (file # None => file \in RunState)
      BY <1>1 DEF Saved, ProjectInv, ProjectTypeOK
    <3>2. file # None => Extends(file, mem')
      BY <1>2, <2>4, <2>5, <3>1, ExtendsTransitive DEF ProjectInv, OneIterationAhead
    <3> QED BY <1>1, <1>2, <2>3, <2>4, <3>1, <3>2 DEF ProjectInv, OneIterationAhead, Saving
  <2>11. WorkIsCounted' /\ BudgetsAreDurable'
    BY <1>1, <1>2, <2>4, <2>6 DEF ProjectInv, WorkIsCounted, BudgetsAreDurable, Charged
  <2>12. TrendIsHeeded'
    BY <1>1, <2>1, ConvergingIsNotBad DEF ProjectInv, ProjectTypeOK, TrendIsHeeded, BadWindow
  <2> QED BY <2>7, <2>8, <2>9, <2>10, <2>11, <2>12 DEF ProjectInv
<1>4. CASE StopReason # None
  <2>1. step' = StopReason /\ story' = story /\ mem' = mem
    BY <1>4 DEF DecideAutoAdvance
  <2>2. StopReason \in Stops
    BY <1>4 DEF StopReason, NextStop, Stops
  <2>3. step' \notin Saving /\ step' # "work" /\ step' # "down" /\ step \notin Saving /\ step # "down"
    BY <1>1, <2>1, <2>2 DEF Stops, Saving
  <2>4. ProjectTypeOK'
    BY <1>1, <1>2, <2>1, <2>2, <2>3 DEF ProjectInv, ProjectTypeOK
  <2>5. AttemptsRemain' /\ WorkIsMarked' /\ TmpIsWhole' /\ LedgerSurvives' /\ CrashesAreSessions'
    BY <1>1, <2>1, <2>3 DEF ProjectInv, AttemptsRemain, Workable, WorkIsMarked, TmpIsWhole,
       LedgerSurvives, CrashesAreSessions, Saved, Saving
  <2>6. OneIterationAhead' /\ WorkIsCounted' /\ BudgetsAreDurable'
    BY <1>1, <2>1, <2>3 DEF ProjectInv, OneIterationAhead, WorkIsCounted, BudgetsAreDurable,
       Saved, Charged, Extends
  <2>7. TrendIsHeeded'
    BY <1>1, <2>3 DEF ProjectInv, TrendIsHeeded, BadWindow
  <2> QED BY <2>4, <2>5, <2>6, <2>7 DEF ProjectInv
<1> QED BY <1>3, <1>4

\* An iteration that is counted, charged and measured keeps the invariant.
LEMMA IterationInv ==
  ASSUME ProjectInv, step = "work", NEW cost \in 0..MaxCost, NEW metrics \in Metrics,
         EndIteration(cost, metrics),
         mem' \in RunState, mem'.schema = mem.schema,
         mem'.used = mem.used + 1, mem'.usd = mem.usd + cost,
         Extends(mem, mem'), Workable(mem'),
         green' \subseteq Stories, gate' \in BOOLEAN
  PROVE  ProjectInv'
<1>1. /\ worked' = worked + 1 /\ spent' = spent + cost
      /\ history' = Append(history, metrics)
      /\ step' = "write" /\ story' = None
      /\ file' = file /\ tmp' = tmp /\ epic' = epic /\ sessions' = sessions /\ crashes' = crashes
  BY DEF EndIteration
<1>2. /\ mem # None /\ mem \in RunState /\ mem' # None
      /\ Saved' = Saved /\ (file # None => file \in RunState) /\ Saved \in RunState
  BY <1>1, StateAssumption, FreshState DEF ProjectInv, ProjectTypeOK, Saved
<1>3. /\ mem.used \in Nat /\ mem.usd \in Nat /\ Saved.used \in Nat /\ Saved.usd \in Nat
      /\ cost \in Nat /\ cost <= MaxCost /\ MaxCost \in Nat /\ worked \in Nat /\ spent \in Nat
      /\ crashes \in Nat /\ RunBudget \in Nat
  BY <1>2, RunStateFields, ProjectBoundAssumption DEF ProjectInv, ProjectTypeOK
<1>4. ProjectTypeOK'
  <2>1. history' \in Seq(Metrics)
    BY <1>1 DEF ProjectInv, ProjectTypeOK
  <2>2. worked' \in Nat /\ spent' \in Nat
    BY <1>1, <1>3
  <2>3. step' = "write" /\ step' \in Saving /\ step' # "down" /\ step' # "work"
    BY <1>1 DEF Saving
  <2> QED BY <1>1, <1>2, <2>1, <2>2, <2>3 DEF ProjectInv, ProjectTypeOK
<1>5. AttemptsRemain'
  <2>1. Workable(mem)' /\ (Workable(Saved) => Workable(Saved)')
    BY <1>2 DEF Workable
  <2> QED BY <2>1 DEF ProjectInv, AttemptsRemain
<1>6. WorkIsMarked' /\ TmpIsWhole' /\ LedgerSurvives' /\ CrashesAreSessions'
  BY <1>1, <1>2 DEF ProjectInv, WorkIsMarked, TmpIsWhole, LedgerSurvives, CrashesAreSessions
<1>7. OneIterationAhead'
  <2>1. file # None => Extends(file, mem')
    BY <1>2, ExtendsTransitive DEF ProjectInv, OneIterationAhead
  <2>2. mem.used = Saved.used /\ mem.usd = Saved.usd /\ mem.used < RunBudget
    BY <1>2, <1>3 DEF ProjectInv, OneIterationAhead, WorkIsMarked, Saving
  <2>3. step' \in Saving
    BY <1>1 DEF Saving
  <2>4. /\ mem'.used = Saved'.used + 1 /\ mem'.used <= RunBudget
        /\ mem'.usd >= Saved'.usd /\ mem'.usd <= Saved'.usd + MaxCost /\ Saved'.used <= RunBudget
    BY <1>2, <1>3, <2>2
  <2> QED BY <1>1, <2>1, <2>3, <2>4 DEF OneIterationAhead
<1>8. WorkIsCounted' /\ BudgetsAreDurable'
  <2>1. Charged = mem /\ Charged' = mem'
    BY <1>2 DEF Charged
  <2>2. worked' <= mem'.used + crashes
    BY <1>1, <1>3, <2>1 DEF ProjectInv, WorkIsCounted
  <2>3. worked' <= RunBudget + crashes
    <3>1. mem.used + 1 <= RunBudget
      BY <1>3 DEF ProjectInv, WorkIsMarked
    <3>2. worked + 1 <= mem.used + 1 + crashes
      BY <1>1, <2>2
    <3> QED BY <1>1, <1>3, <3>1, <3>2
  <2>4. spent' <= mem'.usd + MaxCost * crashes
    <3>1. spent <= mem.usd + MaxCost * crashes
      BY <2>1 DEF ProjectInv, BudgetsAreDurable
    <3>2. MaxCost * crashes \in Nat
      BY <1>3
    <3> QED BY <1>1, <1>3, <3>1, <3>2
  <2> QED BY <1>1, <2>1, <2>2, <2>3, <2>4 DEF WorkIsCounted, BudgetsAreDurable
<1>9. TrendIsHeeded'
  BY <1>1, TrendStep DEF ProjectInv
<1> QED BY <1>4, <1>5, <1>6, <1>7, <1>8, <1>9 DEF ProjectInv

LEMMA DeliverInv ==
  ASSUME ProjectInv, NEW cost \in 0..MaxCost, NEW rework \in 0..MaxRework, Deliver(cost, rework)
  PROVE  ProjectInv'
<1>1. step = "work" /\ gate' = gate /\ green' = green \cup {story}
  BY DEF Deliver
<1>2. mem # None /\ mem \in RunState /\ story \in Stories /\ mem.status[story] = "in_progress"
  BY <1>1, StateAssumption DEF ProjectInv, ProjectTypeOK, WorkIsMarked
<1>3. PICK registry \in [Contracts -> Stories \cup {None}] :
        /\ registry = RegisterProducedContracts(mem.registry, story)
        /\ \A c \in Contracts : mem.registry[c] # None => registry[c] = mem.registry[c]
  <2> DEFINE new == RegisterProducedContracts(mem.registry, story)
  <2>1. \A c \in Contracts : mem.registry[c] \in Stories \cup {None}
    BY <1>2, RunStateFields
  <2>2. new \in [Contracts -> Stories \cup {None}]
    BY <1>2, <2>1 DEF RegisterProducedContracts
  <2>3. \A c \in Contracts : mem.registry[c] # None => new[c] = mem.registry[c]
    BY DEF RegisterProducedContracts
  <2> HIDE DEF new
  <2> QED BY <2>2, <2>3 DEF new
<1>4. mem' = [Counted(mem, cost) EXCEPT !.status[story] = "done", !.registry = registry]
  <2>1. Counted(mem, cost).registry = mem.registry
    BY <1>2 DEF Counted, RunState
  <2> QED BY <1>3, <2>1 DEF Deliver
<1>5. cost \in Nat /\ mem.used + 1 \in Nat /\ mem.usd + cost \in Nat
  BY <1>2, RunStateFields, ProjectBoundAssumption
<1>6. /\ mem' \in RunState /\ mem'.schema = mem.schema
      /\ mem'.used = mem.used + 1 /\ mem'.usd = mem.usd + cost
      /\ mem'.attempts = mem.attempts /\ mem'.registry = registry
      /\ mem'.status = [mem.status EXCEPT ![story] = "done"]
  BY <1>2, <1>3, <1>4, <1>5 DEF Counted, RunState
<1>7. Extends(mem, mem')
  BY <1>2, <1>3, <1>5, <1>6, RunStateFields DEF Extends
<1>8. Workable(mem')
  BY <1>2, <1>6, RunStateFields DEF ProjectInv, AttemptsRemain, Workable
<1>9. [delivered |-> 1, rework |-> rework, clobber |-> 0] \in Metrics
  BY ProjectBoundAssumption, StoryAssumption, FS_CardinalityType DEF Metrics
<1>10. EndIteration(cost, [delivered |-> 1, rework |-> rework, clobber |-> 0])
  BY DEF Deliver
<1>11. green' \subseteq Stories /\ gate' \in BOOLEAN
  BY <1>1, <1>2 DEF ProjectInv, ProjectTypeOK
<1> QED BY <1>1, <1>6, <1>7, <1>8, <1>9, <1>10, <1>11, IterationInv

LEMMA ReworkInv ==
  ASSUME ProjectInv, NEW cost \in 0..MaxCost, NEW rework \in 0..MaxRework,
         NEW broken \in SUBSET green, Rework(cost, rework, broken)
  PROVE  ProjectInv'
<1> DEFINE tries == mem.attempts[story] + 1
           status == IF AfterFailure(tries) = "escalate_human" THEN "escalated" ELSE "todo"
           metrics == [delivered |-> 0, rework |-> rework + 1, clobber |-> Cardinality(broken)]
<1>1. step = "work" /\ green' = green /\ EndIteration(cost, metrics) /\ gate' \in BOOLEAN
  BY DEF Rework
<1>2. /\ mem # None /\ mem \in RunState /\ story \in Stories
      /\ mem.status[story] = "in_progress" /\ mem.used < RunBudget
  BY <1>1, StateAssumption DEF ProjectInv, ProjectTypeOK, WorkIsMarked
<1>3. mem.attempts[story] \in Nat /\ tries <= AttemptBudget /\ tries \in 0..AttemptBudget
  <2>1. mem.attempts[story] < AttemptBudget
    BY <1>2 DEF ProjectInv, AttemptsRemain, Workable
  <2> QED BY <1>2, <2>1, RunStateFields, ProjectBoundAssumption
<1>4. status \in {"escalated", "todo"} /\ (status = "todo" => tries < AttemptBudget)
  <2>1. ASSUME ~(tries < AttemptBudget) PROVE AfterFailure(tries) = "escalate_human"
    <3>1. Exhausted(tries) /\ WithinRunBudget(mem.used)
      BY <1>2, <1>3, <2>1, ProjectBoundAssumption DEF Exhausted, WithinRunBudget
    <3> QED BY <3>1 DEF AfterFailure, Tick
  <2> QED BY <2>1
<1>5. mem' = [Counted(mem, cost) EXCEPT !.attempts[story] = tries, !.status[story] = status]
  BY DEF Rework
<1>6. cost \in Nat /\ mem.used + 1 \in Nat /\ mem.usd + cost \in Nat
  BY <1>2, RunStateFields, ProjectBoundAssumption
<1> HIDE DEF tries, status
<1>7. /\ mem' \in RunState /\ mem'.schema = mem.schema
      /\ mem'.used = mem.used + 1 /\ mem'.usd = mem.usd + cost
      /\ mem'.attempts = [mem.attempts EXCEPT ![story] = tries] /\ mem'.registry = mem.registry
      /\ mem'.status = [mem.status EXCEPT ![story] = status]
  BY <1>2, <1>3, <1>4, <1>5, <1>6 DEF Counted, RunState
<1>8. Extends(mem, mem')
  BY <1>2, <1>6, <1>7, RunStateFields DEF Extends
<1>9. Workable(mem')
  BY <1>2, <1>3, <1>4, <1>7, RunStateFields DEF ProjectInv, AttemptsRemain, Workable
<1>10. metrics \in Metrics
  <2>1. IsFiniteSet(Stories) /\ broken \subseteq Stories
    BY StoryAssumption DEF ProjectInv, ProjectTypeOK
  <2>2. Cardinality(broken) \in 0..Cardinality(Stories)
    BY <2>1, FS_Subset, FS_CardinalityType
  <2>3. rework + 1 \in 0..MaxRework + 1
    BY ProjectBoundAssumption
  <2> QED BY <2>2, <2>3 DEF Metrics
<1>11. green' \subseteq Stories
  BY <1>1 DEF ProjectInv, ProjectTypeOK
<1> HIDE DEF metrics
<1> QED BY <1>1, <1>7, <1>8, <1>9, <1>10, <1>11, IterationInv

\* The save: what is renamed is what the session has.
LEMMA WriteTmpInv ==
  ASSUME ProjectInv, WriteTmp
  PROVE  ProjectInv'
<1>1. /\ step = "write" /\ step' = "rename" /\ tmp' = mem
      /\ file' = file /\ mem' = mem /\ history' = history /\ green' = green /\ epic' = epic
      /\ gate' = gate /\ story' = story /\ sessions' = sessions /\ crashes' = crashes
      /\ worked' = worked /\ spent' = spent
  BY DEF WriteTmp
<1>2. mem # None /\ mem \in RunState
  BY <1>1 DEF ProjectInv, ProjectTypeOK
<1>3. step \in Saving /\ step' \in Saving /\ step' # "work" /\ step' # "down"
  BY <1>1 DEF Saving
<1>4. ProjectTypeOK'
  BY <1>1, <1>2, <1>3 DEF ProjectInv, ProjectTypeOK
<1>5. AttemptsRemain' /\ WorkIsMarked' /\ TmpIsWhole' /\ LedgerSurvives' /\ CrashesAreSessions'
  BY <1>1, <1>3 DEF ProjectInv, AttemptsRemain, Workable, WorkIsMarked, TmpIsWhole,
     LedgerSurvives, CrashesAreSessions, Saved
<1>6. OneIterationAhead' /\ WorkIsCounted' /\ BudgetsAreDurable'
  BY <1>1, <1>3 DEF ProjectInv, OneIterationAhead, WorkIsCounted, BudgetsAreDurable,
     Saved, Charged, Extends
<1>7. TrendIsHeeded'
  BY <1>1 DEF ProjectInv, TrendIsHeeded, BadWindow
<1> QED BY <1>4, <1>5, <1>6, <1>7 DEF ProjectInv

LEMMA RenameInv ==
  ASSUME ProjectInv, Rename
  PROVE  ProjectInv'
<1>1. /\ step = "rename" /\ step' = "decide" /\ file' = mem /\ tmp' = None
      /\ mem' = mem /\ history' = history /\ green' = green /\ epic' = epic
      /\ gate' = gate /\ story' = story /\ sessions' = sessions /\ crashes' = crashes
      /\ worked' = worked /\ spent' = spent
  BY DEF Rename, ProjectInv, TmpIsWhole
<1>2. mem # None /\ mem \in RunState
  BY <1>1 DEF ProjectInv, ProjectTypeOK
<1>3. step' \notin Saving /\ step' # "work" /\ step' # "down" /\ step' # "rename" /\ step # "down"
  BY <1>1 DEF Saving
<1>4. ProjectTypeOK'
  BY <1>1, <1>2, <1>3 DEF ProjectInv, ProjectTypeOK
<1>5. Saved' = mem
  BY <1>1, <1>2 DEF Saved
<1>6. AttemptsRemain' /\ WorkIsMarked' /\ TmpIsWhole' /\ LedgerSurvives' /\ CrashesAreSessions'
  BY <1>1, <1>2, <1>3, <1>5 DEF ProjectInv, AttemptsRemain, Workable, WorkIsMarked, TmpIsWhole,
     LedgerSurvives, CrashesAreSessions
<1>7. OneIterationAhead'
  <2>1. Extends(mem, mem)'
    BY <1>1, <1>2, ExtendsItself DEF Extends
  <2>2. mem.used \in Nat /\ mem.usd \in Nat /\ mem.used <= RunBudget
    BY <1>2, RunStateFields DEF ProjectInv, OneIterationAhead
  <2> QED BY <1>1, <1>2, <1>3, <1>5, <2>1, <2>2 DEF OneIterationAhead
<1>8. WorkIsCounted' /\ BudgetsAreDurable'
  BY <1>1, <1>2 DEF ProjectInv, WorkIsCounted, BudgetsAreDurable, Charged
<1>9. TrendIsHeeded'
  BY <1>1, <1>3 DEF ProjectInv, TrendIsHeeded, BadWindow
<1> QED BY <1>4, <1>6, <1>7, <1>8, <1>9 DEF ProjectInv

LEMMA CrashInv ==
  ASSUME ProjectInv, Crash
  PROVE  ProjectInv'
<1>1. /\ step # "down" /\ step \notin Stops /\ step' = "down" /\ crashes' = crashes + 1
      /\ mem' = None /\ story' = None /\ history' = <<>> /\ green' = {} /\ gate' = FALSE
      /\ file' = file /\ epic' = epic /\ sessions' = sessions
      /\ tmp' \in {tmp, Torn}
  BY DEF Crash
<1>2. /\ mem # None /\ mem \in RunState
      /\ Saved' = Saved /\ (file # None => file \in RunState) /\ Saved \in RunState
  BY <1>1, FreshState DEF ProjectInv, ProjectTypeOK, Saved
<1>3. /\ mem.used \in Nat /\ mem.usd \in Nat /\ Saved.used \in Nat /\ Saved.usd \in Nat
      /\ MaxCost \in Nat /\ worked \in Nat /\ spent \in Nat /\ crashes \in Nat /\ RunBudget \in Nat
      /\ crashes < sessions /\ sessions \in 0..MaxSessions
  BY <1>1, <1>2, RunStateFields, ProjectBoundAssumption
     DEF ProjectInv, ProjectTypeOK, CrashesAreSessions
<1>4. PICK cost \in 0..MaxCost :
        \/ step = "work" /\ worked' = worked + 1 /\ spent' = spent + cost
        \/ step # "work" /\ worked' = worked /\ spent' = spent
  <2>1. 0 \in 0..MaxCost
    BY <1>3
  <2> QED BY <2>1 DEF Crash
<1>5. cost \in Nat /\ cost <= MaxCost /\ step' # "work" /\ step' \notin Saving /\ step' # "rename"
  BY <1>1, <1>3 DEF Saving
<1>6. ProjectTypeOK'
  <2>1. <<>> \in Seq(Metrics)
    OBVIOUS
  <2>2. worked' \in Nat /\ spent' \in Nat /\ crashes' \in 0..sessions'
    BY <1>1, <1>3, <1>4, <1>5
  <2> QED BY <1>1, <1>5, <2>1, <2>2 DEF ProjectInv, ProjectTypeOK
<1>7. AttemptsRemain' /\ WorkIsMarked' /\ TmpIsWhole' /\ LedgerSurvives' /\ CrashesAreSessions'
  BY <1>1, <1>2, <1>5 DEF ProjectInv, AttemptsRemain, Workable, WorkIsMarked, TmpIsWhole,
     LedgerSurvives, CrashesAreSessions
<1>8. OneIterationAhead'
  BY <1>1, <1>2 DEF ProjectInv, OneIterationAhead
<1>9. Charged = mem /\ Charged' = Saved
  BY <1>1, <1>2 DEF Charged, Saved
<1>10. WorkIsCounted'
  <2>1. worked <= mem.used + crashes
    BY <1>9 DEF ProjectInv, WorkIsCounted
  <2>2. CASE step = "work"
    <3>1. mem.used = Saved.used
      BY <1>2, <1>3, <2>2 DEF ProjectInv, OneIterationAhead, Saving
    <3> QED BY <1>1, <1>3, <1>4, <1>9, <2>1, <2>2, <3>1 DEF WorkIsCounted
  <2>3. CASE step # "work"
    <3>1. mem.used <= Saved.used + 1
      BY <1>2, <1>3 DEF ProjectInv, OneIterationAhead
    <3> QED BY <1>1, <1>3, <1>4, <1>9, <2>1, <2>3, <3>1 DEF WorkIsCounted
  <2> QED BY <2>2, <2>3
<1>11. BudgetsAreDurable'
  <2>1. worked' <= RunBudget + crashes'
    <3>1. Saved.used <= RunBudget /\ worked' <= Saved.used + crashes'
      BY <1>2, <1>9, <1>10 DEF ProjectInv, OneIterationAhead, WorkIsCounted
    <3> QED BY <1>1, <1>3, <1>4, <3>1
  <2>2. MaxCost * (crashes + 1) = MaxCost * crashes + MaxCost /\ MaxCost * crashes \in Nat
    BY <1>3
  <2>3. spent <= mem.usd + MaxCost * crashes
    BY <1>9 DEF ProjectInv, BudgetsAreDurable
  <2>4. spent' <= Saved.usd + MaxCost * (crashes + 1)
    <3> DEFINE lost == MaxCost * crashes
    <3>1. lost \in Nat /\ MaxCost * (crashes + 1) = lost + MaxCost /\ spent <= mem.usd + lost
      BY <2>2, <2>3
    <3> HIDE DEF lost
    <3>2. CASE step = "work"
      <4>1. mem.usd <= Saved.usd
        BY <1>2, <1>3, <3>2 DEF ProjectInv, OneIterationAhead, Saving
      <4>2. spent' <= Saved.usd + (lost + MaxCost)
        BY <1>3, <1>4, <1>5, <3>1, <3>2, <4>1
      <4> QED BY <3>1, <4>2
    <3>3. CASE step # "work"
      <4>1. mem.usd <= Saved.usd + MaxCost
        BY <1>2, <1>3 DEF ProjectInv, OneIterationAhead
      <4>2. spent' <= Saved.usd + (lost + MaxCost)
        BY <1>3, <1>4, <3>1, <3>3, <4>1
      <4> QED BY <3>1, <4>2
    <3> QED BY <3>2, <3>3
  <2> QED BY <1>1, <1>9, <2>1, <2>4 DEF BudgetsAreDurable
<1>12. TrendIsHeeded'
  BY <1>1, <1>5, ProjectBoundAssumption DEF TrendIsHeeded
<1> QED BY <1>6, <1>7, <1>8, <1>10, <1>11, <1>12 DEF ProjectInv

LEMMA ProjectStepInv == ProjectInv /\ [ProjectNext]_projectVars => ProjectInv'
<1> SUFFICES ASSUME ProjectInv, [ProjectNext]_projectVars PROVE ProjectInv'
  OBVIOUS
<1>1. CASE UNCHANGED projectVars
  <2>1. ProjectTypeOK' /\ AttemptsRemain' /\ WorkIsMarked' /\ TmpIsWhole' /\ LedgerSurvives'
    BY <1>1 DEF projectVars, ProjectInv, ProjectTypeOK, AttemptsRemain, Workable, WorkIsMarked,
       TmpIsWhole, LedgerSurvives, Saved
  <2>2. /\ OneIterationAhead' /\ WorkIsCounted' /\ CrashesAreSessions' /\ BudgetsAreDurable'
        /\ TrendIsHeeded'
    BY <1>1 DEF projectVars, ProjectInv, OneIterationAhead, WorkIsCounted, CrashesAreSessions,
       BudgetsAreDurable, TrendIsHeeded, BadWindow, Saved, Charged, Extends
  <2> QED BY <2>1, <2>2 DEF ProjectInv
<1>2. CASE Work
  BY <1>2, DeliverInv, ReworkInv DEF Work
<1> QED BY <1>1, <1>2, LoadInv, DecideInv, WriteTmpInv, RenameInv, CrashInv DEF ProjectNext, Session

-----------------------------------------------------------------------------
LEMMA ProjectInvariant == ProjectSpec => []ProjectInv
  BY ProjectInitInv, ProjectStepInv, PTL DEF ProjectSpec

\* Every variable of the project loop keeps its type: the temporary file alone
\* may be torn, and only between sessions is there no run state.
THEOREM ProjectTypeCorrect == ProjectSpec => []ProjectTypeOK
  BY ProjectInvariant, PTL DEF ProjectInv

\* run_iteration_budget and the ledger are the project's, not the session's:
\* across loads, migrations and crashes the project is worked on at most that
\* often but for one iteration per crash, and costs at most what loadOrInit
\* will find but for one iteration's cost per crash.
THEOREM ProjectBudgetsLast == ProjectSpec => []BudgetsAreDurable
  BY ProjectInvariant, PTL DEF ProjectInv

\* decideAutoAdvance never lets a session go on after a window of iterations
\* that assessConvergence would not call converging.
THEOREM ProjectHeedsItsTrend == ProjectSpec => []TrendIsHeeded
  BY ProjectInvariant, PTL DEF ProjectInv

\* persistProjectRunState replaces the file by a whole run state, in which what
\* the file had settled is settled still.
THEOREM ProjectSavesStay == ProjectSpec => SavedStaysSaved
<1>1. ProjectInv /\ [ProjectNext]_projectVars => [SaveExtends]_projectVars
  <2> SUFFICES ASSUME ProjectInv, ProjectNext, file' # file
               PROVE  file' \in RunState /\ (file # None => Extends(file, file'))
    BY DEF SaveExtends
  <2>1. CASE Rename
    <3>1. file' = mem /\ mem \in RunState /\ mem # None
      BY <2>1 DEF Rename, ProjectInv, TmpIsWhole, ProjectTypeOK
    <3> QED BY <3>1 DEF ProjectInv, OneIterationAhead
  <2>2. CASE Work
    BY <2>2 DEF Work, Deliver, Rework, EndIteration
  <2> QED BY <2>1, <2>2 DEF ProjectNext, Session, LoadOrInit, DecideAutoAdvance, WriteTmp, Crash
<1> QED BY <1>1, ProjectInvariant, PTL DEF ProjectSpec, SavedStaysSaved
=============================================================================
