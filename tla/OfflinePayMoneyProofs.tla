----------------------- MODULE OfflinePayMoneyProofs ------------------------
(***************************************************************************)
(* Where the money is, for all values of the constants: the double entry   *)
(* of settlements, the conservation of balances, and the agreement of      *)
(* balances, ledger and token statuses.                                    *)
(*                                                                         *)
(* Balances are sums over sets.  The first part shows by minimal           *)
(* counterexamples over finite sets what the proofs need of sums.          *)
(***************************************************************************)
EXTENDS OfflinePayEscrowProofs, FiniteSetTheorems

Pick(s) == CHOOSE x \in s : TRUE
IsSum(g, f, S) ==
  g = [s \in SUBSET S |-> IF s = {} THEN 0 ELSE f[Pick(s)] + g[s \ {Pick(s)}]]
TheSum(f, S) == CHOOSE g : IsSum(g, f, S)

\* The library's sum is the fold's function at the whole set.
LEMMA SumIs == ASSUME NEW f, NEW S PROVE SumFunctionOnSet(f, S) = TheSum(f, S)[S]
BY Zenon DEF SumFunctionOnSet, FoldFunctionOnSet, MapThenFoldSet, TheSum, IsSum, Pick

\* The member that the fold takes out of a set first.
LEMMA PickIn == ASSUME NEW s, s # {} PROVE Pick(s) \in s
BY Zenon DEF Pick

\* Every nonempty set of subsets of a finite set has a minimal member.
LEMMA SmallestSet ==
  ASSUME NEW S, IsFiniteSet(S), NEW C, C \subseteq SUBSET S, C # {}
  PROVE  \E T \in C : \A U \in C : U \subseteq T => U = T
<1> DEFINE R == StrictSubsetOrdering(S)
<1>1. FiniteSubsetsOf(S) = SUBSET S
  BY FS_FiniteSubsetsOfFinite, Zenon
<1>2. IsWellFoundedOn(R, SUBSET S)
  BY <1>1, FS_StrictSubsetOrderingWellFounded, Zenon
<1>3. PICK T \in C : \A U \in C : <<U, T>> \notin R
  <2> HIDE DEF R
  <2> QED BY <1>2, WFMin, Zenon
<1>4. ASSUME NEW U \in C, U \subseteq T PROVE U = T
  BY <1>3, <1>4, Zenon DEF StrictSubsetOrdering
<1> QED BY <1>4, Zenon

\* Two functions that satisfy the recursion agree where both are defined.
LEMMA SumUnique ==
  ASSUME NEW f, NEW S, IsFiniteSet(S), NEW g, NEW h, NEW U, NEW V,
         IsSum(g, f, U), IsSum(h, f, V), S \subseteq U, S \subseteq V
  PROVE  g[S] = h[S]
<1> DEFINE C == {T \in SUBSET S : g[T] # h[T]}
<1>1. SUFFICES ASSUME C # {} PROVE FALSE
  BY Zenon
<1>2. PICK T \in C : \A W \in C : W \subseteq T => W = T
  <2>1. C \subseteq SUBSET S
    BY Zenon
  <2> HIDE DEF C
  <2> QED BY <1>1, <2>1, SmallestSet
<1>3. T \subseteq S /\ g[T] # h[T]
  BY <1>2, Zenon
<1>4. g[T] = IF T = {} THEN 0 ELSE f[Pick(T)] + g[T \ {Pick(T)}]
  BY <1>3, Zenon DEF IsSum
<1>5. h[T] = IF T = {} THEN 0 ELSE f[Pick(T)] + h[T \ {Pick(T)}]
  BY <1>3, Zenon DEF IsSum
<1>6. T # {} /\ Pick(T) \in T
  BY <1>3, <1>4, <1>5, PickIn, Zenon
<1>7. T \ {Pick(T)} \notin C
  BY <1>2, <1>6, Zenon
<1>8. g[T \ {Pick(T)}] = h[T \ {Pick(T)}]
  BY <1>3, <1>7, Zenon
<1> QED BY <1>3, <1>4, <1>5, <1>6, <1>8, Zenon

\* The recursion has a solution: a smallest set without one would get it from
\* its proper subsets.
LEMMA SumExists ==
  ASSUME NEW f, NEW S, IsFiniteSet(S)
  PROVE  IsSum(TheSum(f, S), f, S)
<1> DEFINE C == {T \in SUBSET S : ~\E g : IsSum(g, f, T)}
<1>1. SUFFICES ASSUME C # {} PROVE FALSE
  <2>1. \E g : IsSum(g, f, S)
    BY <1>1, Zenon
  <2> QED BY <2>1, Zenon DEF TheSum
<1>2. PICK T \in C : \A W \in C : W \subseteq T => W = T
  <2>1. C \subseteq SUBSET S
    BY Zenon
  <2> HIDE DEF C
  <2> QED BY <1>1, <2>1, SmallestSet
<1>3. T \subseteq S /\ ~\E g : IsSum(g, f, T)
  BY <1>2, Zenon
<1> DEFINE G(s) == TheSum(f, s)
           Val(s) == IF s = {} THEN 0 ELSE f[Pick(s)] + G(s \ {Pick(s)})[s \ {Pick(s)}]
           h == [s \in SUBSET T |-> Val(s)]
<1>4. ASSUME NEW s \in SUBSET T, s # T PROVE IsSum(G(s), f, s)
  <2>1. s \notin C
    BY <1>2, <1>4, Zenon
  <2>2. \E g : IsSum(g, f, s)
    BY <1>3, <2>1, Zenon
  <2> QED BY <2>2, Zenon DEF TheSum
<1>5. ASSUME NEW s \in SUBSET T, s # T PROVE Val(s) = G(s)[s]
  <2>1. IsSum(G(s), f, s)
    BY <1>4, <1>5, Zenon
  <2>2. G(s)[s] = IF s = {} THEN 0 ELSE f[Pick(s)] + G(s)[s \ {Pick(s)}]
    <3> HIDE DEF G
    <3> QED BY <2>1, Zenon DEF IsSum
  <2>3. CASE s = {}
    BY <2>2, <2>3, Zenon
  <2>4. CASE s # {}
    <3> DEFINE r == s \ {Pick(s)}
    <3>1. Pick(s) \in s
      BY <2>4, PickIn, Zenon
    <3>2. r \in SUBSET T /\ r # T /\ r \subseteq s
      BY <3>1, Zenon
    <3>3. IsSum(G(r), f, r)
      BY <1>4, <3>2, Zenon
    <3>4. IsFiniteSet(r)
      BY <1>3, <3>2, FS_Subset, Zenon
    <3>5. G(r)[r] = G(s)[r]
      <4> HIDE DEF G, r
      <4> QED BY <2>1, <3>2, <3>3, <3>4, SumUnique, Zenon
    <3> QED BY <2>2, <2>4, <3>5, Zenon
  <2> QED BY <2>3, <2>4, Zenon
<1>6. ASSUME NEW s \in SUBSET T, s # {}
      PROVE  h[s] = f[Pick(s)] + h[s \ {Pick(s)}]
  <2> DEFINE r == s \ {Pick(s)}
  <2>1. Pick(s) \in s
    BY <1>6, PickIn, Zenon
  <2>2. r \in SUBSET T /\ r # T
    BY <2>1, Zenon
  <2>3. h[r] = Val(r)
    <3> HIDE DEF Val, r
    <3> QED BY <2>2, Zenon
  <2>4. Val(r) = G(r)[r]
    BY <1>5, <2>2, Zenon
  <2>5. h[s] = f[Pick(s)] + G(r)[r]
    BY <1>6, Zenon
  <2> HIDE DEF h, Val, G
  <2> QED BY <2>3, <2>4, <2>5, Zenon
<1>7. h[{}] = 0
  BY Zenon
<1>8. DOMAIN h = SUBSET T
  BY Zenon
<1>9. IsSum(h, f, T)
  <2>1. h = [s \in SUBSET T |-> h[s]]
    BY Zenon
  <2> HIDE DEF h
  <2>2. \A s \in SUBSET T : h[s] = IF s = {} THEN 0 ELSE f[Pick(s)] + h[s \ {Pick(s)}]
    BY <1>6, <1>7, Zenon
  <2> QED BY <2>1, <2>2, Zenon DEF IsSum
<1> QED BY <1>3, <1>9, Zenon

\* The sum satisfies the recursion of the fold.
LEMMA SumStep ==
  ASSUME NEW f, NEW S, IsFiniteSet(S)
  PROVE  SumFunctionOnSet(f, S) = IF S = {} THEN 0 ELSE f[Pick(S)] + SumFunctionOnSet(f, S \ {Pick(S)})
<1> DEFINE r == S \ {Pick(S)}
<1>1. IsSum(TheSum(f, S), f, S)
  BY SumExists, Zenon
<1>2. TheSum(f, S)[S] = IF S = {} THEN 0 ELSE f[Pick(S)] + TheSum(f, S)[r]
  BY <1>1, Zenon DEF IsSum
<1>3. IsFiniteSet(r) /\ r \subseteq S
  BY FS_Subset, Zenon
<1>4. IsSum(TheSum(f, r), f, r)
  BY <1>3, SumExists, Zenon
<1>5. TheSum(f, S)[r] = TheSum(f, r)[r]
  <2> HIDE DEF r
  <2> QED BY <1>1, <1>3, <1>4, SumUnique, Zenon
<1> QED BY <1>2, <1>5, SumIs, Zenon

\* What the proofs below use: the empty sum, the type of a sum, that any member
\* can be taken out, and that the sum depends on the values over the set only.
LEMMA SumEmpty == ASSUME NEW f PROVE SumFunctionOnSet(f, {}) = 0
BY SumStep, FS_EmptySet, Zenon

LEMMA SumInt ==
  ASSUME NEW f, NEW S, IsFiniteSet(S), \A x \in S : f[x] \in Int
  PROVE  SumFunctionOnSet(f, S) \in Int
<1> DEFINE C == {T \in SUBSET S : SumFunctionOnSet(f, T) \notin Int}
<1>1. SUFFICES ASSUME C # {} PROVE FALSE
  BY Zenon
<1>2. PICK T \in C : \A W \in C : W \subseteq T => W = T
  <2>1. C \subseteq SUBSET S
    BY Zenon
  <2> HIDE DEF C
  <2> QED BY <1>1, <2>1, SmallestSet, SMTT(30)
<1>3. IsFiniteSet(T) /\ T \subseteq S
  BY <1>2, FS_Subset, Zenon
<1>4. T # {} /\ Pick(T) \in T
  <2>1. SumFunctionOnSet(f, T) \notin Int
    BY <1>2, Zenon
  <2>2. T # {}
    BY <2>1, SumEmpty
  <2> QED BY <2>2, PickIn, Zenon
<1>5. SumFunctionOnSet(f, T \ {Pick(T)}) \in Int
  BY <1>2, <1>3, <1>4, SMTT(30)
<1>6. SumFunctionOnSet(f, T) = f[Pick(T)] + SumFunctionOnSet(f, T \ {Pick(T)})
  BY <1>3, <1>4, SumStep, Zenon
<1> QED BY <1>2, <1>3, <1>4, <1>5, <1>6, SMTT(30)

LEMMA SumSplit ==
  ASSUME NEW f, NEW S, IsFiniteSet(S), \A x \in S : f[x] \in Int, NEW e \in S
  PROVE  SumFunctionOnSet(f, S) = f[e] + SumFunctionOnSet(f, S \ {e})
<1>0. \A T \in SUBSET S : IsFiniteSet(T) /\ SumFunctionOnSet(f, T) \in Int
  BY FS_Subset, SumInt, Zenon
<1> DEFINE D == {T \in SUBSET S : \E d \in T : SumFunctionOnSet(f, T) # f[d] + SumFunctionOnSet(f, T \ {d})}
<1>1. SUFFICES ASSUME D # {} PROVE FALSE
  BY Zenon
<1>2. PICK T \in D : \A W \in D : W \subseteq T => W = T
  <2>1. D \subseteq SUBSET S
    BY Zenon
  <2> HIDE DEF D
  <2> QED BY <1>1, <2>1, SmallestSet, SMTT(30)
<1>3. PICK d \in T : SumFunctionOnSet(f, T) # f[d] + SumFunctionOnSet(f, T \ {d})
  BY <1>2, Zenon
<1> DEFINE x == Pick(T)
<1>4. x \in T
  BY PickIn, Zenon
<1>5. SumFunctionOnSet(f, T) = f[x] + SumFunctionOnSet(f, T \ {x})
  BY <1>0, <1>2, SumStep, Zenon
<1> HIDE DEF x
<1>6. x # d
  BY <1>3, <1>5, Zenon
<1>7. T \ {x} \in SUBSET S /\ T \ {x} \notin D /\ d \in T \ {x}
  BY <1>2, <1>4, <1>6, Zenon
<1>8. T \ {d} \in SUBSET S /\ T \ {d} \notin D /\ x \in T \ {d}
  BY <1>2, <1>4, <1>6, Zenon
<1>9. SumFunctionOnSet(f, T \ {x}) = f[d] + SumFunctionOnSet(f, (T \ {x}) \ {d})
  BY <1>7, Zenon
<1>10. SumFunctionOnSet(f, T \ {d}) = f[x] + SumFunctionOnSet(f, (T \ {d}) \ {x})
  BY <1>8, Zenon
<1>11. (T \ {x}) \ {d} = (T \ {d}) \ {x}
  BY Zenon
<1>12. f[x] \in Int /\ f[d] \in Int /\ SumFunctionOnSet(f, (T \ {d}) \ {x}) \in Int
  BY <1>0, <1>2, <1>4, Zenon
<1>13. SumFunctionOnSet(f, T \ {x}) = f[d] + SumFunctionOnSet(f, (T \ {d}) \ {x})
  BY <1>9, <1>11, Zenon
<1> HIDE DEF D
<1> QED BY <1>3, <1>5, <1>10, <1>12, <1>13, SMTT(30)

LEMMA SumSame ==
  ASSUME NEW f, NEW g, NEW S, IsFiniteSet(S), \A x \in S : f[x] = g[x]
  PROVE  SumFunctionOnSet(f, S) = SumFunctionOnSet(g, S)
<1> DEFINE C == {T \in SUBSET S : SumFunctionOnSet(f, T) # SumFunctionOnSet(g, T)}
<1>1. SUFFICES ASSUME C # {} PROVE FALSE
  BY Zenon
<1>2. PICK T \in C : \A W \in C : W \subseteq T => W = T
  <2>1. C \subseteq SUBSET S
    BY Zenon
  <2> HIDE DEF C
  <2> QED BY <1>1, <2>1, SmallestSet
<1>3. IsFiniteSet(T) /\ T \subseteq S
  BY <1>2, FS_Subset, Zenon
<1>4. T # {} /\ Pick(T) \in T
  BY <1>2, SumEmpty, PickIn, Zenon
<1>5. SumFunctionOnSet(f, T \ {Pick(T)}) = SumFunctionOnSet(g, T \ {Pick(T)})
  BY <1>2, <1>3, <1>4, SMTT(30)
<1>6. SumFunctionOnSet(f, T) = f[Pick(T)] + SumFunctionOnSet(f, T \ {Pick(T)})
  BY <1>3, <1>4, SumStep, Zenon
<1>7. SumFunctionOnSet(g, T) = g[Pick(T)] + SumFunctionOnSet(g, T \ {Pick(T)})
  BY <1>3, <1>4, SumStep, Zenon
<1> QED BY <1>2, <1>3, <1>4, <1>5, <1>6, <1>7, Zenon

\* How sums change with one or two values, and with one more member.
LEMMA SumOneChange ==
  ASSUME NEW f, NEW g, NEW S, IsFiniteSet(S), NEW e \in S,
         \A x \in S : f[x] \in Int /\ g[x] \in Int,
         \A x \in S \ {e} : g[x] = f[x]
  PROVE  SumFunctionOnSet(g, S) = SumFunctionOnSet(f, S) + (g[e] - f[e])
<1> DEFINE R == S \ {e}
<1>1. IsFiniteSet(R) /\ \A x \in R : f[x] \in Int /\ g[x] \in Int
  BY FS_RemoveElement, Zenon
<1>2. SumFunctionOnSet(f, S) = f[e] + SumFunctionOnSet(f, R)
  BY SumSplit
<1>3. SumFunctionOnSet(g, S) = g[e] + SumFunctionOnSet(g, R)
  BY SumSplit
<1>4. SumFunctionOnSet(g, R) = SumFunctionOnSet(f, R)
  <2> HIDE DEF R
  <2> QED BY <1>1, SumSame, Zenon DEF R
<1>5. SumFunctionOnSet(f, R) \in Int
  <2> HIDE DEF R
  <2> QED BY <1>1, SumInt, Zenon
<1> HIDE DEF R
<1> QED BY <1>2, <1>3, <1>4, <1>5, SMTT(30)

LEMMA SumTwoChanges ==
  ASSUME NEW f, NEW g, NEW S, IsFiniteSet(S), NEW d \in S, NEW e \in S, d # e,
         \A x \in S : f[x] \in Int /\ g[x] \in Int,
         \A x \in S \ {d, e} : g[x] = f[x]
  PROVE  SumFunctionOnSet(g, S) = SumFunctionOnSet(f, S) + (g[d] - f[d]) + (g[e] - f[e])
<1> DEFINE h == [x \in S |-> IF x = d THEN g[x] ELSE f[x]]
<1>1. /\ \A x \in S : h[x] \in Int
      /\ \A x \in S \ {d} : h[x] = f[x]
      /\ \A x \in S \ {e} : g[x] = h[x]
      /\ h[d] = g[d] /\ h[e] = f[e]
  BY Zenon
<1> HIDE DEF h
<1>2. SumFunctionOnSet(h, S) = SumFunctionOnSet(f, S) + (h[d] - f[d])
  BY <1>1, SumOneChange, SMTT(30)
<1>3. SumFunctionOnSet(g, S) = SumFunctionOnSet(h, S) + (g[e] - h[e])
  BY <1>1, SumOneChange
<1>4. SumFunctionOnSet(f, S) \in Int
  BY SumInt, Zenon
<1> QED BY <1>1, <1>2, <1>3, <1>4, Zenon

LEMMA SumInsert ==
  ASSUME NEW f, NEW S, IsFiniteSet(S), NEW e, e \notin S,
         \A x \in S \cup {e} : f[x] \in Int
  PROVE  SumFunctionOnSet(f, S \cup {e}) = f[e] + SumFunctionOnSet(f, S)
<1>1. IsFiniteSet(S \cup {e}) /\ (S \cup {e}) \ {e} = S
  BY FS_AddElement, Zenon
<1> QED BY <1>1, SumSplit

-----------------------------------------------------------------------------
(***************************************************************************)
(* The total of the balances.                                              *)
(***************************************************************************)

\* No step changes the total of all balances.
LEMMA TotalStep ==
  ASSUME NoSelfPayment, TypeOK, TypeOK', ChecksHold, Conservation, [Next]_vars
  PROVE  Conservation'
<1> DEFINE f == [a \in Accounts |-> avail[a] + reserved[a]]
           g == [a \in Accounts |-> avail'[a] + reserved'[a]]
<1>1. \A a \in Accounts : /\ avail[a] \in Nat /\ reserved[a] \in Nat
                          /\ avail'[a] \in Nat /\ reserved'[a] \in Nat
  BY Zenon DEF TypeOK, BankTypeOK
<1>2. \A a \in Accounts : f[a] = avail[a] + reserved[a] /\ g[a] = avail'[a] + reserved'[a]
  BY Zenon
<1>3. \A a \in Accounts : f[a] \in Int /\ g[a] \in Int
  BY <1>1, <1>2
<1>4. SUFFICES SumFunctionOnSet(g, Accounts) = SumFunctionOnSet(f, Accounts)
  BY Zenon DEF Conservation
<1> HIDE DEF f, g
<1>5. SumFunctionOnSet(f, Accounts) \in Int
  BY <1>3, SumInt, FiniteAssumption, Zenon
<1>6. ASSUME \A a \in Accounts : g[a] = f[a]
      PROVE  SumFunctionOnSet(g, Accounts) = SumFunctionOnSet(f, Accounts)
  BY <1>6, SumSame, FiniteAssumption, Zenon
<1>7. CASE Rests
  BY <1>2, <1>6, <1>7, Zenon DEF Rests, money
<1>8. ASSUME NEW t \in Tokens,
             IssueToken(t) \/ (CanRelease(t) /\ ReleaseExpiredToken(t))
      PROVE  SumFunctionOnSet(g, Accounts) = SumFunctionOnSet(f, Accounts)
  <2>1. \A a \in Accounts : avail'[a] + reserved'[a] = avail[a] + reserved[a]
    BY <1>1, <1>8, TokenTypes, IssueBalances, ReleaseBalances, SMTT(30)
  <2> QED BY <1>2, <1>6, <2>1, Zenon
<1>9. ASSUME NEW c \in Calls, Commits(c) \/ Undoes(c)
      PROVE  SumFunctionOnSet(g, Accounts) = SumFunctionOnSet(f, Accounts)
  <2> DEFINE x == Envelope[c]
             s == Sender(x)
             r == Receiver[x]
  <2>1. /\ s \in Accounts /\ r \in Accounts /\ s # r
        /\ g[s] - f[s] + (g[r] - f[r]) = 0
        /\ \A a \in Accounts \ {s, r} : g[a] = f[a]
    <3>1. CASE Commits(c)
      BY <1>1, <1>2, <1>9, <3>1, CommitBalances, SMTT(30)
    <3>2. CASE Undoes(c)
      BY <1>1, <1>2, <1>9, <3>2, UndoBalances, SMTT(30)
    <3> QED BY <1>9, <3>1, <3>2, Zenon
  <2> HIDE DEF s, r
  <2>2. SumFunctionOnSet(g, Accounts)
          = SumFunctionOnSet(f, Accounts) + (g[s] - f[s]) + (g[r] - f[r])
    BY <1>3, <2>1, SumTwoChanges, FiniteAssumption, SMTT(30)
  <2>3. g[s] \in Int /\ f[s] \in Int /\ g[r] \in Int /\ f[r] \in Int
    BY <1>3, <2>1, Zenon
  <2>4. g[s] - f[s] + (g[r] - f[r]) = 0
    BY <2>1, Zenon
  <2> QED BY <1>5, <2>2, <2>3, <2>4, SMTT(30)
<1> QED BY <1>7, <1>8, <1>9, MoneyMoves, Zenon

\* Money is neither created nor lost, for any number of accounts, tokens, payments
\* and invocations and under every fault: issuing, settling, compensating and
\* releasing leave the total of the balances as CreateAccount made it.
THEOREM MoneyIsConserved ==
  ASSUME NoSelfPayment
  PROVE  Spec => []Conservation
<1>1. Init => Conservation
  <2> SUFFICES ASSUME Init PROVE Conservation
    BY Zenon
  <2>1. avail = InitialBalance /\ reserved = [a \in Accounts |-> 0]
    BY Zenon DEF Init, BankInit
  <2>2. \A a \in Accounts : [b \in Accounts |-> avail[b] + reserved[b]][a] = InitialBalance[a]
    BY <2>1, BankAssumption, SMTT(30)
  <2> QED BY <2>2, SumSame, FiniteAssumption, Zenon DEF Conservation
<1>2. TypeOK /\ TypeOK' /\ ChecksHold /\ Conservation /\ [Next]_vars => Conservation'
  BY TotalStep, Zenon
<1> QED BY <1>1, <1>2, TypeInv, PTL DEF Spec

-----------------------------------------------------------------------------
(***************************************************************************)
(* The double entry.                                                       *)
(***************************************************************************)

\* Two different rows, and one release, in numbers.
LEMMA PairedIsAtomic == EntriesArePaired => SettlementIsAtomic
<1> SUFFICES ASSUME EntriesArePaired, NEW x \in Txns, SettlementRows(x) # {}
             PROVE  /\ Cardinality(SettlementRows(x)) = 2
                    /\ \E d, r \in SettlementRows(x) :
                         /\ d.direction = "DEBIT" /\ d.account = Sender(x)
                         /\ r.direction = "CREDIT" /\ r.account = Receiver[x]
                         /\ d.amount = Amount[x] /\ r.amount = Amount[x]
                    /\ token[TokenOf[x]] = "CONSUMED"
                    /\ Cardinality(TokenRows(TokenOf[x], "RELEASE")) = 1
  BY Zenon DEF SettlementIsAtomic
<1>0. Complete(x)
  BY Zenon DEF EntriesArePaired
<1>1. PICK d, r : /\ SettlementRows(x) = {d, r} /\ d # r
                  /\ d.direction = "DEBIT" /\ d.account = Sender(x)
                  /\ r.direction = "CREDIT" /\ r.account = Receiver[x]
                  /\ d.amount = Amount[x] /\ r.amount = Amount[x]
  BY <1>0, ZenonT(30) DEF Complete
<1>2. PICK f : TokenRows(TokenOf[x], "RELEASE") = {f}
  BY <1>0, Zenon DEF Complete
<1>3. IsFiniteSet({d}) /\ Cardinality({d}) = 1 /\ Cardinality({f}) = 1
  BY FS_Singleton, Zenon
<1>4. {d, r} = {d} \cup {r} /\ r \notin {d}
  BY <1>1, Zenon
<1>5. Cardinality({d} \cup {r}) = Cardinality({d}) + 1
  BY <1>3, <1>4, FS_AddElement, Zenon
<1>6. Cardinality(SettlementRows(x)) = 2
  BY <1>1, <1>3, <1>4, <1>5, SMTT(30)
<1> QED BY <1>0, <1>1, <1>2, <1>3, <1>6, SMTT(30) DEF Complete

\* The double entry of a payment is complete or absent, whatever fails: LEDGER_COMMIT
\* writes both rows and the one release of the token, its compensation takes all
\* three away, and nothing else touches them.
THEOREM DoubleEntryIsAtomic == Spec => []SettlementIsAtomic
BY RowsInv, PairedIsAtomic, PTL

\* The ledger is finite: every step adds at most three rows.
FiniteRows == IsFiniteSet(ledger)

LEMMA FiniteStep ==
  ASSUME TypeOK, TokenHasOneHolder, FiniteRows, [Next]_vars
  PROVE  FiniteRows'
<1> USE DEF FiniteRows
<1>1. \A e : IsFiniteSet(ledger \cup {e})
  BY FS_AddElement, Zenon
<1>2. CASE Rests
  BY <1>2, Zenon DEF Rests, money
<1>3. ASSUME NEW t \in Tokens, IssueToken(t) PROVE IsFiniteSet(ledger')
  <2>1. PICK e : ledger' = ledger \cup {e}
    BY <1>3, IssueRow, Zenon
  <2> QED BY <1>1, <2>1, Zenon
<1>4. ASSUME NEW t \in Tokens, CanRelease(t), ReleaseExpiredToken(t)
      PROVE  IsFiniteSet(ledger')
  <2>1. PICK e : ledger' = ledger \cup {e}
    BY <1>4, ReleaseRow, Zenon
  <2> QED BY <1>1, <2>1, Zenon
<1>5. ASSUME NEW c \in Calls, Commits(c) PROVE IsFiniteSet(ledger')
  <2>1. PICK d, r, f : ledger' = ledger \cup {d, r, f}
    BY <1>5, Zenon DEF Commits, SettlementEntries
  <2>2. ledger' = ((ledger \cup {d}) \cup {r}) \cup {f}
    BY <2>1, Zenon
  <2>3. IsFiniteSet((ledger \cup {d}) \cup {r})
    BY <1>1, FS_AddElement, Zenon
  <2> QED BY <2>2, <2>3, FS_AddElement, Zenon
<1>6. ASSUME NEW c \in Calls, Undoes(c) PROVE IsFiniteSet(ledger')
  <2>1. ledger' \subseteq ledger
    BY <1>6, Zenon DEF Undoes
  <2> QED BY <2>1, FS_Subset, Zenon
<1> QED BY <1>2, <1>3, <1>4, <1>5, <1>6, MoneyMoves, Zenon

LEMMA FiniteLedger == Spec => []FiniteRows
<1>1. Init => FiniteRows
  BY FS_EmptySet, Zenon DEF Init, BankInit, FiniteRows
<1>2. TypeOK /\ TokenHasOneHolder /\ FiniteRows /\ [Next]_vars => FiniteRows'
  BY FiniteStep, Zenon
<1> QED BY <1>1, <1>2, TypeCorrect, TokenNeverShared, PTL DEF Spec

-----------------------------------------------------------------------------
(***************************************************************************)
(* The cached balances agree with the ledger.  From here on no commit goes *)
(* unacknowledged, headers name the payment of their envelope, and no      *)
(* payment goes to its own sender.                                         *)
(***************************************************************************)

\* The tokens of an account that the ledger shows as reserved.
Backed(a) ==
  {t \in Tokens : /\ Owner[t] = a
                  /\ TokenRows(t, "RESERVATION") # {}
                  /\ TokenRows(t, "RELEASE") = {}}

LEMMA BackedFinite ==
  ASSUME NEW S \in SUBSET Tokens
  PROVE  /\ IsFiniteSet(S) /\ TokenSum(S) \in Int
         /\ \A t \in Tokens \ S : TokenSum(S \cup {t}) = Value[t] + TokenSum(S)
<1>1. IsFiniteSet(S)
  BY FS_Subset, FiniteAssumption, Zenon
<1>2. \A t \in Tokens : Value[t] \in Int
  BY TokenTypes
<1>3. TokenSum(S) \in Int
  BY <1>1, <1>2, SumInt, Zenon DEF TokenSum
<1>4. ASSUME NEW t \in Tokens \ S PROVE TokenSum(S \cup {t}) = Value[t] + TokenSum(S)
  <2>1. t \notin S /\ \A u \in S \cup {t} : Value[u] \in Int
    BY <1>2, Zenon
  <2> QED BY <1>1, <2>1, SumInsert, Zenon DEF TokenSum
<1> QED BY <1>1, <1>3, <1>4, Zenon

\* Issuing a token reserves it; releasing and settling it end the reservation.
LEMMA BackedIssue ==
  ASSUME TypeOK, TokensOnLedger, NEW t \in Tokens, IssueToken(t)
  PROVE  /\ t \notin Backed(Owner[t]) /\ Backed(Owner[t])' = Backed(Owner[t]) \cup {t}
         /\ \A a \in Accounts \ {Owner[t]} : Backed(a)' = Backed(a)
<1>1. PICK e : ledger' = ledger \cup {e} /\ e.txn = t /\ e.type = "RESERVATION"
  BY IssueRow
<1>2. TokenRows(t, "RESERVATION") = {} /\ TokenRows(t, "RELEASE") = {}
  BY IssueRow DEF TokensOnLedger, TokenRows
<1>3. TokenRows(t, "RESERVATION")' # {} /\ TokenRows(t, "RELEASE")' = {}
  BY <1>1, <1>2, Zenon DEF TokenRows
<1>4. \A u \in Tokens \ {t} : /\ TokenRows(u, "RESERVATION")' = TokenRows(u, "RESERVATION")
                              /\ TokenRows(u, "RELEASE")' = TokenRows(u, "RELEASE")
  BY <1>1, Zenon DEF TokenRows
<1> QED BY <1>2, <1>3, <1>4, Zenon DEF Backed

LEMMA BackedEnd ==
  ASSUME TypeOK, TokensOnLedger, NEW t \in Tokens, token[t] \in {"ISSUED", "HELD"},
         NEW e \in ledger', e.txn = t, e.type = "RELEASE", ledger \subseteq ledger',
         \A f \in ledger' \ ledger : f.txn \in Tokens => f = e
  PROVE  /\ t \in Backed(Owner[t]) /\ Backed(Owner[t])' = Backed(Owner[t]) \ {t}
         /\ \A a \in Accounts \ {Owner[t]} : Backed(a)' = Backed(a)
<1>1. TokenRows(t, "RESERVATION") # {} /\ TokenRows(t, "RELEASE") = {}
  BY Zenon DEF TokensOnLedger
<1>2. TokenRows(t, "RELEASE")' # {}
  BY Zenon DEF TokenRows
<1>3. \A u \in Tokens \ {t} : /\ TokenRows(u, "RESERVATION")' = TokenRows(u, "RESERVATION")
                              /\ TokenRows(u, "RELEASE")' = TokenRows(u, "RELEASE")
  BY Zenon DEF TokenRows
<1> QED BY <1>1, <1>2, <1>3, Zenon DEF Backed

LEMMA BackedCommit ==
  ASSUME TypeOK, TokenHasOneHolder, TokensOnLedger, NEW c \in Calls, Commits(c),
         NEW t, t = TokenOf[Envelope[c]]
  PROVE  /\ t \in Backed(Owner[t]) /\ Backed(Owner[t])' = Backed(Owner[t]) \ {t}
         /\ \A a \in Accounts \ {Owner[t]} : Backed(a)' = Backed(a)
<1>1. PICK d, r, f : /\ ledger' = ledger \cup {d, r, f}
                     /\ d.txn = Envelope[c] /\ r.txn = Envelope[c] /\ f.txn = t
                     /\ f.type = "RELEASE"
  BY CommitRows
<1>2. Envelope[c] \notin Tokens /\ t \in Tokens /\ token[t] = "HELD"
  BY CommitRows, BankAssumption
<1>3. /\ ledger \subseteq ledger' /\ f \in ledger'
      /\ \A g \in ledger' \ ledger : g.txn \in Tokens => g = f
  BY <1>1, <1>2, Zenon
<1> QED BY <1>1, <1>2, <1>3, BackedEnd, Zenon

\* The reserved balance follows.
LEMMA ReservedStep ==
  ASSUME NoSelfPayment, HeadersMatch, TypeOK, TypeOK', ChecksHold, TokenHasOneHolder,
         PaymentHasOneOwner, TokensOnLedger, ReservedFromLedger, [Next]_vars
  PROVE  ReservedFromLedger'
<1>0. \A a \in Accounts : reserved[a] = TokenSum(Backed(a))
  BY Zenon DEF ReservedFromLedger, Backed
<1> SUFFICES ASSUME NEW a \in Accounts PROVE reserved'[a] = TokenSum(Backed(a)')
  BY Zenon DEF ReservedFromLedger, Backed
<1>1. /\ Backed(a) \in SUBSET Tokens /\ Backed(a)' \in SUBSET Tokens
      /\ TokenSum(Backed(a)) \in Int /\ TokenSum(Backed(a)') \in Int
  <2>1. Backed(a) \in SUBSET Tokens /\ Backed(a)' \in SUBSET Tokens
    BY Zenon DEF Backed
  <2> QED BY <2>1, BackedFinite, Zenon
<1>2. ASSUME NEW t \in Tokens, t \in Backed(a), Backed(a)' = Backed(a) \ {t},
             reserved'[a] = reserved[a] - Value[t]
      PROVE  reserved'[a] = TokenSum(Backed(a)')
  <2>1. t \notin Backed(a)' /\ Backed(a) = Backed(a)' \cup {t}
    BY <1>2, Zenon
  <2>2. TokenSum(Backed(a)' \cup {t}) = Value[t] + TokenSum(Backed(a)')
    BY <1>1, <2>1, BackedFinite, Zenon
  <2>3. Value[t] \in Int /\ reserved[a] = Value[t] + TokenSum(Backed(a)')
    BY <1>0, <2>1, <2>2, TokenTypes, SMTT(30)
  <2> QED BY <1>1, <1>2, <2>3, SMTT(30)
<1>3. CASE Rests
  <2>1. Backed(a)' = Backed(a)
    BY <1>3, Zenon DEF Rests, money, Backed, TokenRows
  <2> QED BY <1>0, <1>3, <2>1, Zenon DEF Rests, money
<1>4. ASSUME NEW t \in Tokens, IssueToken(t) PROVE reserved'[a] = TokenSum(Backed(a)')
  <2>1. CASE a = Owner[t]
    <3>1. t \notin Backed(a) /\ Backed(a)' = Backed(a) \cup {t}
      BY <1>4, <2>1, BackedIssue, Zenon
    <3>2. TokenSum(Backed(a)') = Value[t] + TokenSum(Backed(a))
      BY <1>1, <3>1, BackedFinite, Zenon
    <3>3. reserved'[a] = reserved[a] + Value[t]
      BY <1>4, <2>1, IssueBalances, Zenon
    <3> QED BY <1>0, <1>1, <3>2, <3>3, TokenTypes, SMTT(30)
  <2>2. CASE a # Owner[t]
    BY <1>0, <1>4, <2>2, BackedIssue, IssueBalances, SMTT(30)
  <2> QED BY <2>1, <2>2, Zenon
<1>5. ASSUME NEW t \in Tokens, CanRelease(t), ReleaseExpiredToken(t)
      PROVE  reserved'[a] = TokenSum(Backed(a)')
  <2>1. PICK e : ledger' = ledger \cup {e} /\ e.txn = t /\ e.type = "RELEASE"
    BY <1>5, ReleaseRow, SMTT(30)
  <2>2. /\ token[t] \in {"ISSUED", "HELD"} /\ e \in ledger' /\ ledger \subseteq ledger'
        /\ \A f \in ledger' \ ledger : f.txn \in Tokens => f = e
    BY <1>5, <2>1, ReleaseRow, Zenon
  <2>3. /\ t \in Backed(Owner[t]) /\ Backed(Owner[t])' = Backed(Owner[t]) \ {t}
        /\ \A b \in Accounts \ {Owner[t]} : Backed(b)' = Backed(b)
    BY <2>1, <2>2, BackedEnd, ZenonT(30)
  <2>4. CASE a = Owner[t]
    BY <1>2, <1>5, <2>3, <2>4, ReleaseBalances, ZenonT(30)
  <2>5. CASE a # Owner[t]
    BY <1>0, <1>5, <2>3, <2>5, ReleaseBalances, SMTT(30)
  <2> QED BY <2>4, <2>5, Zenon
<1>6. ASSUME NEW c \in Calls, Commits(c) PROVE reserved'[a] = TokenSum(Backed(a)')
  <2> DEFINE t == TokenOf[Envelope[c]]
  <2>1. t \in Tokens /\ Sender(Envelope[c]) = Owner[t]
    BY CallTypes, TxnTypes, Zenon DEF Sender
  <2>2. /\ t \in Backed(Owner[t]) /\ Backed(Owner[t])' = Backed(Owner[t]) \ {t}
        /\ \A b \in Accounts \ {Owner[t]} : Backed(b)' = Backed(b)
    BY <1>6, BackedCommit, ZenonT(30)
  <2>3. /\ reserved'[Owner[t]] = reserved[Owner[t]] - Value[t]
        /\ \A b \in Accounts \ {Owner[t]} : reserved'[b] = reserved[b]
    BY <1>6, <2>1, CommitBalances, SMTT(30)
  <2> HIDE DEF t
  <2>4. CASE a = Owner[t]
    BY <1>2, <2>1, <2>2, <2>3, <2>4, Zenon
  <2>5. CASE a # Owner[t]
    BY <1>0, <2>2, <2>3, <2>5, Zenon
  <2> QED BY <2>4, <2>5, Zenon
<1> QED BY <1>3, <1>4, <1>5, <1>6, MoneyMoves, NeverUndone, Zenon

\* No reservation is released twice and none vanishes, for any number of
\* scanners and invocations: what an account has reserved is the value of the
\* tokens that the ledger shows as reserved and not released.  HeadersMatch keeps
\* LEDGER_COMMIT from being undone.
THEOREM ReservedIsFounded ==
  ASSUME NoLostAck, HeadersMatch, NoSelfPayment
  PROVE  Spec => []ReservedFromLedger
<1>1. Init => ReservedFromLedger
  <2> SUFFICES ASSUME Init, NEW a \in Accounts PROVE reserved[a] = TokenSum(Backed(a))
    BY Zenon DEF ReservedFromLedger, Backed
  <2>1. Backed(a) = {}
    BY Zenon DEF Init, BankInit, Backed, TokenRows
  <2>2. reserved[a] = 0
    BY Zenon DEF Init, BankInit
  <2> QED BY <2>1, <2>2, SumEmpty, Zenon DEF TokenSum
<1>2. TypeOK /\ TypeOK' /\ ChecksHold /\ TokenHasOneHolder /\ PaymentHasOneOwner
        /\ TokensOnLedger /\ ReservedFromLedger /\ [Next]_vars => ReservedFromLedger'
  BY ReservedStep, Zenon
<1> QED BY <1>1, <1>2, TypeInv, TokenNeverShared, PaymentNeverShared, RowsInv, PTL DEF Spec

\* What a row adds to the balance of its account, and the rows of an account.
Signed(e) == IF e.direction = "CREDIT" THEN e.amount ELSE -e.amount

LEMMA NetInsert ==
  ASSUME NEW S, IsFiniteSet(S), NEW e, e \notin S, \A f \in S \cup {e} : f.amount \in Nat
  PROVE  Net(S \cup {e}) = Signed(e) + Net(S)
<1> DEFINE T == S \cup {e}
           g == [f \in T |-> Signed(f)]
           h == [f \in S |-> Signed(f)]
<1>1. \A f \in T : g[f] = Signed(f) /\ Signed(f) \in Int
  BY DEF Signed
<1>2. \A f \in S : h[f] = g[f]
  BY <1>1, Zenon
<1>3. Net(T) = SumFunctionOnSet(g, T) /\ Net(S) = SumFunctionOnSet(h, S)
  BY Zenon DEF Net, Signed
<1> HIDE DEF g, h
<1>4. SumFunctionOnSet(g, T) = g[e] + SumFunctionOnSet(g, S)
  BY <1>1, SumInsert, Zenon
<1>5. SumFunctionOnSet(h, S) = SumFunctionOnSet(g, S)
  <2>1. \A f \in S : g[f] \in Int /\ h[f] \in Int
    BY <1>1, <1>2, Zenon
  <2> QED BY <1>2, <2>1, SumSame, Zenon
<1> QED BY <1>1, <1>3, <1>4, <1>5, Zenon

LEMMA NetInt ==
  ASSUME NEW S, IsFiniteSet(S), \A f \in S : f.amount \in Nat
  PROVE  Net(S) \in Int
<1> DEFINE h == [f \in S |-> Signed(f)]
<1>1. \A f \in S : h[f] \in Int
  BY DEF Signed
<1>2. Net(S) = SumFunctionOnSet(h, S)
  BY Zenon DEF Net, Signed
<1> HIDE DEF h
<1> QED BY <1>1, <1>2, SumInt, Zenon

\* The net of an account's rows follows its available balance.
LEMMA BalanceStep ==
  ASSUME NoSelfPayment, HeadersMatch, TypeOK, TypeOK', ChecksHold, TokenHasOneHolder,
         PaymentHasOneOwner, RowsInOrder, FiniteRows, BalanceFromLedger, [Next]_vars
  PROVE  BalanceFromLedger'
<1>0. \A a \in Accounts : avail[a] = InitialBalance[a] + Net(RowsOf(a))
  BY Zenon DEF BalanceFromLedger, RowsOf
<1> SUFFICES ASSUME NEW a \in Accounts
             PROVE  avail'[a] = InitialBalance[a] + Net(RowsOf(a)')
  BY Zenon DEF BalanceFromLedger, RowsOf
<1>1. /\ entryId \in Nat /\ InitialBalance[a] \in Int
      /\ \A f \in ledger : f.id \in Nat /\ f.id <= entryId
      /\ \A f \in ledger \cup ledger' : f.amount \in Nat
  BY BankAssumption DEF TypeOK, BankTypeOK, LedgerEntry, RowsInOrder
<1>2. /\ IsFiniteSet(RowsOf(a)) /\ RowsOf(a) \subseteq ledger /\ RowsOf(a)' \subseteq ledger'
  BY FS_Subset, Zenon DEF RowsOf, FiniteRows
<1>3. Net(RowsOf(a)) \in Int
  BY <1>1, <1>2, NetInt, Zenon
<1>4. ASSUME NEW e, e \notin RowsOf(a), RowsOf(a)' = RowsOf(a) \cup {e},
             avail'[a] = avail[a] + Signed(e), Signed(e) \in Int
      PROVE  avail'[a] = InitialBalance[a] + Net(RowsOf(a)')
  <2>1. \A f \in RowsOf(a) \cup {e} : f.amount \in Nat
    BY <1>1, <1>2, <1>4, Zenon
  <2>2. Net(RowsOf(a) \cup {e}) = Signed(e) + Net(RowsOf(a))
    BY <1>2, <1>4, <2>1, NetInsert, Zenon
  <2> QED BY <1>0, <1>1, <1>3, <1>4, <2>2, SMTT(30)
<1>5. ASSUME RowsOf(a)' = RowsOf(a), avail'[a] = avail[a]
      PROVE  avail'[a] = InitialBalance[a] + Net(RowsOf(a)')
  BY <1>0, <1>5, Zenon
<1>6. CASE Rests
  BY <1>5, <1>6, Zenon DEF Rests, money, RowsOf
<1>7. ASSUME NEW t \in Tokens, IssueToken(t)
      PROVE  avail'[a] = InitialBalance[a] + Net(RowsOf(a)')
  <2>1. PICK e : /\ ledger' = ledger \cup {e} /\ e.id = entryId + 1 /\ e.account = Owner[t]
                 /\ e.direction = "DEBIT" /\ e.amount = Value[t]
    BY <1>7, IssueRow, SMTT(30)
  <2>2. Signed(e) = -Value[t] /\ Value[t] \in Nat /\ Signed(e) \in Int
    BY <2>1, TokenTypes, SMTT(30) DEF Signed
  <2>3. CASE a = Owner[t]
    <3>1. e \notin RowsOf(a) /\ RowsOf(a)' = RowsOf(a) \cup {e}
      BY <2>1, <2>3, RowsAfter, ZenonT(30)
    <3>2. avail'[a] = avail[a] + Signed(e)
      BY <1>7, <2>2, <2>3, IssueBalances, Zenon DEF TypeOK, BankTypeOK
    <3> QED BY <1>4, <2>2, <3>1, <3>2, ZenonT(30)
  <2>4. CASE a # Owner[t]
    BY <1>5, <1>7, <2>1, <2>4, RowsAfter, IssueBalances, SMTT(30)
  <2> QED BY <2>3, <2>4, Zenon
<1>8. ASSUME NEW t \in Tokens, CanRelease(t), ReleaseExpiredToken(t)
      PROVE  avail'[a] = InitialBalance[a] + Net(RowsOf(a)')
  <2>1. PICK e : /\ ledger' = ledger \cup {e} /\ e.id = entryId + 1 /\ e.account = Owner[t]
                 /\ e.direction = "CREDIT" /\ e.amount = Value[t]
    BY <1>8, ReleaseRow, SMTT(30)
  <2>2. Signed(e) = Value[t] /\ Value[t] \in Nat /\ Signed(e) \in Int
    BY <2>1, TokenTypes, SMTT(30) DEF Signed
  <2>3. CASE a = Owner[t]
    <3>1. e \notin RowsOf(a) /\ RowsOf(a)' = RowsOf(a) \cup {e}
      BY <2>1, <2>3, RowsAfter, Zenon
    <3>2. avail'[a] = avail[a] + Signed(e)
      BY <1>8, <2>2, <2>3, ReleaseBalances, Zenon DEF TypeOK, BankTypeOK
    <3> QED BY <1>4, <2>2, <3>1, <3>2, Zenon
  <2>4. CASE a # Owner[t]
    BY <1>5, <1>8, <2>1, <2>4, RowsAfter, ReleaseBalances, ZenonT(30)
  <2> QED BY <2>3, <2>4, Zenon
<1>9. ASSUME NEW c \in Calls, Commits(c)
      PROVE  avail'[a] = InitialBalance[a] + Net(RowsOf(a)')
  <2> DEFINE x == Envelope[c]
             v == Value[TokenOf[x]]
  <2>1. PICK d, r, f :
          /\ ledger' = ledger \cup {d, r, f}
          /\ d.id = entryId + 1 /\ r.id = entryId + 2 /\ f.id = entryId + 3
          /\ d.account = Sender(x) /\ r.account = Receiver[x] /\ f.account = Sender(x)
          /\ d.direction = "DEBIT" /\ r.direction = "CREDIT" /\ f.direction = "CREDIT"
          /\ d.amount = Amount[x] /\ r.amount = Amount[x] /\ f.amount = v
    BY <1>9, CommitRows, SMTT(30)
  <2>2. /\ Sender(x) \in Accounts /\ Receiver[x] \in Accounts /\ Sender(x) # Receiver[x]
        /\ v \in Nat /\ Amount[x] \in Nat
        /\ avail'[Sender(x)] = avail[Sender(x)] + (v - Amount[x])
        /\ avail'[Receiver[x]] = avail[Receiver[x]] + Amount[x]
        /\ \A b \in Accounts \ {Sender(x), Receiver[x]} : avail'[b] = avail[b]
    BY <1>9, CommitBalances, SMTT(30)
  <2> HIDE DEF x, v
  <2>3. /\ Signed(d) = -Amount[x] /\ Signed(r) = Amount[x] /\ Signed(f) = v
        /\ d \notin ledger /\ r \notin ledger /\ f \notin ledger /\ d # f
        /\ avail[a] \in Int
    BY <1>1, <2>1, <2>2, SMTT(30) DEF Signed, TypeOK, BankTypeOK
  <2>4. CASE a = Sender(x)
    <3>1. RowsOf(a)' = (RowsOf(a) \cup {d}) \cup {f}
      BY <2>1, <2>2, <2>4, Zenon DEF RowsOf
    <3>2. /\ d \notin RowsOf(a) /\ f \notin RowsOf(a) \cup {d}
          /\ \A g \in (RowsOf(a) \cup {d}) \cup {f} : g.amount \in Nat
      BY <1>1, <1>2, <2>1, <2>2, <2>3, ZenonT(30)
    <3>3. IsFiniteSet(RowsOf(a) \cup {d})
      BY <1>2, FS_AddElement, Zenon
    <3>4. Net(RowsOf(a) \cup {d}) = Signed(d) + Net(RowsOf(a))
      BY <1>2, <3>2, NetInsert, Zenon
    <3>5. Net((RowsOf(a) \cup {d}) \cup {f}) = Signed(f) + Net(RowsOf(a) \cup {d})
      BY <3>2, <3>3, NetInsert, Zenon
    <3>6. Net(RowsOf(a)') = v + (-Amount[x] + Net(RowsOf(a)))
      BY <2>3, <3>1, <3>4, <3>5, ZenonT(30)
    <3>7. avail'[a] = avail[a] + (v - Amount[x]) /\ avail[a] = InitialBalance[a] + Net(RowsOf(a))
      BY <1>0, <2>2, <2>4, Zenon
    <3> QED BY <1>1, <1>3, <2>2, <3>6, <3>7, SMTT(30)
  <2>5. CASE a = Receiver[x]
    <3>1. r \notin RowsOf(a) /\ RowsOf(a)' = RowsOf(a) \cup {r}
      BY <1>2, <2>1, <2>2, <2>3, <2>5, Zenon DEF RowsOf
    <3>2. avail'[a] = avail[a] + Signed(r) /\ Signed(r) \in Int
      BY <2>2, <2>3, <2>5, SMTT(30)
    <3> QED BY <1>4, <3>1, <3>2, Zenon
  <2>6. CASE a \notin {Sender(x), Receiver[x]}
    <3>1. RowsOf(a)' = RowsOf(a)
      BY <2>1, <2>6, Zenon DEF RowsOf
    <3> QED BY <1>5, <2>2, <2>6, <3>1, Zenon
  <2> QED BY <2>4, <2>5, <2>6, ZenonT(30)
<1> QED BY <1>6, <1>7, <1>8, <1>9, MoneyMoves, NeverUndone, Zenon

\* The cached balances are those of the ledger (ADR-005), for any number of
\* invocations and whatever calls fail, as long as every commit is acknowledged
\* and every header names its payment.
THEOREM BalanceIsFounded ==
  ASSUME NoLostAck, HeadersMatch, NoSelfPayment
  PROVE  Spec => []BalanceFromLedger
<1>1. Init => BalanceFromLedger
  <2> SUFFICES ASSUME Init, NEW a \in Accounts
               PROVE  avail[a] = InitialBalance[a] + Net(RowsOf(a))
    BY Zenon DEF BalanceFromLedger, RowsOf
  <2>1. RowsOf(a) = {} /\ avail[a] = InitialBalance[a] /\ InitialBalance[a] \in Nat
    BY BankAssumption, Zenon DEF Init, BankInit, RowsOf
  <2>2. Net({}) = 0
    BY SumEmpty, Zenon DEF Net
  <2> QED BY <2>1, <2>2, SMTT(30)
<1>2. TypeOK /\ TypeOK' /\ ChecksHold /\ TokenHasOneHolder /\ PaymentHasOneOwner
        /\ RowsInOrder /\ FiniteRows /\ BalanceFromLedger /\ [Next]_vars
        => BalanceFromLedger'
  BY BalanceStep, Zenon
<1> QED BY <1>1, <1>2, TypeInv, TokenNeverShared, PaymentNeverShared, RowsInv, FiniteLedger,
           PTL DEF Spec

-----------------------------------------------------------------------------
(***************************************************************************)
(* The balance audit of the financial validator.                           *)
(***************************************************************************)

\* The value of a token is covered by the sum over any set that contains it.
LEMMA SumNat ==
  ASSUME NEW f, NEW S, IsFiniteSet(S), \A x \in S : f[x] \in Nat
  PROVE  SumFunctionOnSet(f, S) \in Nat
<1> DEFINE C == {T \in SUBSET S : SumFunctionOnSet(f, T) \notin Nat}
<1>1. SUFFICES ASSUME C # {} PROVE FALSE
  BY Zenon
<1>2. PICK T \in C : \A W \in C : W \subseteq T => W = T
  <2>1. C \subseteq SUBSET S
    BY Zenon
  <2> HIDE DEF C
  <2> QED BY <1>1, <2>1, SmallestSet, SMTT(30)
<1>3. IsFiniteSet(T) /\ T \subseteq S
  BY <1>2, FS_Subset, Zenon
<1>4. T # {} /\ Pick(T) \in T
  <2>1. SumFunctionOnSet(f, T) \notin Nat
    BY <1>2, Zenon
  <2>2. T # {}
    BY <2>1, SumEmpty, SMTT(30)
  <2> QED BY <2>2, PickIn, Zenon
<1>5. SumFunctionOnSet(f, T \ {Pick(T)}) \in Nat
  BY <1>2, <1>3, <1>4, SMTT(30)
<1>6. SumFunctionOnSet(f, T) = f[Pick(T)] + SumFunctionOnSet(f, T \ {Pick(T)})
  BY <1>3, <1>4, SumStep, Zenon
<1> QED BY <1>2, <1>3, <1>4, <1>5, <1>6, SMTT(30)

LEMMA SumCovers ==
  ASSUME NEW S \in SUBSET Tokens, NEW t \in S
  PROVE  TokenSum(S) >= Value[t]
<1>1. /\ S \ {t} \in SUBSET Tokens /\ t \in Tokens \ (S \ {t}) /\ (S \ {t}) \cup {t} = S
      /\ Value[t] \in Nat
  BY TokenTypes, Zenon
<1>2. TokenSum(S) = Value[t] + TokenSum(S \ {t})
  BY <1>1, BackedFinite, Zenon
<1>3. TokenSum(S \ {t}) \in Nat
  <2>1. IsFiniteSet(S \ {t}) /\ \A u \in S \ {t} : Value[u] \in Nat
    BY <1>1, BackedFinite, TokenTypes, Zenon
  <2> QED BY <2>1, SumNat, Zenon DEF TokenSum
<1> QED BY <1>1, <1>2, <1>3, SMTT(30)

\* LEDGER_COMMIT cannot fail on a token that is still held.
LEMMA HeldCommits ==
  ASSUME PositiveAmounts, TypeOK, TokensOnLedger, ReservedFromLedger, NothingStranded
  PROVE  HeldCanCommit
<1> SUFFICES ASSUME NEW c \in Calls, pc[c] = "LEDGER_COMMIT",
                    token[TokenOf[Envelope[c]]] = "HELD"
             PROVE  CanCommit(Envelope[c])
  BY Zenon DEF HeldCanCommit
<1> DEFINE x == Envelope[c]
           t == TokenOf[x]
<1>1. x \in Txns /\ t \in Tokens /\ Owner[t] \in Accounts /\ Sender(x) = Owner[t]
  BY CallTypes, TxnTypes, TokenTypes, Zenon DEF Sender
<1>2. t \in Backed(Owner[t]) /\ Backed(Owner[t]) \in SUBSET Tokens
  BY <1>1, Zenon DEF TokensOnLedger, Backed
<1>3. reserved[Owner[t]] = TokenSum(Backed(Owner[t]))
  BY <1>1, Zenon DEF ReservedFromLedger, Backed
<1>4. reserved[Owner[t]] >= Value[t]
  BY <1>2, <1>3, SumCovers, Zenon
<1>5. intent[x] # "NONE" /\ intent[t] # "NONE"
  BY <1>1, Zenon DEF NothingStranded
<1> QED BY <1>1, <1>4, <1>5, Zenon DEF CanCommit, IsValidTokenTransition, PositiveAmounts

\* Where every token out of use has been released, the tokens in use are those the
\* ledger shows as reserved.
LEMMA AuditHolds ==
  ASSUME TypeOK, TokensOnLedger, NothingStranded, ReservedFromLedger, LastRowShows
  PROVE  AuditClean
<1> SUFFICES ASSUME NEW a \in Accounts PROVE AuditAccountBalances(a)
  BY Zenon DEF AuditClean
<1>1. Backed(a) = {t \in Tokens : Owner[t] = a /\ token[t] \in {"ISSUED", "HELD"}}
  <2>1. ASSUME NEW t \in Tokens
        PROVE  (TokenRows(t, "RESERVATION") # {} /\ TokenRows(t, "RELEASE") = {})
                 <=> token[t] \in {"ISSUED", "HELD"}
    <3>1. token[t] \in TokenStatus
      BY Zenon DEF TypeOK, BankTypeOK
    <3>2. token[t] = "NONE" => TokenRows(t, "RESERVATION") = {}
      BY Zenon DEF TokensOnLedger, TokenRows
    <3> QED BY <3>1, <3>2, Zenon DEF TokensOnLedger, NothingStranded, TokenStatus
  <2> QED BY <2>1, Zenon DEF Backed
<1>2. reserved[a] = TokenSum(Backed(a))
  BY Zenon DEF ReservedFromLedger, Backed
<1>3. \A e \in RowsOf(a) : (\A f \in RowsOf(a) : f.id <= e.id) => e.after = avail[a]
  BY Zenon DEF LastRowShows
<1> QED BY <1>1, <1>2, <1>3, Zenon DEF AuditAccountBalances, RowsOf

\* Nothing stays reserved for a token out of use.
LEMMA StrandedInv ==
  ASSUME NoLostAck, HeadersMatch, NoSelfPayment, NoDbFault, PositiveAmounts
  PROVE  Spec => []NothingStranded
<1>1. Init => NothingStranded
  BY CallTypes, TxnTypes, Zenon DEF Init, BankInit, SettleInit, NothingStranded
<1>2. TypeOK /\ TypeOK' /\ TokenHasOneHolder /\ PaymentHasOneOwner /\ TokensOnLedger
        /\ ReservedFromLedger /\ NothingStranded /\ [Next]_vars => NothingStranded'
  BY HeldCommits, StrandedStep, Zenon
<1> QED BY <1>1, <1>2, TypeInv, TokenNeverShared, PaymentNeverShared, RowsInv,
           ReservedIsFounded, PTL DEF Spec

\* While the database answers, the balance audit of the financial validator finds
\* nothing, whatever servers crash between the steps of a saga and however
\* settlements and scanners interleave: the last ledger row of an account shows
\* its balance, and its tokens in use account for what it has reserved.  Headers
\* have to name their payments: a settlement that is undone reserves money again
\* for a token that stays CONSUMED.
THEOREM AuditFindsNothing ==
  ASSUME NoLostAck, HeadersMatch, NoSelfPayment, NoDbFault, PositiveAmounts
  PROVE  Spec => []AuditClean
<1>1. Init => LastRowShows
  BY Zenon DEF Init, BankInit, LastRowShows, RowsOf
<1>2. TypeOK /\ TypeOK' /\ ChecksHold /\ TokenHasOneHolder /\ PaymentHasOneOwner
        /\ RowsInOrder /\ LastRowShows /\ [Next]_vars => LastRowShows'
  BY LastRowStep, Zenon
<1>3. TypeOK /\ TokensOnLedger /\ NothingStranded /\ ReservedFromLedger /\ LastRowShows
        => AuditClean
  BY AuditHolds, Zenon
<1> QED BY <1>1, <1>2, <1>3, TypeInv, TokenNeverShared, PaymentNeverShared, RowsInv,
           ReservedIsFounded, StrandedInv, PTL DEF Spec

\* What ADR-009 says of expired tokens is true while the database answers: a token
\* that ended unspent has had its reservation released.  It takes a failing call
\* to strand one, or one of the other cases that the hypotheses exclude.
THEOREM StrandingTakesAFault ==
  ASSUME NoLostAck, HeadersMatch, NoSelfPayment, NoDbFault, PositiveAmounts
  PROVE  Spec => []InvalidatedIsReleased
<1>1. NothingStranded => InvalidatedIsReleased
  BY Zenon DEF NothingStranded, InvalidatedIsReleased
<1> QED BY <1>1, StrandedInv, PTL

=============================================================================
