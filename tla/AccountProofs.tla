--------------------------- MODULE AccountProofs ---------------------------
(***************************************************************************)
(* Proofs about what is done with the money of an account.  Fleet, for any *)
(* slots, periods, commands and balances: a deep drawdown keeps every slot *)
(* out, in all three run modes, and only the operator, or the loss of a    *)
(* file, lets a slot that is halted trade again.  A paper run adds up its  *)
(* slots and the Telegram bot drops what is not from the operator: two     *)
(* folds, whose values need an induction over the finite set that is       *)
(* folded.  Execution, for any prices, sizes and numbers of attempts: what *)
(* the worker has booked is what the account did, and a refusal for want   *)
(* of balance has a cause.  The two share no state.                        *)
(***************************************************************************)
EXTENDS Fleet, Execution, FiniteSetTheorems, SequenceTheorems,
        WellFoundedInduction, TLAPS

-----------------------------------------------------------------------------
(* Folds.                                                                  *)

(* A set of naturals has a least element.                                  *)
LEMMA LeastNatural ==
    ASSUME NEW T, T \subseteq Nat, T # {}
    PROVE  \E m \in T : \A n \in T : m <= n
<1> DEFINE R == OpToRel(<, Nat)
<1>1. IsWellFoundedOn(R, Nat)
  BY NatLessThanWellFounded
<1>2. \A m, n \in Nat : m < n => <<m, n>> \in R
  BY DEF OpToRel
<1>. HIDE DEF R
<1>3. PICK m \in T : \A n \in T : ~ (<<n, m>> \in R)
  BY <1>1, WFMin
<1>4. \A n \in T : ~ (n < m)
  BY <1>2, <1>3
<1>. QED BY <1>4

(* An order in which the elements of a set are taken.                      *)
Picks(pick, S) == \A s \in SUBSET S : s # {} => pick[s] \in s
Without(pick, s) == s \ {pick[s]}

(* A set without one of its elements is smaller.                           *)
LEMMA PickRemoved ==
    ASSUME NEW S, IsFiniteSet(S), NEW pick, Picks(pick, S), NEW s \in SUBSET S
    PROVE  /\ Cardinality(s) \in Nat
           /\ s # {} => /\ pick[s] \in S /\ Without(pick, s) \in SUBSET S
                        /\ Cardinality(Without(pick, s)) \in Nat
                        /\ Cardinality(Without(pick, s)) = Cardinality(s) - 1
<1>1. IsFiniteSet(s) /\ Cardinality(s) \in Nat
  BY FS_Subset, FS_CardinalityType
<1>2. s # {} => pick[s] \in s
  BY DEF Picks
<1>3. IsFiniteSet(Without(pick, s)) /\ Cardinality(Without(pick, s)) \in Nat
  BY <1>1, FS_Subset, FS_CardinalityType DEF Without
<1>. QED BY <1>1, <1>2, <1>3, FS_RemoveElement DEF Without

(* What holds of the empty set, and of a set if it holds of the rest of    *)
(* it, holds of every subset of a finite set: `holds' are those it does.   *)
LEMMA SubsetInduction ==
    ASSUME NEW S, IsFiniteSet(S), NEW pick, Picks(pick, S), NEW holds,
           {} \in holds,
           \A s \in SUBSET S : s # {} /\ Without(pick, s) \in holds => s \in holds
    PROVE  SUBSET S \subseteq holds
<1> DEFINE Sizes == {Cardinality(s) : s \in (SUBSET S) \ holds}
<1>1. SUFFICES ASSUME Sizes # {} PROVE FALSE
  OBVIOUS
<1>2. PICK m \in Sizes : \A n \in Sizes : m <= n
  <2>1. Sizes \subseteq Nat
    <3>1. \A s \in SUBSET S : Cardinality(s) \in Nat
      BY PickRemoved
    <3>. QED BY <3>1
  <2>. HIDE DEF Sizes
  <2>. QED BY <1>1, <2>1, LeastNatural
<1>3. PICK s \in (SUBSET S) \ holds : Cardinality(s) = m
  BY <1>2
<1>4. s # {} /\ m \in Nat /\ Without(pick, s) \in SUBSET S /\ Cardinality(Without(pick, s)) = m - 1
  <2>1. s # {} /\ s \in SUBSET S
    OBVIOUS
  <2>. QED BY <1>3, <2>1, PickRemoved
<1>5. Without(pick, s) \notin holds
  BY <1>3, <1>4
<1>6. m <= m - 1
  BY <1>2, <1>4, <1>5
<1>. QED BY <1>4, <1>6

(* A fold by `step' takes values of T for the subsets of S of at most n    *)
(* elements.                                                               *)
Small(S, n) == {s \in SUBSET S : Cardinality(s) <= n}
Folds(g, T, base, step, pick, D) ==
    /\ g \in [D -> T]
    /\ \A s \in D : g[s] = IF s = {} THEN base ELSE step[<<pick[s], g[Without(pick, s)]>>]

(* There is a fold of the small subsets, if there is one of the smaller.   *)
LEMMA FoldGrows ==
    ASSUME NEW S, IsFiniteSet(S), NEW pick, Picks(pick, S),
           NEW T, NEW base \in T, NEW step \in [S \X T -> T],
           NEW n \in Nat, NEW h, n # 0 => Folds(h, T, base, step, pick, Small(S, n - 1))
    PROVE  \E g : Folds(g, T, base, step, pick, Small(S, n))
<1> DEFINE D == Small(S, n)
           g == [s \in D |-> IF s = {} THEN base ELSE step[<<pick[s], h[Without(pick, s)]>>]]
<1>1. ASSUME NEW s \in D, s # {}
      PROVE  /\ n # 0 /\ Without(pick, s) \in Small(S, n - 1) /\ Without(pick, s) \in D
             /\ pick[s] \in S
  <2>1. Cardinality(s) \in Nat /\ Cardinality(s) <= n /\ s \in SUBSET S
    BY PickRemoved DEF Small
  <2>2. /\ pick[s] \in S /\ Without(pick, s) \in SUBSET S
        /\ Cardinality(Without(pick, s)) \in Nat
        /\ Cardinality(Without(pick, s)) = Cardinality(s) - 1
    BY <1>1, <2>1, PickRemoved
  <2>. QED BY <2>1, <2>2 DEF Small
<1>2. ASSUME NEW s \in D, s # {}
      PROVE  /\ h[Without(pick, s)] \in T
             /\ h[Without(pick, s)] = IF Without(pick, s) = {} THEN base
                    ELSE step[<<pick[Without(pick, s)], h[Without(pick, Without(pick, s))]>>]
  BY <1>1, <1>2 DEF Folds
<1>3. g \in [D -> T]
  <2> SUFFICES ASSUME NEW s \in D, s # {} PROVE step[<<pick[s], h[Without(pick, s)]>>] \in T
    OBVIOUS
  <2>. QED BY <1>1, <1>2
<1>4. ASSUME NEW s \in D, s # {}
      PROVE  g[s] = step[<<pick[s], g[Without(pick, s)]>>]
  <2>1. g[Without(pick, s)] = h[Without(pick, s)]
    BY <1>1, <1>2, <1>4
  <2>. QED BY <1>4, <2>1
<1>5. \A s \in D : s = {} => g[s] = base
  OBVIOUS
<1>. HIDE DEF g
<1>6. Folds(g, T, base, step, pick, D)
  BY <1>3, <1>4, <1>5 DEF Folds
<1>. QED BY <1>6

(* So there is one of all of them,                                         *)
LEMMA FoldExists ==
    ASSUME NEW S, IsFiniteSet(S), NEW pick, Picks(pick, S),
           NEW T, NEW base \in T, NEW step \in [S \X T -> T]
    PROVE  \E g : Folds(g, T, base, step, pick, SUBSET S)
<1> DEFINE Bad == {n \in Nat : ~ \E g : Folds(g, T, base, step, pick, Small(S, n))}
<1>1. Bad = {}
  <2> SUFFICES ASSUME Bad # {} PROVE FALSE
    OBVIOUS
  <2>1. PICK m \in Bad : \A n \in Bad : m <= n
    <3>1. Bad \subseteq Nat
      OBVIOUS
    <3>. HIDE DEF Bad
    <3>. QED BY <3>1, LeastNatural
  <2>2. m \in Nat /\ ~ \E g : Folds(g, T, base, step, pick, Small(S, m))
    BY <2>1
  <2>3. \E h : m # 0 => Folds(h, T, base, step, pick, Small(S, m - 1))
    <3>1. CASE m = 0
      BY <3>1
    <3>2. CASE m # 0
      <4>1. m - 1 \in Nat /\ ~ (m <= m - 1)
        BY <2>2, <3>2
      <4>. QED BY <2>1, <4>1
    <3>. QED BY <3>1, <3>2
  <2>. QED BY <2>2, <2>3, FoldGrows
<1>2. Cardinality(S) \in Nat /\ Small(S, Cardinality(S)) = SUBSET S
  BY FS_CardinalityType, FS_Subset DEF Small
<1>3. PICK g : Folds(g, T, base, step, pick, Small(S, Cardinality(S)))
  BY <1>1, <1>2
<1>. QED BY <1>2, <1>3

(* and whatever is computed the same way is that one.                      *)
LEMMA FoldIsTheOne ==
    ASSUME NEW S, IsFiniteSet(S), NEW pick, Picks(pick, S), NEW g, NEW h,
           g[{}] = h[{}],
           \A s \in SUBSET S : s # {} /\ g[Without(pick, s)] = h[Without(pick, s)] => g[s] = h[s]
    PROVE  g[S] = h[S]
<1> DEFINE holds == {s \in SUBSET S : g[s] = h[s]}
<1>1. {} \in holds
  OBVIOUS
<1>2. \A s \in SUBSET S : s # {} /\ Without(pick, s) \in holds => s \in holds
  OBVIOUS
<1>3. SUBSET S \subseteq holds
  <2>. HIDE DEF holds
  <2>. QED BY <1>1, <1>2, SubsetInduction
<1>. QED BY <1>3

-----------------------------------------------------------------------------
(* A sum of integers over a finite set is one.                             *)
First(s) == CHOOSE x \in s : TRUE
SumsUp(g, base, f, S) ==
    g = [s \in SUBSET S |-> IF s = {} THEN base ELSE f[First(s)] + g[s \ {First(s)}]]

LEMMA SumIsInt ==
    ASSUME NEW S, IsFiniteSet(S), NEW base \in Int, NEW f, \A x \in S : f[x] \in Int
    PROVE  FoldFunctionOnSet(+, base, f, S) \in Int
<1> DEFINE sum == CHOOSE g : SumsUp(g, base, f, S)
           pick == [s \in SUBSET S |-> First(s)]
           step == [p \in S \X Int |-> f[p[1]] + p[2]]
<1>1. FoldFunctionOnSet(+, base, f, S) = sum[S]
  BY DEF FoldFunctionOnSet, MapThenFoldSet, SumsUp, First
<1>2. /\ Picks(pick, S) /\ step \in [S \X Int -> Int]
      /\ \A s \in SUBSET S : pick[s] = First(s) /\ Without(pick, s) = s \ {First(s)}
      /\ \A x \in S, n \in Int : step[<<x, n>>] = f[x] + n
  BY DEF Picks, First, Without
<1>. HIDE DEF pick, step
<1>3. PICK g : Folds(g, Int, base, step, pick, SUBSET S)
  BY <1>2, FoldExists
<1>4. ASSUME NEW s \in SUBSET S, s # {}
      PROVE  First(s) \in S /\ s \ {First(s)} \in SUBSET S /\ g[s] = f[First(s)] + g[s \ {First(s)}]
  <2>1. First(s) \in S /\ s \ {First(s)} \in SUBSET S
    BY <1>4 DEF First
  <2>2. g[s \ {First(s)}] \in Int /\ g[s] = step[<<First(s), g[s \ {First(s)}]>>]
    BY <1>2, <1>3, <1>4, <2>1 DEF Folds
  <2>. QED BY <1>2, <2>1, <2>2
<1>5. SumsUp(g, base, f, S)
  <2>1. g = [s \in SUBSET S |-> g[s]] /\ g[{}] = base
    BY <1>3 DEF Folds
  <2>. QED BY <1>4, <2>1 DEF SumsUp
<1>6. SumsUp(sum, base, f, S)
  BY <1>5
<1>. HIDE DEF sum
<1>7. g[S] = sum[S]
  <2>1. /\ sum[{}] = base /\ g[{}] = base
        /\ \A s \in SUBSET S : s # {} => /\ sum[s] = f[First(s)] + sum[s \ {First(s)}]
                                         /\ g[s] = f[First(s)] + g[s \ {First(s)}]
    BY <1>5, <1>6 DEF SumsUp
  <2>2. \A s \in SUBSET S : s # {} /\ g[Without(pick, s)] = sum[Without(pick, s)] => g[s] = sum[s]
    BY <1>2, <2>1
  <2>. QED BY <1>2, <2>1, <2>2, FoldIsTheOne
<1>. QED BY <1>1, <1>3, <1>7 DEF Folds

(* What the bot passes on: a list of messages from the operator.           *)
Messages == [cmd : Commands, authorized : BOOLEAN]
Orders == {m \in Messages : m.authorized}

Keep(out, m) == IF m.authorized THEN Append(out, m) ELSE out
KeepsAll(g, u) ==
    g = [s \in SUBSET DOMAIN u |-> IF s = {} THEN <<>> ELSE Keep(g[s \ {Max(s)}], u[Max(s)])]

(* A set of places of a list has a last one.                               *)
LEMMA LastPlace ==
    ASSUME NEW n \in Nat, NEW s \in SUBSET (1 .. n), s # {}
    PROVE  Max(s) \in s
<1> DEFINE T == {n - x : x \in s}
<1>1. PICK m \in T : \A k \in T : m <= k
  <2>1. \A x \in s : n - x \in Nat
    <3> SUFFICES ASSUME NEW x \in s PROVE n - x \in Nat
      OBVIOUS
    <3>1. x \in 1 .. n
      OBVIOUS
    <3>. QED BY <3>1
  <2>2. T \subseteq Nat /\ T # {}
    BY <2>1
  <2>. HIDE DEF T
  <2>. QED BY <2>2, LeastNatural
<1>2. PICK x \in s : m = n - x
  BY <1>1
<1>3. \A y \in s : x >= y
  <2> SUFFICES ASSUME NEW y \in s PROVE x >= y
    OBVIOUS
  <2>1. x \in 1 .. n /\ y \in 1 .. n
    OBVIOUS
  <2>2. n - y \in T
    OBVIOUS
  <2>3. n - x <= n - y
    BY <1>1, <1>2, <2>2
  <2>. HIDE DEF T
  <2>. QED BY <2>1, <2>3
<1>. QED BY <1>3 DEF Max

(* telegram/mod.rs:172: nothing that is not from the operator passes.      *)
LEMMA OnlyOrdersPass ==
    ASSUME NEW u \in Seq(Messages)
    PROVE  Authorized(u) \in Seq(Orders)
<1> DEFINE S == DOMAIN u
           out == CHOOSE g : KeepsAll(g, u)
           pick == [s \in SUBSET S |-> Max(s)]
           step == [p \in S \X Seq(Orders) |-> Keep(p[2], u[p[1]])]
<1>1. Authorized(u) = out[S]
  BY DEF Authorized, FoldLeft, MapThenFoldSet, KeepsAll, Keep
<1>2. S = 1 .. Len(u) /\ Len(u) \in Nat /\ IsFiniteSet(S)
  <2>1. S = 1 .. Len(u) /\ Len(u) \in Nat
    BY LenProperties
  <2>. QED BY <2>1, FS_Interval
<1>3. /\ Picks(pick, S)
      /\ \A s \in SUBSET S : pick[s] = Max(s) /\ Without(pick, s) = s \ {Max(s)}
  BY <1>2, LastPlace DEF Picks, Without
<1>4. /\ step \in [S \X Seq(Orders) -> Seq(Orders)]
      /\ \A x \in S, q \in Seq(Orders) : step[<<x, q>>] = Keep(q, u[x])
  <2>1. \A x \in S, q \in Seq(Orders) : Keep(q, u[x]) \in Seq(Orders)
    <3> SUFFICES ASSUME NEW x \in S, NEW q \in Seq(Orders) PROVE Keep(q, u[x]) \in Seq(Orders)
      OBVIOUS
    <3>1. u[x] \in Messages
      BY ElementOfSeq, <1>2
    <3>2. u[x].authorized => u[x] \in Orders
      BY <3>1 DEF Orders
    <3>. HIDE DEF Orders
    <3>3. CASE u[x].authorized
      BY <3>2, <3>3, AppendProperties DEF Keep
    <3>4. CASE ~ u[x].authorized
      BY <3>4 DEF Keep
    <3>. QED BY <3>3, <3>4
  <2>. QED BY <2>1
<1>5. <<>> \in Seq(Orders)
  OBVIOUS
<1>. HIDE DEF pick, step, S
<1>6. PICK g : Folds(g, Seq(Orders), <<>>, step, pick, SUBSET S)
  BY <1>2, <1>3, <1>4, <1>5, FoldExists
<1>7. ASSUME NEW s \in SUBSET S, s # {}
      PROVE  g[s] = Keep(g[s \ {Max(s)}], u[Max(s)])
  <2>1. Max(s) \in S /\ s \ {Max(s)} \in SUBSET S
    BY <1>3, <1>7 DEF Picks
  <2>2. g[s \ {Max(s)}] \in Seq(Orders) /\ g[s] = step[<<Max(s), g[s \ {Max(s)}]>>]
    BY <1>3, <1>6, <1>7, <2>1 DEF Folds
  <2>. QED BY <1>4, <2>1, <2>2
<1>8. KeepsAll(g, u)
  <2>1. g = [s \in SUBSET S |-> g[s]] /\ g[{}] = <<>>
    BY <1>6 DEF Folds
  <2>. QED BY <1>7, <2>1 DEF KeepsAll, S
<1>9. KeepsAll(out, u)
  BY <1>8
<1>. HIDE DEF out
<1>10. g[S] = out[S]
  <2>1. /\ out[{}] = <<>> /\ g[{}] = <<>>
        /\ \A s \in SUBSET S : s # {} => /\ out[s] = Keep(out[s \ {Max(s)}], u[Max(s)])
                                         /\ g[s] = Keep(g[s \ {Max(s)}], u[Max(s)])
    BY <1>8, <1>9 DEF KeepsAll, S
  <2>2. \A s \in SUBSET S : s # {} /\ g[Without(pick, s)] = out[Without(pick, s)] => g[s] = out[s]
    BY <1>3, <2>1
  <2>3. g[{}] = out[{}] /\ IsFiniteSet(S) /\ Picks(pick, S)
    BY <1>2, <1>3, <2>1
  <2>. QED BY ONLY <2>2, <2>3, FoldIsTheOne
<1>. QED BY <1>1, <1>6, <1>10 DEF Folds

-----------------------------------------------------------------------------
(* Halts, results and the files that keep them.                            *)

(* The result of a slot is a number, in memory and in its file, and a halt *)
(* is in the file as soon as it is set.                                    *)
Accounts == /\ pnl \in [Slots -> Int]
            /\ disk = [s \in Slots |-> disk[s]]
            /\ \A s \in Slots : disk[s].pnl \in Int
Filed == /\ suppressed = [s \in Slots |-> suppressed[s]]
         /\ \A s \in Slots : suppressed[s] => disk[s].suppressed

FilesInv == Accounts /\ Filed

(* A trade adds a number to the result and changes no halt.                *)
LEMMA BookedType ==
    ASSUME FilesInv, NEW s \in Slots, NEW w
    PROVE  /\ Booked(s, w).pnl \in Int /\ Booked(s, w).suppressed = suppressed[s]
           /\ File(s).pnl \in Int /\ File(s).suppressed = suppressed[s]
           /\ AtOpen(Booked(s, w)).pnl \in Int
           /\ AtOpen(Booked(s, w)).suppressed = suppressed[s]
           /\ AtOpen(File(s)).pnl \in Int /\ AtOpen(File(s)).suppressed = suppressed[s]
<1>1. pnl[s] \in Int /\ Result(w) \in Int
  BY DEF FilesInv, Accounts, Result
<1>2. /\ Booked(s, w) = [suppressed |-> suppressed[s], halt |-> RecordTrade(halt[s], ~w),
                         pnl |-> pnl[s] + Result(w)]
      /\ File(s) = [suppressed |-> suppressed[s], halt |-> halt[s], pnl |-> pnl[s]]
  BY DEF Booked, File
<1>. QED BY <1>1, <1>2 DEF AtOpen

(* A slot's exit is booked, with its verdict too;                          *)
LEMMA TradesAreFiled ==
    ASSUME FilesInv, NEW s \in Slots,
           ExitEarly(s) \/ ApiResultTimeout(s) \/ \E is \in BOOLEAN : ApiResult(s, is)
    PROVE  FilesInv'
<1>. USE DEF FilesInv, Accounts, Filed
<1>1. CASE ExitEarly(s)
  <2>1. PICK w \in BOOLEAN :
           /\ pnl' = [pnl EXCEPT ![s] = Booked(s, w).pnl]
           /\ disk' = [disk EXCEPT ![s] = Booked(s, w)]
           /\ suppressed' = suppressed
    BY <1>1 DEF ExitEarly
  <2>. QED BY <2>1, BookedType
<1>2. CASE ApiResultTimeout(s)
  <2> DEFINE file == [File(s) EXCEPT !.suppressed = @ \/ HaltsUnresolved(s)]
  <2>1. /\ pnl' = pnl /\ disk' = [disk EXCEPT ![s] = file]
        /\ suppressed' = [suppressed EXCEPT ![s] = @ \/ HaltsUnresolved(s)]
    BY <1>2 DEF ApiResultTimeout
  <2>2. file.pnl \in Int /\ file.suppressed = (suppressed[s] \/ HaltsUnresolved(s))
    BY DEF File
  <2>. HIDE DEF file
  <2>. QED BY <2>1, <2>2
<1>3. ASSUME NEW is \in BOOLEAN, ApiResult(s, is)
      PROVE  FilesInv'
  <2> DEFINE corrected == [suppressed |-> suppressed[s],
                           halt |-> CorrectTrade(halt[s], ~won[s], ~is),
                           pnl |-> pnl[s] + Result(is) - Result(won[s])]
             file == IF phase[s] = "Confirming" /\ is # won[s] THEN corrected ELSE File(s)
  <2>1. /\ pnl' = [pnl EXCEPT ![s] = file.pnl] /\ disk' = [disk EXCEPT ![s] = file]
        /\ suppressed' = suppressed
    BY <1>3 DEF ApiResult
  <2>2. Result(is) \in Int /\ Result(won[s]) \in Int
    BY DEF Result
  <2>3. file.pnl \in Int /\ file.suppressed = suppressed[s]
    BY <2>2 DEF File
  <2>. HIDE DEF file
  <2>. QED BY <2>1, <2>3
<1>. QED BY <1>1, <1>2, <1>3

(* so is every boundary,                                                   *)
LEMMA BoundaryIsFiled == FilesInv /\ TickerBoundary => FilesInv'
<1> SUFFICES ASSUME FilesInv, TickerBoundary PROVE FilesInv'
  OBVIOUS
<1> USE DEF FilesInv, Accounts, Filed
<1>1. PICK w \in [{s \in Due : phase[s] = "Holding"} -> BOOLEAN] :
         LET file == [s \in Due |-> AtOpen(IF s \in DOMAIN w THEN Booked(s, w[s]) ELSE File(s))]
         IN  /\ pnl' = [s \in Slots |-> IF s \in Due THEN file[s].pnl ELSE pnl[s]]
             /\ disk' = [s \in Slots |-> IF s \in Due THEN file[s] ELSE disk[s]]
  BY DEF TickerBoundary
<1> DEFINE file == [s \in Due |-> AtOpen(IF s \in DOMAIN w THEN Booked(s, w[s]) ELSE File(s))]
<1>2. suppressed' = suppressed
  BY DEF TickerBoundary
<1>3. \A s \in Due : file[s].pnl \in Int /\ file[s].suppressed = suppressed[s]
  BY BookedType DEF Due
<1>4. /\ pnl' = [s \in Slots |-> IF s \in Due THEN file[s].pnl ELSE pnl[s]]
      /\ disk' = [s \in Slots |-> IF s \in Due THEN file[s] ELSE disk[s]]
  BY <1>1
<1>. HIDE DEF file
<1>. QED BY <1>2, <1>3, <1>4

(* every halt of the guards,                                               *)
LEMMA BalanceHaltsAreFiled == FilesInv /\ BalanceArm => FilesInv'
<1> SUFFICES ASSUME FilesInv, BalanceArm PROVE FilesInv'
  OBVIOUS
<1> USE DEF FilesInv, Accounts, Filed
<1>1. PICK bal \in Samples :
        LET halted == HaltedBy(Record(tracker, bal), guard, bal)
        IN  /\ suppressed' = [s \in Slots |-> suppressed[s] \/ s \in halted]
            /\ disk' = [s \in Slots |-> IF s \in halted
                                         THEN [File(s) EXCEPT !.suppressed = TRUE] ELSE disk[s]]
  BY DEF BalanceArm
<1>2. pnl' = pnl
  BY DEF BalanceArm
<1>3. \A s \in Slots : /\ [File(s) EXCEPT !.suppressed = TRUE].pnl \in Int
                       /\ [File(s) EXCEPT !.suppressed = TRUE].suppressed
  BY DEF File
<1>. QED BY <1>1, <1>2, <1>3

(* and every command, which lifts a halt only if it is a resume.           *)
LEMMA CommandsAreFiled ==
    ASSUME FilesInv, TelegramArm
    PROVE  /\ FilesInv'
           /\ \A s \in Slots : suppressed[s] /\ ~ suppressed'[s] =>
                  /\ Head(inbox).cmd.verb = "resume"
                  /\ s \in InScope(Head(inbox).cmd)
<1> DEFINE c == Head(inbox).cmd
           verb == ParsesAs(c)
           scope == IF verb \in Controls THEN InScope(c) ELSE {}
           file == [s \in scope |-> AfterControl(verb, s)]
<1>1. /\ suppressed' = [s \in Slots |-> IF s \in scope THEN file[s].suppressed ELSE suppressed[s]]
      /\ disk' = [s \in Slots |-> IF s \in scope THEN file[s] ELSE disk[s]]
      /\ pnl' = pnl
  BY DEF TelegramArm
<1>2. ASSUME NEW s \in scope
      PROVE  /\ file[s].pnl \in Int /\ s \in Slots
             /\ suppressed[s] /\ ~ file[s].suppressed => verb = "resume"
  <2>1. verb \in Controls /\ s \in Slots /\ file[s] = AfterControl(verb, s)
    BY <1>2 DEF InScope
  <2>2. pnl[s] \in Int /\ File(s) = [suppressed |-> suppressed[s], halt |-> halt[s], pnl |-> pnl[s]]
    BY <2>1 DEF File, FilesInv, Accounts
  <2>. HIDE DEF verb, scope, file
  <2>. QED BY <2>1, <2>2 DEF Controls, AfterControl
<1>3. verb = "resume" => c.verb = "resume"
  BY DEF ParsesAs
<1>4. \A s \in scope : s \in InScope(c)
  OBVIOUS
<1>. HIDE DEF c, verb, scope, file
<1>5. FilesInv'
  BY <1>1, <1>2 DEF FilesInv, Accounts, Filed
<1>6. \A s \in Slots : suppressed[s] /\ ~ suppressed'[s] => c.verb = "resume" /\ s \in InScope(c)
  BY <1>1, <1>2, <1>3, <1>4
<1>. QED BY <1>5, <1>6 DEF c

(* A start takes all of it from the files: what it forgets has lost its    *)
(* file.                                                                   *)
LEMMA RestartLoads ==
    ASSUME FilesInv, Restart
    PROVE  FilesInv' /\ \A s \in Slots : suppressed[s] /\ ~ suppressed'[s] => s \in torn'
<1>1. PICK cut \in {{}} \cup {{s} : s \in Slots} :
         /\ torn' = torn \cup cut /\ disk' = Loaded(cut)
         /\ suppressed' = [s \in Slots |-> Loaded(cut)[s].suppressed]
         /\ pnl' = [s \in Slots |-> Loaded(cut)[s].pnl]
  BY DEF Restart
<1>2. Loaded(cut) = [s \in Slots |-> IF s \in cut THEN NoFile ELSE disk[s]]
  BY DEF Loaded
<1>3. NoFile.pnl = 0
  BY DEF NoFile
<1>. QED BY <1>1, <1>2, <1>3 DEF FilesInv, Accounts, Filed

(* Memory and files keep together, and a halt is lifted only so.           *)
LEMMA FilesKept ==
    ASSUME FilesInv, [FleetNext]_fleetVars
    PROVE  /\ FilesInv'
           /\ \A s \in Slots : suppressed[s] /\ ~ suppressed'[s] =>
                 \/ s \in torn'
                 \/ /\ TelegramArm /\ Head(inbox).cmd.verb = "resume"
                    /\ s \in InScope(Head(inbox).cmd)
<1>1. CASE UNCHANGED <<suppressed, pnl, disk>>
  BY <1>1 DEF FilesInv, Accounts, Filed
<1>2. ASSUME NEW s \in Slots,
             ExitEarly(s) \/ ApiResultTimeout(s) \/ \E is \in BOOLEAN : ApiResult(s, is)
      PROVE  FilesInv' /\ \A x \in Slots : suppressed[x] => suppressed'[x]
  <2>1. suppressed' = suppressed \/ suppressed' = [suppressed EXCEPT ![s] = @ \/ HaltsUnresolved(s)]
    BY <1>2 DEF ExitEarly, ApiResultTimeout, ApiResult
  <2>. QED BY <1>2, <2>1, TradesAreFiled DEF FilesInv, Filed
<1>3. CASE TickerBoundary
  BY <1>3, BoundaryIsFiled DEF TickerBoundary
<1>4. CASE BalanceArm
  <2>1. \A x \in Slots : suppressed[x] => suppressed'[x]
    BY <1>4 DEF BalanceArm
  <2>. QED BY <1>4, <2>1, BalanceHaltsAreFiled
<1>5. CASE TelegramArm
  BY <1>5, CommandsAreFiled
<1>6. CASE Restart
  BY <1>6, RestartLoads
<1>7. \/ UNCHANGED <<suppressed, pnl, disk>> \/ TickerBoundary \/ BalanceArm \/ TelegramArm \/ Restart
      \/ \E s \in Slots :
            ExitEarly(s) \/ ApiResultTimeout(s) \/ \E is \in BOOLEAN : ApiResult(s, is)
  BY DEF FleetNext, fleetVars, slotVars, Enter, SendCommand, PollOnce
<1>. QED BY <1>1, <1>2, <1>3, <1>4, <1>5, <1>6, <1>7

(* At the start there is nothing to keep.                                  *)
LEMMA InitFiles == FleetInit => FilesInv
  BY DEF FleetInit, FilesInv, Accounts, Filed, NoFile

-----------------------------------------------------------------------------
(* The operator's queue.                                                   *)

(* What waits to be executed is from the operator.                         *)
QueueInv ==
    /\ chat \in Seq(Messages) /\ inbox \in Seq(Orders)
    /\ confirmed \in 0 .. Len(chat) /\ offset \in 0 .. Len(chat)

(* Updates are sent, polled, delivered again and executed.                 *)
LEMMA QueueKept == QueueInv /\ [FleetNext]_fleetVars => QueueInv'
<1> SUFFICES ASSUME QueueInv, [FleetNext]_fleetVars PROVE QueueInv'
  OBVIOUS
<1> USE DEF QueueInv
<1>. HIDE DEF QueueInv
<1>0. /\ chat \in Seq(Messages) /\ inbox \in Seq(Orders) /\ Len(chat) \in Nat
      /\ confirmed \in 0 .. Len(chat) /\ offset \in 0 .. Len(chat)
  BY LenProperties DEF QueueInv
<1>1. CASE UNCHANGED chatVars
  BY <1>0, <1>1 DEF QueueInv, chatVars
<1>2. CASE SendCommand
  <2>1. PICK c \in Commands, authorized \in BOOLEAN :
           chat' = Append(chat, [cmd |-> c, authorized |-> authorized])
    BY <1>2 DEF SendCommand
  <2>2. [cmd |-> c, authorized |-> authorized] \in Messages
    BY DEF Messages
  <2>3. chat' \in Seq(Messages) /\ Len(chat') = Len(chat) + 1
    BY <1>0, <2>1, <2>2, AppendProperties
  <2>4. UNCHANGED <<confirmed, offset, inbox>>
    BY <1>2 DEF SendCommand
  <2>. QED BY <1>0, <2>3, <2>4 DEF QueueInv
<1>3. CASE PollOnce
  <2>1. Confirmed \in 0 .. Len(chat) /\ confirmed' = Confirmed /\ chat' = chat
    BY <1>0, <1>3 DEF PollOnce, Confirmed
  <2>2. CASE UNCHANGED <<offset, inbox>>
    BY <1>0, <2>1, <2>2 DEF QueueInv
  <2>3. CASE /\ offset' = NextOffset
             /\ inbox' = inbox \o Authorized(SubSeq(chat, Confirmed + 1, Len(chat)))
    <3>1. SubSeq(chat, Confirmed + 1, Len(chat)) \in Seq(Messages)
      BY <1>0, <2>1, SubSeqProperties
    <3>2. inbox' \in Seq(Orders)
      BY <1>0, <2>3, <3>1, OnlyOrdersPass, ConcatProperties
    <3>3. offset' = Len(chat)
      BY <2>3 DEF NextOffset
    <3>. QED BY <1>0, <2>1, <3>2, <3>3 DEF QueueInv
  <2>. QED BY <1>3, <2>2, <2>3 DEF PollOnce
<1>4. CASE TelegramArm
  <2>1. inbox # <<>> /\ inbox' = Tail(inbox) /\ UNCHANGED <<chat, confirmed, offset>>
    BY <1>4 DEF TelegramArm
  <2>2. Tail(inbox) \in Seq(Orders)
    BY <1>0, <2>1, HeadTailProperties
  <2>. QED BY <1>0, <2>1, <2>2 DEF QueueInv
<1>5. CASE Restart
  <2>1. offset' = 0 /\ inbox' = <<>> /\ chat' = chat /\ confirmed' = confirmed
    BY <1>5 DEF Restart
  <2>. QED BY <1>0, <2>1 DEF QueueInv
<1>6. UNCHANGED chatVars \/ SendCommand \/ PollOnce \/ TelegramArm \/ Restart
  BY DEF FleetNext, fleetVars, Enter, ExitEarly, ApiResult, ApiResultTimeout, TickerBoundary,
         BalanceArm
<1>. QED BY <1>1, <1>2, <1>3, <1>4, <1>5, <1>6

(* live.rs: a halt, whoever set it, outlives restarts, verdicts, samples   *)
(* and every other command; it is lifted by an authorized /resume that     *)
(* names the slot, or with the file that a stop has cut short.             *)
THEOREM HaltsStand == FleetSpec => OnlyResumeLifts
<1> DEFINE Inv == FilesInv /\ QueueInv
<1>1. FleetInit => Inv
  <2>1. FleetInit => QueueInv
    BY EmptySeq DEF FleetInit, QueueInv
  <2>. QED BY <2>1, InitFiles
<1>2. Inv /\ [FleetNext]_fleetVars => Inv'
  BY FilesKept, QueueKept
<1>3. Inv /\ [FleetNext]_fleetVars =>
        [\A s \in Slots : suppressed[s] /\ ~suppressed'[s] =>
            \/ s \in torn'
            \/ /\ inbox # <<>> /\ Head(inbox).authorized
               /\ Head(inbox).cmd.verb = "resume" /\ s \in InScope(Head(inbox).cmd)]_fleetVars
  <2> SUFFICES ASSUME Inv, [FleetNext]_fleetVars, NEW s \in Slots,
                      suppressed[s], ~suppressed'[s], s \notin torn'
               PROVE  /\ inbox # <<>> /\ Head(inbox).authorized
                      /\ Head(inbox).cmd.verb = "resume" /\ s \in InScope(Head(inbox).cmd)
    OBVIOUS
  <2>1. /\ TelegramArm /\ Head(inbox).cmd.verb = "resume"
        /\ s \in InScope(Head(inbox).cmd)
    BY FilesKept
  <2>2. inbox # <<>> /\ Head(inbox) \in Orders
    BY <2>1, HeadTailProperties DEF TelegramArm, QueueInv
  <2>. QED BY <2>1, <2>2 DEF Orders
<1>. QED BY <1>1, <1>2, <1>3, PTL DEF FleetSpec, OnlyResumeLifts

-----------------------------------------------------------------------------
(* The drawdown guard.                                                     *)

Guards == [baseline : SUBSET Int, fired : BOOLEAN]

BalanceTypes ==
    /\ mode \in {"Real", "DryRun", "Paper"}
    /\ guard \in Guards /\ tracker.last \subseteq Int
    /\ suppressed = [s \in Slots |-> suppressed[s]]

(* The guard fires once: what it has fired at stays halted until its       *)
(* baseline is forgotten.                                                  *)
GuardInv(g, t, sup) ==
    /\ \A initial \in g.baseline, b \in t.last : Deep(initial, b) => g.fired
    /\ g.fired => \A s \in Slots : sup[s]

DrawdownInv == BalanceTypes /\ GuardInv(guard, tracker, suppressed)

(* A balance does not lie below itself.                                    *)
LEMMA NotDeepAtBaseline ==
    ASSUME NEW b \in Int
    PROVE  ~Deep(b, b)
  BY DEF Deep

(* The first sample is the baseline, every later one is compared with it:  *)
(* a deep one fires the guard or finds it fired.                           *)
LEMMA CheckIsComplete ==
    ASSUME NEW g \in Guards, NEW t, t.last \subseteq Int,
           NEW bal, bal = {} \/ \E x \in Int : bal = {x},
           \A initial \in g.baseline, b \in t.last : Deep(initial, b) => g.fired
    PROVE  /\ Check(g, bal) \in Guards /\ Record(t, bal).last \subseteq Int
           /\ \A initial \in Check(g, bal).baseline, b \in Record(t, bal).last :
                Deep(initial, b) => Check(g, bal).fired
           /\ Check(g, bal).fired => g.fired \/ Fires(g, bal)
<1>1. bal \in SUBSET Int
  OBVIOUS
<1>2. Check(g, bal) \in Guards
  <2>1. (g.fired \/ Fires(g, bal)) \in BOOLEAN
    BY DEF Fires
  <2>2. (IF g.baseline = None THEN bal ELSE g.baseline) \in SUBSET Int
    BY <1>1 DEF Guards
  <2>. QED BY <2>1, <2>2 DEF Check, Guards
<1>3. /\ Record(t, bal).last = IF bal = None THEN t.last ELSE bal
      /\ Record(t, bal).last \subseteq Int
  <2> DEFINE compared == {b > prev : b \in bal, prev \in t.last}
  <2>1. Record(t, bal) = [last |-> IF bal = None THEN t.last ELSE bal,
                          increased |-> compared]
    BY DEF Record
  <2>. HIDE DEF compared
  <2>2. Record(t, bal).last = IF bal = None THEN t.last ELSE bal
    BY <2>1
  <2>. QED BY <1>1, <2>2
<1>4. ASSUME NEW initial \in Check(g, bal).baseline, NEW b \in Record(t, bal).last,
             Deep(initial, b)
      PROVE  Check(g, bal).fired
  <2>1. CASE bal = {}
    BY <1>3, <1>4, <2>1 DEF Check, None
  <2>2. CASE bal # {} /\ g.baseline = {}
    <3>1. initial = b /\ b \in Int
      BY <1>3, <1>4, <2>2 DEF Check, None
    <3>. QED BY <1>3, <1>4, <3>1, NotDeepAtBaseline
  <2>3. CASE bal # {} /\ g.baseline # {}
    <3>1. initial \in g.baseline /\ b \in bal
      BY <1>3, <1>4, <2>3 DEF Check, None
    <3>. QED BY <1>3, <1>4, <3>1 DEF Check, Fires
  <2>. QED BY <2>1, <2>2, <2>3
<1>5. Check(g, bal).fired => g.fired \/ Fires(g, bal)
  BY DEF Check
<1>. QED BY <1>2, <1>3, <1>4, <1>5

(* The arm samples a balance or fails to, and halts every slot when the    *)
(* guard fires.                                                            *)
LEMMA BalanceArmKeeps == Accounts /\ DrawdownInv /\ BalanceArm => DrawdownInv'
<1> SUFFICES ASSUME Accounts, DrawdownInv, BalanceArm PROVE DrawdownInv'
  OBVIOUS
<1>1. PICK bal \in Samples :
        /\ tracker' = Record(tracker, bal) /\ guard' = Check(guard, bal)
        /\ suppressed' = [s \in Slots |->
              suppressed[s] \/ s \in HaltedBy(Record(tracker, bal), guard, bal)]
  BY DEF BalanceArm
<1>2. mode' = mode /\ mode \in {"Real", "DryRun", "Paper"}
  BY DEF BalanceArm, DrawdownInv, BalanceTypes
<1>3. bal = {} \/ \E x \in Int : bal = {x}
  <2>1. CASE mode = "Real"
    BY <2>1, BalanceAssumption DEF Samples, Option, None
  <2>2. CASE mode = "DryRun"
    BY <2>2 DEF Samples, None
  <2>3. CASE mode = "Paper"
    <3>1. PaperBalance \in Int
      <4>1. pnl \in [Slots -> Int] /\ StartBalance \in Int /\ IsFiniteSet(Slots)
        BY SlotAssumption, BalanceAssumption DEF Accounts
      <4>. QED BY ONLY <4>1, SumIsInt DEF PaperBalance
    <3>. QED BY <2>3, <3>1 DEF Samples
  <2>. QED BY <1>2, <2>1, <2>2, <2>3
<1>4. guard \in Guards /\ tracker.last \subseteq Int
      /\ (\A initial \in guard.baseline, b \in tracker.last : Deep(initial, b) => guard.fired)
      /\ (guard.fired => \A s \in Slots : suppressed[s])
  BY DEF DrawdownInv, BalanceTypes, GuardInv
<1>5. /\ Check(guard, bal) \in Guards /\ Record(tracker, bal).last \subseteq Int
      /\ \A initial \in Check(guard, bal).baseline, b \in Record(tracker, bal).last :
            Deep(initial, b) => Check(guard, bal).fired
      /\ Check(guard, bal).fired => guard.fired \/ Fires(guard, bal)
  BY <1>3, <1>4, CheckIsComplete
<1>6. suppressed' = [s \in Slots |-> suppressed'[s]]
  BY <1>1
<1>7. guard'.fired => \A s \in Slots : suppressed'[s]
  <2>1. CASE guard.fired
    BY <1>1, <1>4, <2>1
  <2>2. CASE Fires(guard, bal)
    BY <1>1, <2>2 DEF HaltedBy
  <2>. QED BY <1>1, <1>5, <2>1, <2>2
<1>. QED BY <1>1, <1>2, <1>5, <1>6, <1>7 DEF DrawdownInv, BalanceTypes, GuardInv

(* A command that lifts a halt makes the guard forget its baseline.        *)
LEMMA TelegramArmKeeps == DrawdownInv /\ TelegramArm => DrawdownInv'
<1> SUFFICES ASSUME DrawdownInv, TelegramArm PROVE DrawdownInv'
  OBVIOUS
<1> DEFINE c == Head(inbox).cmd
           verb == ParsesAs(c)
           scope == IF verb \in Controls THEN InScope(c) ELSE {}
           file == [s \in scope |-> AfterControl(verb, s)]
<1>1. /\ suppressed' = [s \in Slots |-> IF s \in scope THEN file[s].suppressed
                                        ELSE suppressed[s]]
      /\ guard' = GuardAfter(verb, scope)
      /\ tracker' = tracker /\ mode' = mode
  BY DEF TelegramArm
<1>2. BalanceTypes /\ GuardInv(guard, tracker, suppressed)
  BY DEF DrawdownInv
<1>3. ASSUME NEW s \in scope
      PROVE  verb # "resume" /\ suppressed[s] => file[s].suppressed
  <2>1. verb \in Controls /\ s \in Slots /\ file[s] = AfterControl(verb, s)
    BY <1>3 DEF InScope
  <2>. HIDE DEF verb, scope, file
  <2>. QED BY <2>1 DEF Controls, AfterControl, File
<1>. HIDE DEF verb, scope, file
<1>4. suppressed' = [s \in Slots |-> suppressed'[s]]
  BY <1>1
<1>5. CASE verb = "resume" /\ scope # {}
  <2>1. guard' = NewGuard
    BY <1>1, <1>5 DEF GuardAfter
  <2>2. NewGuard \in Guards /\ NewGuard.baseline = {} /\ ~NewGuard.fired
    BY DEF NewGuard, Guards, None
  <2>. QED BY <1>1, <1>2, <1>4, <2>1, <2>2 DEF DrawdownInv, BalanceTypes, GuardInv
<1>6. CASE ~(verb = "resume" /\ scope # {})
  <2>1. guard' = guard
    BY <1>1, <1>6 DEF GuardAfter
  <2>2. \A s \in Slots : suppressed[s] => suppressed'[s]
    BY <1>1, <1>3, <1>6
  <2>. QED BY <1>1, <1>2, <1>4, <2>1, <2>2 DEF DrawdownInv, BalanceTypes, GuardInv
<1>. QED BY <1>5, <1>6

(* Everything else leaves the guard alone and lifts no halt, except a      *)
(* restart, which knows no balance and no baseline.                        *)
LEMMA OthersKeep ==
    ASSUME DrawdownInv, [FleetNext]_fleetVars, ~BalanceArm, ~TelegramArm
    PROVE  DrawdownInv'
<1>1. CASE Restart
  <2>1. /\ mode' = mode /\ guard' = NewGuard /\ tracker' = NewBalanceTracker
        /\ suppressed' = [s \in Slots |-> suppressed'[s]]
    BY <1>1 DEF Restart
  <2>2. NewGuard \in Guards /\ NewGuard.baseline = {} /\ ~NewGuard.fired
        /\ NewBalanceTracker.last = {}
    BY DEF NewGuard, NewBalanceTracker, Guards, None
  <2>. QED BY <2>1, <2>2 DEF DrawdownInv, BalanceTypes, GuardInv
<1>2. ASSUME NEW s \in Slots, ApiResultTimeout(s)
      PROVE  DrawdownInv'
  <2>1. /\ UNCHANGED <<mode, guard, tracker>>
        /\ suppressed' = [suppressed EXCEPT ![s] = @ \/ HaltsUnresolved(s)]
    BY <1>2 DEF ApiResultTimeout
  <2>2. BalanceTypes /\ GuardInv(guard, tracker, suppressed)
    BY DEF DrawdownInv
  <2>3. suppressed' = [x \in Slots |-> suppressed'[x]]
    BY <2>1, <2>2 DEF BalanceTypes
  <2>4. \A x \in Slots : suppressed[x] => suppressed'[x]
    BY <2>1, <2>2 DEF BalanceTypes
  <2>. QED BY <2>1, <2>2, <2>3, <2>4 DEF DrawdownInv, BalanceTypes, GuardInv
<1>3. CASE UNCHANGED <<mode, guard, tracker, suppressed>>
  BY <1>3 DEF DrawdownInv, BalanceTypes, GuardInv
<1>4. Restart \/ (\E s \in Slots : ApiResultTimeout(s))
      \/ UNCHANGED <<mode, guard, tracker, suppressed>>
  BY DEF FleetNext, fleetVars, slotVars, Enter, ExitEarly, ApiResult, TickerBoundary,
         SendCommand, PollOnce
<1>. QED BY <1>1, <1>2, <1>3, <1>4

(* balance.rs:43: while the last known balance is more than a quarter      *)
(* below the baseline every slot is halted, whatever lifted a halt before  *)
(* and although the guard fires only once.                                 *)
THEOREM DeepDrawdownStops == FleetSpec => []DeepDrawdownStopsFleet
<1>1. FleetInit => DrawdownInv
  <2> SUFFICES ASSUME FleetInit PROVE DrawdownInv
    OBVIOUS
  <2>1. mode \in {"Real", "DryRun", "Paper"}
    BY DEF FleetInit, ResolveRunMode
  <2>2. guard = NewGuard /\ tracker = NewBalanceTracker
        /\ suppressed = [s \in Slots |-> suppressed[s]]
    BY DEF FleetInit
  <2>3. NewGuard \in Guards /\ NewGuard.baseline = {} /\ ~NewGuard.fired
        /\ NewBalanceTracker.last = {}
    BY DEF NewGuard, NewBalanceTracker, Guards, None
  <2>. QED BY <2>1, <2>2, <2>3 DEF DrawdownInv, BalanceTypes, GuardInv
<1>2. FilesInv /\ DrawdownInv /\ [FleetNext]_fleetVars => FilesInv' /\ DrawdownInv'
  BY BalanceArmKeeps, TelegramArmKeeps, OthersKeep, FilesKept DEF FilesInv
<1>3. DrawdownInv => DeepDrawdownStopsFleet
  BY DEF DrawdownInv, GuardInv, DeepDrawdownStopsFleet
<1>. QED BY <1>1, <1>2, <1>3, InitFiles, PTL DEF FleetSpec

-----------------------------------------------------------------------------
(* Execution: sums over at most one answer or order.                       *)

LEMMA SumOfShares ==
    ASSUME NEW S, NEW a, S = {} \/ S = {a}, a.shares \in Int
    PROVE  MapThenSumSet(LAMBDA x : x.shares, S) = IF S = {} THEN 0 ELSE a.shares
<1> DEFINE Sums(g) == g = [s \in SUBSET S |-> IF s = {} THEN 0
                             ELSE (CHOOSE x \in s : TRUE).shares + g[s \ {CHOOSE x \in s : TRUE}]]
           sum == CHOOSE g : Sums(g)
           one == [s \in SUBSET S |-> IF s = {} THEN 0 ELSE a.shares]
<1>1. MapThenSumSet(LAMBDA x : x.shares, S) = sum[S]
  BY DEF MapThenSumSet, MapThenFoldSet
<1>2. \A s \in SUBSET S : s # {} => s = S /\ (CHOOSE x \in s : TRUE) = a /\ s \ {CHOOSE x \in s : TRUE} = {}
  OBVIOUS
<1>3. Sums(one)
  BY <1>2
<1>4. Sums(sum)
  BY <1>3
<1>. HIDE DEF sum
<1>. QED BY <1>1, <1>2, <1>4

LEMMA SumOfCash ==
    ASSUME NEW S, NEW a, S = {} \/ S = {a}, a.cash \in Int
    PROVE  MapThenSumSet(LAMBDA x : x.cash, S) = IF S = {} THEN 0 ELSE a.cash
<1> DEFINE Sums(g) == g = [s \in SUBSET S |-> IF s = {} THEN 0
                             ELSE (CHOOSE x \in s : TRUE).cash + g[s \ {CHOOSE x \in s : TRUE}]]
           sum == CHOOSE g : Sums(g)
           one == [s \in SUBSET S |-> IF s = {} THEN 0 ELSE a.cash]
<1>1. MapThenSumSet(LAMBDA x : x.cash, S) = sum[S]
  BY DEF MapThenSumSet, MapThenFoldSet
<1>2. \A s \in SUBSET S : s # {} => s = S /\ (CHOOSE x \in s : TRUE) = a /\ s \ {CHOOSE x \in s : TRUE} = {}
  OBVIOUS
<1>3. Sums(one)
  BY <1>2
<1>4. Sums(sum)
  BY <1>3
<1>. HIDE DEF sum
<1>. QED BY <1>1, <1>2, <1>4

Traded(o) == IF o.side = "Buy" THEN o.shares ELSE -o.shares

LEMMA SumTraded ==
    ASSUME NEW S, NEW a, S = {} \/ S = {a}, a.shares \in Int
    PROVE  MapThenSumSet(LAMBDA o : IF o.side = "Buy" THEN o.shares ELSE -o.shares, S)
             = IF S = {} THEN 0 ELSE Traded(a)
<1> DEFINE Sums(g) == g = [s \in SUBSET S |-> IF s = {} THEN 0
                             ELSE (IF (CHOOSE x \in s : TRUE).side = "Buy"
                                   THEN (CHOOSE x \in s : TRUE).shares
                                   ELSE -(CHOOSE x \in s : TRUE).shares)
                                  + g[s \ {CHOOSE x \in s : TRUE}]]
           sum == CHOOSE g : Sums(g)
           one == [s \in SUBSET S |-> IF s = {} THEN 0 ELSE Traded(a)]
<1> SUFFICES sum[S] = IF S = {} THEN 0 ELSE Traded(a)
  BY DEF MapThenSumSet, MapThenFoldSet
<1>2. \A s \in SUBSET S : s # {} => s = S /\ (CHOOSE x \in s : TRUE) = a /\ s \ {CHOOSE x \in s : TRUE} = {}
  OBVIOUS
<1>3. Sums(one)
  BY <1>2 DEF Traded
<1>4. Sums(sum)
  BY <1>3
<1>. HIDE DEF sum
<1>5. sum[{}] = 0
  BY <1>4
<1>6. ASSUME S = {a} PROVE sum[S] = Traded(a) + sum[{}]
  <2>1. S \in SUBSET S /\ S # {} /\ (CHOOSE x \in S : TRUE) = a /\ S \ {CHOOSE x \in S : TRUE} = {}
    BY <1>2, <1>6
  <2>. QED BY <1>4, <2>1 DEF Traded
<1>7. Traded(a) \in Int
  BY DEF Traded
<1>. QED BY <1>5, <1>6, <1>7

Paid(o) == IF o.side = "Buy" THEN -o.shares * o.price ELSE o.shares * o.price

LEMMA SumPaid ==
    ASSUME NEW S, NEW a, S = {} \/ S = {a}, a.shares \in Int, a.price \in Int
    PROVE  MapThenSumSet(LAMBDA o : IF o.side = "Buy" THEN -o.shares * o.price ELSE o.shares * o.price, S)
             = IF S = {} THEN 0 ELSE Paid(a)
<1> DEFINE Sums(g) == g = [s \in SUBSET S |-> IF s = {} THEN 0
                             ELSE (IF (CHOOSE x \in s : TRUE).side = "Buy"
                                   THEN -(CHOOSE x \in s : TRUE).shares * (CHOOSE x \in s : TRUE).price
                                   ELSE (CHOOSE x \in s : TRUE).shares * (CHOOSE x \in s : TRUE).price)
                                  + g[s \ {CHOOSE x \in s : TRUE}]]
           sum == CHOOSE g : Sums(g)
           one == [s \in SUBSET S |-> IF s = {} THEN 0 ELSE Paid(a)]
<1> SUFFICES sum[S] = IF S = {} THEN 0 ELSE Paid(a)
  BY DEF MapThenSumSet, MapThenFoldSet
<1>2. \A s \in SUBSET S : s # {} => s = S /\ (CHOOSE x \in s : TRUE) = a /\ s \ {CHOOSE x \in s : TRUE} = {}
  OBVIOUS
<1>3. Sums(one)
  BY <1>2 DEF Paid
<1>4. Sums(sum)
  BY <1>3
<1>. HIDE DEF sum
<1>5. sum[{}] = 0
  BY <1>4
<1>6. ASSUME S = {a} PROVE sum[S] = Paid(a) + sum[{}]
  <2>1. S \in SUBSET S /\ S # {} /\ (CHOOSE x \in S : TRUE) = a /\ S \ {CHOOSE x \in S : TRUE} = {}
    BY <1>2, <1>6
  <2>. QED BY <1>4, <2>1 DEF Paid
<1>7. Paid(a) \in Int
  BY DEF Paid
<1>. QED BY <1>5, <1>6, <1>7

-----------------------------------------------------------------------------
(* Rounding.                                                               *)
LEMMA RoundedDown ==
    ASSUME NEW x \in Int
    PROVE  floor2(x) \in Int /\ floor2(x) <= x /\ (x >= 0 => floor2(x) >= 0)
BY UnitAssumption DEF floor2

LEMMA WholeStays ==
    ASSUME NEW k \in Int
    PROVE  round2(Unit * k) = Unit * k
<1> DEFINE h == Unit \div 2
           q == (Unit * k + h) \div Unit
<1>1. Unit \in Nat \ {0} /\ h \in Nat /\ h < Unit
  BY UnitAssumption
<1>2. q \in Int /\ Unit * q <= Unit * k + h /\ Unit * k + h < Unit * q + Unit
  BY <1>1
<1>. HIDE DEF h, q
<1>3. Unit * (q - k) < Unit /\ -Unit < Unit * (q - k)
  BY <1>1, <1>2
<1>4. q = k
  BY <1>1, <1>2, <1>3
<1>. QED BY <1>1, <1>4 DEF round2, q, h

(* What is bought for SizeUsdc at a price is a number of units.            *)
LEMMA BoughtAt ==
    ASSUME NEW at \in Nat \ {0}
    PROVE  \E k \in Nat : RoundedShares(at) = Unit * k
<1>1. (2 * SizeUsdc + Unit * at) \div (2 * Unit * at) \in Nat
  <2>1. 2 * SizeUsdc + Unit * at \in Nat /\ 2 * Unit * at \in Nat \ {0}
    BY UnitAssumption, PriceAssumption
  <2>. QED BY <2>1
<1>. QED BY <1>1 DEF RoundedShares

LEMMA CappedType ==
    ASSUME NEW p \in Prices
    PROVE  Capped(p) \in Nat \ {0}
BY PriceAssumption DEF Capped
-----------------------------------------------------------------------------
(* Execution: what is asked, answered and rests.                           *)

Amounts == [shares : Int, cash : Int]
RestingOrders == [id : Nat, side : {"Buy", "Sell"}, shares : Int, price : Int]
AtMostOne(x) == x = Nothing \/ \E o \in x : x = {o}
Sells == {"limit_sell", "close", "close_at_price"}

ExecTypes ==
    /\ engine \in {"Real", "Paper", "Sim"} /\ price \in Prices /\ calls \in Nat
    /\ acct \in [shares : Int, unsettled : Int, cash : Int] /\ acct.unsettled >= 0
    /\ told \in [shares : Int, cash : Int, resting : SUBSET RestingOrders] /\ AtMostOne(told.resting)
    /\ unheard \in Amounts
    /\ observed = Nothing \/ \E p \in Prices : observed = {p}
    /\ book \subseteq RestingOrders

(* A call is about what the worker has been told: a sale of all it holds,  *)
(* with nothing resting, or the cancel of what rests.                      *)
CallFits(c) ==
    /\ c \in [op : Ops, shares : Int, price : Nat, attempt : Nat]
    /\ c.op = "place" => c.price \in Prices
    /\ c.op = "limit_buy" => c.shares = MinGtc /\ c.price \in Prices
    /\ c.op \in Sells => c.shares = told.shares /\ told.shares > 0
    /\ c.op # "cancel" => told.resting = Nothing
    /\ c.op = "cancel" => \E o \in told.resting : c.price = o.id

(* An answer without an amount moves no money, and an error has none.      *)
AnswerFits(a) ==
    /\ a = [err |-> a.err, shares |-> a.shares, cash |-> a.cash, rests |-> a.rests]
    /\ a.shares \in Int /\ a.cash \in Int
    /\ a.rests \subseteq RestingOrders /\ AtMostOne(a.rests)
    /\ a.err # "" => a.shares = 0
    /\ a.shares = 0 => a.cash = 0

CallInv == call = Nothing \/ \E c \in call : call = {c} /\ CallFits(c)
WireInv ==
    \/ wire = Nothing
    \/ engine = "Real" /\ \E c \in call : \/ wire = {Request(c)}
                                          \/ \E a \in wire : wire = {a} /\ AnswerFits(a)

(* The account is what the worker knows, what it will not hear, and what   *)
(* the answer on the wire is about to say.                                 *)
Agreed ==
    engine = "Real" =>
        /\ Answers = {} => /\ acct.shares = told.shares + unheard.shares
                           /\ acct.cash = told.cash + unheard.cash
        /\ \A a \in Answers : /\ acct.shares = told.shares + unheard.shares + a.shares
                              /\ acct.cash = told.cash + unheard.cash + a.cash

(* A simulated engine has nothing to sell but what it has bought: the      *)
(* paper book is the order that rests, and whole units are rounded to      *)
(* themselves.                                                             *)
Covers(o) == o.shares >= 0 /\ (o.side = "Sell" => o.shares <= told.shares)
Simulated ==
    /\ engine # "Real" => told.shares >= 0
    /\ engine = "Paper" => book = told.resting /\ \A o \in book : Covers(o)
    /\ engine = "Sim" => \E k \in Int : told.shares = Unit * k

ExecInv == ExecTypes /\ CallInv /\ WireInv /\ Agreed /\ Simulated

-----------------------------------------------------------------------------
(* An order that is posted has a size, an answer has none.                 *)
LEMMA WireFields ==
    /\ \A c : "size" \in DOMAIN Request(c) /\ "err" \notin DOMAIN Request(c)
    /\ \A a : AnswerFits(a) => "err" \in DOMAIN a /\ "size" \notin DOMAIN a
<1>1. \A c : "size" \in DOMAIN Request(c) /\ "err" \notin DOMAIN Request(c)
  BY DEF Request
<1>2. \A a : AnswerFits(a) => "err" \in DOMAIN a /\ "size" \notin DOMAIN a
  BY DEF AnswerFits
<1>. QED BY <1>1, <1>2

LEMMA OnTheWire ==
    /\ wire = Nothing => Posted = {} /\ Answers = {}
    /\ \A c : wire = {Request(c)} => Posted = {Request(c)} /\ Answers = {}
    /\ \A a : wire = {a} /\ AnswerFits(a) => Posted = {} /\ Answers = {a}
BY WireFields DEF Posted, Answers, Nothing

LEMMA OnTheWireNext ==
    /\ wire' = Nothing => Posted' = {} /\ Answers' = {}
    /\ \A c : wire' = {Request(c)} => Posted' = {Request(c)} /\ Answers' = {}
    /\ \A a : wire' = {a} /\ AnswerFits(a) => Posted' = {} /\ Answers' = {a}
BY WireFields DEF Posted, Answers, Nothing

(* What a call posts.                                                      *)
LEMMA Requested ==
    ASSUME NEW c, CallFits(c)
    PROVE  /\ Request(c).op = c.op /\ Request(c).size \in Int /\ Request(c).limit \in Nat
           /\ Request(c).side = IF c.op \in {"place", "limit_buy"} THEN "Buy" ELSE "Sell"
           /\ c.op # "place" => Request(c).size <= c.shares
           /\ c.op # "cancel" /\ Request(c).side = "Sell" => c.op \in Sells
           /\ c.op = "limit_buy" \/ c.op = "limit_sell" => Request(c).limit = c.price
<1>1. /\ c.op \in Ops /\ c.shares \in Int /\ c.price \in Nat
  BY DEF CallFits
<1>2. floor2(c.shares) \in Int /\ floor2(c.shares) <= c.shares
  BY <1>1, RoundedDown
<1>3. aggressive_entry_price(c.price, c.attempt) \in Nat
  BY <1>1, PriceAssumption DEF aggressive_entry_price
<1>. QED BY <1>1, <1>2, <1>3, PriceAssumption DEF Request, Ops, Sells

LEMMA FillMoves ==
    ASSUME price \in Prices, NEW r, r.size \in Int, NEW t \in Fills(r)
    PROVE  /\ t = Trade(t.shares, t.cash)
           /\ t.shares \in Int /\ t.cash \in Int /\ t.shares # 0
<1>1. price \in Nat \ {0} /\ Unit \in Nat \ {0}
  BY PriceAssumption, UnitAssumption
<1>2. CASE r.side = "Buy"
  <2>1. PICK q \in Int : q >= 1 /\ t = Trade(q, -q * price)
    BY <1>1, <1>2 DEF Fills
  <2>2. -q * price \in Int
    BY <1>1
  <2>. QED BY <2>1, <2>2 DEF Trade
<1>3. CASE r.side # "Buy"
  <2>1. PICK k \in Int : k >= 1 /\ t = Trade(-(Unit * k), (Unit * k) * price)
    BY <1>1, <1>3 DEF Fills
  <2>2. Unit * k \in Int /\ Unit * k > 0
    BY <1>1, <2>1
  <2>3. (Unit * k) * price \in Int
    BY <1>1, <2>2
  <2>. QED BY <2>1, <2>2, <2>3 DEF Trade
<1>. QED BY <1>2, <1>3

LEMMA AnswersFit ==
    /\ \A t : t.shares \in Int /\ t.cash \in Int /\ t.shares # 0 => AnswerFits(Fill(t))
    /\ \A e : AnswerFits(Error(e))
    /\ \A o \in RestingOrders : AnswerFits(Taken(o))
<1>0. AtMostOne(Nothing) /\ Nothing \subseteq RestingOrders
  BY DEF AtMostOne, Nothing
<1>1. ASSUME NEW t, t.shares \in Int, t.cash \in Int, t.shares # 0
      PROVE  AnswerFits(Fill(t))
  BY <1>0, <1>1 DEF AnswerFits, Fill
<1>2. ASSUME NEW e PROVE AnswerFits(Error(e))
  BY <1>0 DEF AnswerFits, Error
<1>3. ASSUME NEW o \in RestingOrders PROVE AnswerFits(Taken(o))
  <2>1. AtMostOne({o}) /\ {o} \subseteq RestingOrders
    BY DEF AtMostOne
  <2>. QED BY <2>1 DEF AnswerFits, Taken
<1>. QED BY <1>1, <1>2, <1>3

-----------------------------------------------------------------------------
(* The steps of the slot and of the exchange.                              *)

LEMMA BeginKeeps ==
    ASSUME ExecInv, NEW op, NEW shares, NEW at, Begin(op, shares, at),
           CallFits(Call(op, shares, at, FirstAttempt(op)))
    PROVE  ExecInv'
<1> DEFINE c == Call(op, shares, at, FirstAttempt(op))
<1>1. /\ call = Nothing /\ call' = {c} /\ calls' = calls + 1
      /\ wire' = IF engine = "Real" THEN {Request(c)} ELSE Nothing
      /\ UNCHANGED <<engine, price, observed, acct, book, told, unheard, lost>>
  BY DEF Begin
<1>2. ExecTypes'
  BY <1>1 DEF ExecInv, ExecTypes
<1>3. CallFits(c)'
  BY <1>1 DEF CallFits
<1>. HIDE DEF c
<1>4. CallInv' /\ WireInv'
  BY <1>1, <1>3 DEF CallInv, WireInv
<1>5. Answers = {} /\ Answers' = {}
  <2>1. wire = Nothing
    BY <1>1 DEF ExecInv, WireInv, Nothing
  <2>. QED BY <1>1, <2>1, OnTheWire, OnTheWireNext
<1>6. Agreed'
  BY <1>1, <1>5 DEF ExecInv, Agreed
<1>7. Simulated'
  BY <1>1 DEF ExecInv, Simulated, Covers
<1>. QED BY <1>2, <1>4, <1>6, <1>7 DEF ExecInv

LEMMA SlotCallsKeep == ExecInv /\ SlotCalls => ExecInv'
<1> SUFFICES ASSUME ExecInv, SlotCalls PROVE ExecInv'
  OBVIOUS
<1>1. told.shares \in Int /\ told.resting \subseteq RestingOrders
  BY DEF ExecInv, ExecTypes
<1>2. Prices \subseteq Nat /\ Unit \in Nat \ {0} /\ MinGtc \in Nat \ {0}
  BY PriceAssumption, UnitAssumption
<1> USE DEF CallFits, Call, FirstAttempt, Ops, Sells
<1>3. CASE PlaceEntry
  <2>1. PICK p \in Prices : Begin("place", 0, p) \/ Begin("limit_buy", MinGtc, p)
    BY <1>3 DEF PlaceEntry
  <2>2. told.resting = Nothing
    BY <1>3 DEF PlaceEntry, Flat
  <2>3. CallFits(Call("place", 0, p, FirstAttempt("place")))
    BY <1>2, <2>2
  <2>4. CallFits(Call("limit_buy", MinGtc, p, FirstAttempt("limit_buy")))
    BY <1>2, <2>2
  <2>. QED BY <2>1, <2>3, <2>4, BeginKeeps
<1>4. CASE RestExit
  <2>1. PICK p \in Prices : Begin("limit_sell", told.shares, p)
    BY <1>4 DEF RestExit
  <2>2. CallFits(Call("limit_sell", told.shares, p, FirstAttempt("limit_sell")))
    BY <1>1, <1>2, <1>4 DEF RestExit
  <2>. QED BY <2>1, <2>2, BeginKeeps
<1>5. CASE CloseNow
  <2>1. told.resting = Nothing /\ told.shares > 0
    BY <1>1, <1>2, <1>5 DEF CloseNow
  <2>2. CASE Begin("close", told.shares, 0)
    <3>1. CallFits(Call("close", told.shares, 0, FirstAttempt("close")))
      BY <1>1, <2>1
    <3>. QED BY <2>2, <3>1, BeginKeeps
  <2>3. ASSUME NEW p \in Prices, Begin("close_at_price", told.shares, p) PROVE ExecInv'
    <3>1. CallFits(Call("close_at_price", told.shares, p, FirstAttempt("close_at_price")))
      BY <1>1, <1>2, <2>1
    <3>. QED BY <2>3, <3>1, BeginKeeps
  <2>. QED BY <1>5, <2>2, <2>3 DEF CloseNow
<1>6. CASE Cancel
  <2>1. PICK o \in told.resting : Begin("cancel", 0, o.id)
    BY <1>6 DEF Cancel
  <2>2. CallFits(Call("cancel", 0, o.id, FirstAttempt("cancel")))
    BY <1>1 DEF RestingOrders
  <2>. QED BY <2>1, <2>2, BeginKeeps
<1>. QED BY <1>3, <1>4, <1>5, <1>6 DEF SlotCalls

(* The exchange answers an order: the account is moved by what the answer  *)
(* says, or by what will not be heard.                                     *)
LEMMA PostedIs ==
    ASSUME ExecInv, NEW r \in Posted
    PROVE  /\ engine = "Real" /\ Answers = {}
           /\ \E c : /\ call = {c} /\ CallFits(c) /\ r = Request(c) /\ wire = {r}
           /\ acct.shares = told.shares + unheard.shares
           /\ acct.cash = told.cash + unheard.cash
<1>1. wire # Nothing
  BY OnTheWire
<1>2. engine = "Real"
  BY <1>1 DEF ExecInv, WireInv
<1>3. PICK c \in call : \/ wire = {Request(c)}
                        \/ \E a \in wire : wire = {a} /\ AnswerFits(a)
  BY <1>1 DEF ExecInv, WireInv
<1>4. wire = {Request(c)} /\ r = Request(c) /\ Answers = {}
  BY <1>3, OnTheWire
<1>5. call = {c} /\ CallFits(c)
  BY <1>3 DEF ExecInv, CallInv, Nothing
<1>. QED BY <1>2, <1>4, <1>5 DEF ExecInv, Agreed

LEMMA AnsweredKeeps ==
    ASSUME ExecInv, NEW r \in Posted, NEW a, AnswerFits(a), wire' = {a},
           UNCHANGED <<engine, call, told>>, ExecTypes',
           acct'.shares = told.shares + unheard'.shares + a.shares,
           acct'.cash = told.cash + unheard'.cash + a.cash
    PROVE  ExecInv'
<1>1. /\ engine = "Real"
      /\ \E c : call = {c}
  BY PostedIs
<1>2. CallInv'
  BY DEF ExecInv, CallInv, CallFits
<1>3. WireInv'
  BY <1>1 DEF WireInv
<1>4. Agreed'
  <2>1. Answers' = {a}
    BY OnTheWireNext
  <2>. QED BY <2>1 DEF Agreed
<1>5. Simulated'
  BY <1>1 DEF Simulated
<1>. QED BY <1>2, <1>3, <1>4, <1>5 DEF ExecInv

LEMMA AnswerKeeps ==
    ASSUME ExecInv, NEW r \in Posted, NEW a, AnswerFits(a), NEW t, t = Trade(a.shares, a.cash),
           Answer(a, t), UNCHANGED <<engine, price, observed, call, told, calls>>,
           acct' \in [shares : Int, unsettled : Int, cash : Int], acct'.unsettled >= 0,
           acct'.shares = acct.shares + a.shares, acct'.cash = acct.cash + a.cash,
           book' \subseteq RestingOrders
    PROVE  ExecInv'
<1>1. /\ acct.shares = told.shares + unheard.shares
      /\ acct.cash = told.cash + unheard.cash
  BY PostedIs
<1>2. /\ told.shares \in Int /\ told.cash \in Int /\ a.shares \in Int /\ a.cash \in Int
      /\ unheard \in Amounts /\ unheard.shares \in Int /\ unheard.cash \in Int
  BY DEF ExecInv, ExecTypes, AnswerFits, Amounts
<1>3. CASE wire' = {a} /\ unheard' = unheard
  <2>1. ExecTypes'
    BY <1>3 DEF ExecInv, ExecTypes
  <2>2. /\ acct'.shares = told.shares + unheard'.shares + a.shares
        /\ acct'.cash = told.cash + unheard'.cash + a.cash
    BY <1>1, <1>2, <1>3
  <2>. QED BY <1>3, <2>1, <2>2, AnsweredKeeps
<1>4. CASE wire' = {Error("other")} /\ unheard' = Plus(unheard, t)
  <2>1. /\ unheard' \in Amounts
        /\ unheard'.shares = unheard.shares + a.shares /\ unheard'.cash = unheard.cash + a.cash
    BY <1>2, <1>4 DEF Plus, Trade, Amounts
  <2>2. ExecTypes'
    BY <2>1 DEF ExecInv, ExecTypes
  <2>3. AnswerFits(Error("other")) /\ Error("other").shares = 0 /\ Error("other").cash = 0
    BY AnswersFit DEF Error
  <2>4. /\ acct'.shares = told.shares + unheard'.shares + Error("other").shares
        /\ acct'.cash = told.cash + unheard'.cash + Error("other").cash
    BY <1>1, <1>2, <2>1, <2>3
  <2>. QED BY <1>4, <2>2, <2>3, <2>4, AnsweredKeeps
<1>. QED BY <1>3, <1>4 DEF Answer

LEMMA FillsKeep == ExecInv /\ ExchangeFills => ExecInv'
<1> SUFFICES ASSUME ExecInv, ExchangeFills PROVE ExecInv'
  OBVIOUS
<1>1. PICK r, t :
         /\ r \in Posted /\ t \in Fills(r)
         /\ acct' = Moved(t)
         /\ book' = IF Resting(r) /\ Rest(r, t) > 0
                    THEN book \cup {Order(calls, r.side, Rest(r, t), r.limit)} ELSE book
         /\ Answer(Fill(t), t) /\ UNCHANGED <<engine, price, observed, call, told, calls>>
  BY DEF ExchangeFills
<1>2. r.size \in Int /\ r.limit \in Nat /\ r.side \in {"Buy", "Sell"}
  BY <1>1, PostedIs, Requested
<1>3. /\ t = Trade(t.shares, t.cash) /\ t.shares \in Int /\ t.cash \in Int /\ t.shares # 0
  BY <1>1, <1>2, FillMoves DEF ExecInv, ExecTypes
<1>4. AnswerFits(Fill(t)) /\ Fill(t).shares = t.shares /\ Fill(t).cash = t.cash
  BY <1>3, AnswersFit DEF Fill
<1>5. /\ acct' \in [shares : Int, unsettled : Int, cash : Int] /\ acct'.unsettled >= 0
      /\ acct'.shares = acct.shares + t.shares /\ acct'.cash = acct.cash + t.cash
  <2>1. /\ acct \in [shares : Int, unsettled : Int, cash : Int] /\ acct.unsettled >= 0
    BY DEF ExecInv, ExecTypes
  <2>2. PICK u \in Nat : u = IF t.shares > 0 THEN t.shares ELSE 0
    BY <1>3
  <2>3. acct' = [acct EXCEPT !.shares = @ + t.shares, !.cash = @ + t.cash, !.unsettled = @ + u]
    BY <1>1, <2>2 DEF Moved
  <2>4. /\ acct.shares + t.shares \in Int /\ acct.cash + t.cash \in Int
        /\ acct.unsettled + u \in Int /\ acct.unsettled + u >= 0
    BY <1>3, <2>1, <2>2
  <2>5. acct' = [shares |-> acct.shares + t.shares, unsettled |-> acct.unsettled + u,
                 cash |-> acct.cash + t.cash]
    BY <2>1, <2>3
  <2>. QED BY <2>4, <2>5
<1>6. book' \subseteq RestingOrders
  <2>1. Order(calls, r.side, Rest(r, t), r.limit) \in RestingOrders
    BY <1>2, <1>3 DEF Order, RestingOrders, Rest, ExecInv, ExecTypes
  <2>. QED BY <1>1, <2>1 DEF ExecInv, ExecTypes
<1>. QED BY <1>1, <1>3, <1>4, <1>5, <1>6, AnswerKeeps

LEMMA RestsKeep == ExecInv /\ ExchangeRests => ExecInv'
<1> SUFFICES ASSUME ExecInv, ExchangeRests PROVE ExecInv'
  OBVIOUS
<1>1. PICK r, o :
         /\ r \in Posted
         /\ o = Order(calls, r.side, r.size, r.limit) /\ book' = book \cup {o}
         /\ Answer(Taken(o), NoTrade)
         /\ UNCHANGED <<engine, price, observed, acct, call, told, calls>>
  BY DEF ExchangeRests
<1>2. r.size \in Int /\ r.limit \in Nat /\ r.side \in {"Buy", "Sell"}
  BY <1>1, PostedIs, Requested
<1>3. o \in RestingOrders /\ book' \subseteq RestingOrders
  BY <1>1, <1>2 DEF Order, RestingOrders, ExecInv, ExecTypes
<1>4. /\ AnswerFits(Taken(o)) /\ NoTrade = Trade(Taken(o).shares, Taken(o).cash)
      /\ Taken(o).shares = 0 /\ Taken(o).cash = 0
  BY <1>3, AnswersFit DEF Taken, NoTrade
<1>5. /\ acct' \in [shares : Int, unsettled : Int, cash : Int] /\ acct'.unsettled >= 0
      /\ acct'.shares = acct.shares + 0 /\ acct'.cash = acct.cash + 0
  BY <1>1 DEF ExecInv, ExecTypes
<1>. QED BY <1>1, <1>3, <1>4, <1>5, AnswerKeeps

LEMMA CancelsKeep == ExecInv /\ ExchangeCancels => ExecInv'
<1> SUFFICES ASSUME ExecInv, ExchangeCancels PROVE ExecInv'
  OBVIOUS
<1>1. PICK r, e :
         /\ r \in Posted
         /\ book' = {o \in book : o.id # r.limit} /\ Answer(Error(e), NoTrade)
         /\ UNCHANGED <<engine, price, observed, acct, call, told, calls>>
  BY DEF ExchangeCancels
<1>2. /\ AnswerFits(Error(e)) /\ NoTrade = Trade(Error(e).shares, Error(e).cash)
      /\ Error(e).shares = 0 /\ Error(e).cash = 0
  BY AnswersFit DEF Error, NoTrade
<1>3. /\ acct' \in [shares : Int, unsettled : Int, cash : Int] /\ acct'.unsettled >= 0
      /\ acct'.shares = acct.shares + 0 /\ acct'.cash = acct.cash + 0 /\ book' \subseteq RestingOrders
  BY <1>1 DEF ExecInv, ExecTypes
<1>. QED BY <1>1, <1>2, <1>3, AnswerKeeps

LEMMA RefusesKeep == ExecInv /\ ExchangeRefuses => ExecInv'
<1> SUFFICES ASSUME ExecInv, ExchangeRefuses PROVE ExecInv'
  OBVIOUS
<1>1. PICK r, e :
         /\ r \in Posted
         /\ wire' = {Error(e)}
         /\ UNCHANGED <<engine, price, observed, acct, book, call, told, unheard, lost, calls>>
  BY DEF ExchangeRefuses
<1>2. AnswerFits(Error(e)) /\ Error(e).shares = 0 /\ Error(e).cash = 0
  BY AnswersFit DEF Error
<1>3. ExecTypes'
  BY <1>1 DEF ExecInv, ExecTypes
<1>4. /\ acct'.shares = told.shares + unheard'.shares + 0
      /\ acct'.cash = told.cash + unheard'.cash + 0
  <2>1. /\ told.shares + unheard.shares \in Int /\ told.cash + unheard.cash \in Int
    BY DEF ExecInv, ExecTypes, Amounts
  <2>. QED BY <1>1, <2>1, PostedIs
<1>. QED BY <1>1, <1>2, <1>3, <1>4, AnsweredKeeps

-----------------------------------------------------------------------------
(* The steps of the live engine, and those nobody hears of.                *)

LEMMA AnswerIs ==
    ASSUME ExecInv, NEW a \in Answers
    PROVE  /\ engine = "Real" /\ AnswerFits(a) /\ Answers = {a} /\ Posted = {}
           /\ \E c : call = {c} /\ CallFits(c)
           /\ acct.shares = told.shares + unheard.shares + a.shares
           /\ acct.cash = told.cash + unheard.cash + a.cash
<1>1. wire # Nothing
  BY OnTheWire
<1>2. engine = "Real"
  BY <1>1 DEF ExecInv, WireInv
<1>3. PICK c \in call : \/ wire = {Request(c)}
                        \/ \E x \in wire : wire = {x} /\ AnswerFits(x)
  BY <1>1 DEF ExecInv, WireInv
<1>4. PICK x \in wire : wire = {x} /\ AnswerFits(x)
  BY <1>3, OnTheWire
<1>5. Answers = {x} /\ x = a /\ Posted = {}
  BY <1>4, OnTheWire
<1>6. call = {c} /\ CallFits(c)
  BY <1>3 DEF ExecInv, CallInv, Nothing
<1>. QED BY <1>2, <1>4, <1>5, <1>6 DEF ExecInv, Agreed

(* A call that has come back has been accounted for.                       *)
LEMMA BackKeeps ==
    ASSUME ExecInv, engine = "Real", call' = Nothing, wire' = Nothing,
           UNCHANGED <<engine, price, observed, acct, book, calls>>,
           told' \in [shares : Int, cash : Int, resting : SUBSET RestingOrders],
           AtMostOne(told'.resting), unheard' \in Amounts,
           acct.shares = told'.shares + unheard'.shares,
           acct.cash = told'.cash + unheard'.cash
    PROVE  ExecInv'
<1>1. ExecTypes'
  BY DEF ExecInv, ExecTypes
<1>2. CallInv' /\ WireInv'
  BY DEF CallInv, WireInv
<1>3. Agreed'
  BY OnTheWireNext DEF Agreed
<1>4. Simulated'
  BY DEF Simulated
<1>. QED BY <1>1, <1>2, <1>3, <1>4 DEF ExecInv

LEMMA ReturnsKeep == ExecInv /\ Returns => ExecInv'
<1> SUFFICES ASSUME ExecInv, Returns PROVE ExecInv'
  OBVIOUS
<1>1. PICK c \in call, a \in Answers :
         /\ Tell(Reported(c, a), a.rests) /\ unheard' = Plus(unheard, Unsaid(c, a))
         /\ call' = Nothing /\ wire' = Nothing
         /\ UNCHANGED <<engine, price, observed, acct, book, lost, calls>>
  BY DEF Returns
<1>2. /\ engine = "Real" /\ AnswerFits(a) /\ CallFits(c)
      /\ acct.shares = told.shares + unheard.shares + a.shares
      /\ acct.cash = told.cash + unheard.cash + a.cash
  BY AnswerIs
<1>3. /\ a.shares \in Int /\ a.cash \in Int /\ (a.shares = 0 => a.cash = 0)
      /\ a.rests \subseteq RestingOrders /\ AtMostOne(a.rests)
      /\ c.shares \in Int /\ c.price \in Nat
  BY <1>2 DEF AnswerFits, CallFits
<1>4. /\ Reported(c, a).shares \in Int /\ Reported(c, a).cash \in Int
      /\ Unsaid(c, a).shares = a.shares - Reported(c, a).shares
      /\ Unsaid(c, a).cash = a.cash - Reported(c, a).cash
  <2>1. CASE a.shares = 0
    <3>1. Reported(c, a) = NoTrade /\ Unsaid(c, a) = NoTrade
      BY <2>1 DEF Reported, Unsaid
    <3>. QED BY <1>3, <2>1, <3>1 DEF NoTrade, Trade
  <2>2. CASE a.shares # 0 /\ c.op = "limit_buy"
    <3>1. MinGtc \in Nat /\ -MinGtc * c.price \in Int
      BY <1>3, UnitAssumption
    <3>. QED BY <1>3, <2>2, <3>1 DEF Reported, Unsaid, Minus, Trade
  <2>3. CASE a.shares # 0 /\ c.op = "limit_sell"
    <3>1. c.shares * c.price \in Int
      BY <1>3
    <3>. QED BY <1>3, <2>3, <3>1 DEF Reported, Unsaid, Minus, Trade
  <2>4. CASE a.shares # 0 /\ c.op \notin {"limit_buy", "limit_sell"}
    BY <1>3, <2>4 DEF Reported, Unsaid, NoTrade, Trade
  <2>. QED BY <2>1, <2>2, <2>3, <2>4
<1>5. /\ told.shares \in Int /\ told.cash \in Int /\ unheard.shares \in Int /\ unheard.cash \in Int
  BY DEF ExecInv, ExecTypes, Amounts
<1>6. /\ told' \in [shares : Int, cash : Int, resting : SUBSET RestingOrders]
      /\ told'.shares = told.shares + Reported(c, a).shares
      /\ told'.cash = told.cash + Reported(c, a).cash /\ told'.resting = a.rests
  BY <1>1, <1>3, <1>4, <1>5 DEF Tell
<1>7. /\ unheard' \in Amounts
      /\ unheard'.shares = unheard.shares + (a.shares - Reported(c, a).shares)
      /\ unheard'.cash = unheard.cash + (a.cash - Reported(c, a).cash)
  BY <1>1, <1>3, <1>4, <1>5 DEF Plus, Trade, Amounts
<1>8. /\ acct.shares = told'.shares + unheard'.shares
      /\ acct.cash = told'.cash + unheard'.cash
  BY <1>2, <1>3, <1>4, <1>5, <1>6, <1>7
<1>. QED BY <1>1, <1>2, <1>3, <1>6, <1>7, <1>8, BackKeeps

LEMMA GivesUpKeeps == ExecInv /\ GivesUp => ExecInv'
<1> SUFFICES ASSUME ExecInv, GivesUp PROVE ExecInv'
  OBVIOUS
<1>1. PICK a \in Answers :
         /\ a.err # "" /\ Tell(NoTrade, Nothing) /\ call' = Nothing /\ wire' = Nothing
         /\ UNCHANGED <<engine, price, observed, acct, book, unheard, lost, calls>>
  BY DEF GivesUp
<1>2. /\ engine = "Real" /\ a.shares = 0 /\ a.cash = 0
      /\ acct.shares = told.shares + unheard.shares + a.shares
      /\ acct.cash = told.cash + unheard.cash + a.cash
  BY <1>1, AnswerIs DEF AnswerFits
<1>3. /\ told.shares \in Int /\ told.cash \in Int /\ unheard \in Amounts
      /\ unheard.shares \in Int /\ unheard.cash \in Int
  BY DEF ExecInv, ExecTypes, Amounts
<1>4. /\ told' \in [shares : Int, cash : Int, resting : SUBSET RestingOrders]
      /\ told'.shares = told.shares /\ told'.cash = told.cash /\ AtMostOne(told'.resting)
  <2>1. told' = [shares |-> told.shares + 0, cash |-> told.cash + 0, resting |-> Nothing]
    BY <1>1 DEF Tell, NoTrade, Trade
  <2>2. Nothing \subseteq RestingOrders /\ AtMostOne(Nothing)
    BY DEF AtMostOne, Nothing
  <2>. QED BY <1>3, <2>1, <2>2
<1>5. /\ acct.shares = told'.shares + unheard'.shares
      /\ acct.cash = told'.cash + unheard'.cash
  <2>1. acct.shares = told.shares + unheard.shares /\ acct.cash = told.cash + unheard.cash
    BY <1>2, <1>3
  <2>. QED BY <1>1, <1>4, <2>1
<1>. QED BY <1>1, <1>2, <1>3, <1>4, <1>5, BackKeeps

LEMMA TriesAgainKeeps == ExecInv /\ TriesAgain => ExecInv'
<1> SUFFICES ASSUME ExecInv, TriesAgain PROVE ExecInv'
  OBVIOUS
<1>1. PICK c, a, again :
         /\ c \in call /\ a \in Answers
         /\ a.err # "" /\ again = [c EXCEPT !.attempt = NextAttempt(c)]
         /\ call' = {again} /\ wire' = {Request(again)}
         /\ UNCHANGED <<engine, price, observed, acct, book, told, unheard, lost, calls>>
  BY DEF TriesAgain
<1>2. /\ engine = "Real" /\ a.shares = 0 /\ a.cash = 0 /\ CallFits(c)
      /\ acct.shares = told.shares + unheard.shares + a.shares
      /\ acct.cash = told.cash + unheard.cash + a.cash
  BY <1>1, AnswerIs DEF AnswerFits
<1>3. CallFits(again)
  <2>1. c \in [op : Ops, shares : Int, price : Nat, attempt : Nat]
    BY <1>2 DEF CallFits
  <2>2. /\ again \in [op : Ops, shares : Int, price : Nat, attempt : Nat]
        /\ again.op = c.op /\ again.shares = c.shares /\ again.price = c.price
    <3>1. PICK n \in Nat : n = c.attempt + 1
      BY <2>1
    <3>2. again = [c EXCEPT !.attempt = n]
      BY <1>1, <3>1 DEF NextAttempt
    <3>. QED BY <2>1, <3>2
  <2>. QED BY <1>2, <2>2 DEF CallFits
<1>4. CallFits(again)'
  BY <1>1, <1>3 DEF CallFits
<1>5. CallInv' /\ WireInv'
  BY <1>1, <1>2, <1>4 DEF CallInv, WireInv
<1>6. ExecTypes' /\ Simulated'
  BY <1>1, <1>2 DEF ExecInv, ExecTypes, Simulated
<1>7. Agreed'
  <2>1. Answers' = {}
    BY <1>1, OnTheWireNext
  <2>2. /\ told.shares \in Int /\ unheard.shares \in Int
        /\ told.cash \in Int /\ unheard.cash \in Int
    BY DEF ExecInv, ExecTypes, Amounts
  <2>3. acct.shares = told.shares + unheard.shares /\ acct.cash = told.cash + unheard.cash
    BY <1>2, <2>2
  <2>. QED BY <1>1, <2>1, <2>3 DEF Agreed
<1>. QED BY <1>5, <1>6, <1>7 DEF ExecInv

LEMMA OutsideKeeps == ExecInv /\ (Settle \/ PriceMoves \/ RestingFill) => ExecInv'
<1> SUFFICES ASSUME ExecInv, Settle \/ PriceMoves \/ RestingFill PROVE ExecInv'
  OBVIOUS
<1>1. UNCHANGED <<engine, observed, call, wire, told, calls>>
  BY DEF Settle, PriceMoves, RestingFill
<1>2. CallInv' /\ WireInv'
  BY <1>1 DEF ExecInv, CallInv, CallFits, WireInv
<1>3. Answers' = Answers
  BY <1>1 DEF Answers
<1>4. acct \in [shares : Int, unsettled : Int, cash : Int] /\ acct.unsettled >= 0
  BY DEF ExecInv, ExecTypes
<1>5. CASE Settle
  <2>1. acct' = [acct EXCEPT !.unsettled = 0] /\ UNCHANGED <<price, book, unheard>>
    BY <1>5 DEF Settle
  <2>2. /\ acct' \in [shares : Int, unsettled : Int, cash : Int] /\ acct'.unsettled >= 0
        /\ acct'.shares = acct.shares /\ acct'.cash = acct.cash
    BY <1>4, <2>1
  <2>3. ExecTypes'
    BY <1>1, <2>1, <2>2 DEF ExecInv, ExecTypes
  <2>4. Agreed' /\ Simulated'
    BY <1>1, <1>3, <2>1, <2>2 DEF ExecInv, Agreed, Simulated, Covers
  <2>. QED BY <1>2, <2>3, <2>4 DEF ExecInv
<1>6. CASE PriceMoves
  <2>1. price' \in Prices /\ UNCHANGED <<acct, book, unheard>>
    BY <1>6 DEF PriceMoves
  <2>2. ExecTypes'
    BY <1>1, <2>1 DEF ExecInv, ExecTypes
  <2>3. Agreed' /\ Simulated'
    BY <1>1, <1>3, <2>1 DEF ExecInv, Agreed, Simulated, Covers
  <2>. QED BY <1>2, <2>2, <2>3 DEF ExecInv
<1>7. CASE RestingFill
  <2>1. PICK o, t : /\ o \in book
                    /\ t = IF o.side = "Buy" THEN Trade(o.shares, -o.shares * o.price)
                           ELSE Trade(-o.shares, o.shares * o.price)
                    /\ acct' = Moved(t) /\ unheard' = Plus(unheard, t) /\ book' = book \ {o}
                    /\ engine = "Real" /\ price' = price
    BY <1>7 DEF RestingFill
  <2>2. t.shares \in Int /\ t.cash \in Int
    <3>1. o.shares \in Int /\ o.price \in Int
      BY <2>1 DEF ExecInv, ExecTypes, RestingOrders
    <3>2. -o.shares * o.price \in Int /\ o.shares * o.price \in Int /\ -o.shares \in Int
      BY <3>1
    <3>. QED BY <2>1, <3>1, <3>2 DEF Trade
  <2>3. /\ acct' \in [shares : Int, unsettled : Int, cash : Int] /\ acct'.unsettled >= 0
        /\ acct'.shares = acct.shares + t.shares /\ acct'.cash = acct.cash + t.cash
    <3>1. PICK u \in Nat : u = IF t.shares > 0 THEN t.shares ELSE 0
      BY <2>2
    <3>2. acct' = [acct EXCEPT !.shares = @ + t.shares, !.cash = @ + t.cash, !.unsettled = @ + u]
      BY <2>1, <3>1 DEF Moved
    <3>3. acct' = [shares |-> acct.shares + t.shares, unsettled |-> acct.unsettled + u,
                   cash |-> acct.cash + t.cash]
      BY <1>4, <3>2
    <3>. QED BY <1>4, <2>2, <3>1, <3>3
  <2>4. /\ unheard \in Amounts /\ unheard.shares \in Int /\ unheard.cash \in Int
        /\ told.shares \in Int /\ told.cash \in Int
    BY DEF ExecInv, ExecTypes, Amounts
  <2>5. /\ unheard' \in Amounts
        /\ unheard'.shares = unheard.shares + t.shares /\ unheard'.cash = unheard.cash + t.cash
    BY <2>1, <2>2, <2>4 DEF Plus, Trade, Amounts
  <2>6. ExecTypes'
    BY <1>1, <2>1, <2>3, <2>5 DEF ExecInv, ExecTypes
  <2>7. Agreed'
    <3>1. CASE Answers = {}
      <4>1. acct.shares = told.shares + unheard.shares /\ acct.cash = told.cash + unheard.cash
        BY <2>1, <3>1 DEF ExecInv, Agreed
      <4>2. /\ acct'.shares = told'.shares + unheard'.shares
            /\ acct'.cash = told'.cash + unheard'.cash
        BY <1>1, <2>2, <2>3, <2>4, <2>5, <4>1
      <4>. QED BY <1>3, <3>1, <4>2 DEF Agreed
    <3>2. CASE Answers # {}
      <4> SUFFICES ASSUME NEW a \in Answers
                   PROVE  /\ acct'.shares = told'.shares + unheard'.shares + a.shares
                          /\ acct'.cash = told'.cash + unheard'.cash + a.cash
        BY <1>3, <3>2 DEF Agreed
      <4>1. /\ acct.shares = told.shares + unheard.shares + a.shares
            /\ acct.cash = told.cash + unheard.cash + a.cash
            /\ a.shares \in Int /\ a.cash \in Int
        BY AnswerIs DEF AnswerFits
      <4>. QED BY <1>1, <2>2, <2>3, <2>4, <2>5, <4>1
    <3>. QED BY <3>1, <3>2
  <2>8. Simulated'
    BY <1>1, <2>1 DEF Simulated
  <2>. QED BY <1>2, <2>6, <2>7, <2>8 DEF ExecInv
<1>. QED BY <1>5, <1>6, <1>7

-----------------------------------------------------------------------------
(* The engines without an exchange.                                        *)

LEMMA AtOnceKeeps ==
    ASSUME ExecInv, engine # "Real", NEW t, NEW x, AnswerAtOnce(t, x),
           t.shares \in Int, t.cash \in Int, x \subseteq RestingOrders, AtMostOne(x),
           book' \subseteq RestingOrders, told.shares + t.shares >= 0,
           engine = "Paper" => book' = x /\ \A o \in x :
               o.shares >= 0 /\ (o.side = "Sell" => o.shares <= told.shares + t.shares),
           engine = "Sim" => \E k \in Int : t.shares = Unit * k
    PROVE  ExecInv'
<1>1. /\ call' = Nothing /\ UNCHANGED <<engine, price, observed, acct, wire, unheard, calls>>
      /\ told' = [shares |-> told.shares + t.shares, cash |-> told.cash + t.cash, resting |-> x]
  BY DEF AnswerAtOnce, Tell
<1>2. told.shares \in Int /\ told.cash \in Int
  BY DEF ExecInv, ExecTypes
<1>3. /\ told' \in [shares : Int, cash : Int, resting : SUBSET RestingOrders]
      /\ told'.shares = told.shares + t.shares /\ told'.resting = x
  BY <1>1, <1>2
<1>4. ExecTypes'
  BY <1>1, <1>3 DEF ExecInv, ExecTypes
<1>5. CallInv' /\ WireInv'
  BY <1>1 DEF ExecInv, CallInv, WireInv
<1>6. Agreed'
  BY <1>1 DEF Agreed
<1>7. Simulated'
  <2>1. CASE engine = "Paper"
    BY <1>1, <1>3, <2>1 DEF Simulated, Covers
  <2>2. CASE engine = "Sim"
    <3>1. PICK k \in Int, j \in Int : told.shares = Unit * k /\ t.shares = Unit * j
      BY <2>2 DEF ExecInv, Simulated
    <3>2. told'.shares = Unit * (k + j) /\ k + j \in Int
      BY <1>3, <3>1, UnitAssumption
    <3>. QED BY <1>1, <1>3, <2>2, <3>2 DEF Simulated
  <2>. QED BY <1>1, <2>1, <2>2 DEF ExecInv, ExecTypes, Simulated
<1>. QED BY <1>4, <1>5, <1>6, <1>7 DEF ExecInv

LEMMA CallIs ==
    ASSUME ExecInv, NEW c \in call
    PROVE  /\ call = {c} /\ CallFits(c) /\ c.shares \in Int /\ c.price \in Nat
           /\ told.shares \in Int /\ (engine # "Real" => told.shares >= 0)
BY DEF ExecInv, CallInv, CallFits, ExecTypes, Simulated, Nothing

LEMMA NothingRests == AtMostOne(Nothing) /\ Nothing \subseteq RestingOrders
BY DEF AtMostOne, Nothing

LEMMA NewOrder ==
    ASSUME ExecInv, NEW side \in {"Buy", "Sell"}, NEW n \in Int, NEW at \in Nat
    PROVE  /\ Order(calls, side, n, at) \in RestingOrders
           /\ Order(calls, side, n, at).shares = n /\ Order(calls, side, n, at).side = side
BY DEF Order, RestingOrders, ExecInv, ExecTypes

LEMMA PlacesKeep == ExecInv /\ (PaperPlace \/ SimPlace) => ExecInv'
<1> SUFFICES ASSUME ExecInv, PaperPlace \/ SimPlace PROVE ExecInv'
  OBVIOUS
<1>1. PICK c, at :
         /\ c \in call /\ c.op = "place" /\ engine \in {"Paper", "Sim"} /\ book' = book
         /\ at \in Nat \ {0}
         /\ AnswerAtOnce(Trade(RoundedShares(at), -RoundedShares(at) * at), Nothing)
  <2>1. CASE PaperPlace
    <3>1. PICK c, seen, at :
             /\ c \in call /\ engine = "Paper" /\ c.op = "place" /\ book' = book
             /\ seen = IF observed = Nothing THEN {c.price} ELSE observed
             /\ at = CHOOSE p \in {Capped(s) : s \in seen} : TRUE
             /\ AnswerAtOnce(Trade(RoundedShares(at), -RoundedShares(at) * at), Nothing)
      BY <2>1 DEF PaperPlace
    <3>2. c.price \in Prices
      BY <3>1, CallIs DEF CallFits
    <3>3. \E p \in Prices : seen = {p}
      BY <3>1, <3>2 DEF ExecInv, ExecTypes
    <3>4. \E p \in Prices : at = Capped(p)
      BY <3>1, <3>3
    <3>. QED BY <3>1, <3>4, CappedType
  <2>2. CASE SimPlace
    <3>1. PICK c \in call :
             /\ engine = "Sim" /\ c.op = "place" /\ book' = book
             /\ AnswerAtOnce(Trade(RoundedShares(Capped(c.price)),
                                   -RoundedShares(Capped(c.price)) * Capped(c.price)), Nothing)
      BY <2>2 DEF SimPlace
    <3>2. c.price \in Prices
      BY <3>1, CallIs DEF CallFits
    <3>. QED BY <3>1, <3>2, CappedType
  <2>. QED BY <2>1, <2>2
<1> DEFINE t == Trade(RoundedShares(at), -RoundedShares(at) * at)
<1>2. PICK k \in Nat : RoundedShares(at) = Unit * k
  BY <1>1, BoughtAt
<1>3. Unit * k \in Nat /\ -(Unit * k) * at \in Int
  BY <1>1, UnitAssumption
<1>4. t.shares = Unit * k /\ t.shares \in Nat /\ t.cash \in Int
  BY <1>2, <1>3 DEF Trade
<1>5. told.shares \in Int /\ told.shares >= 0 /\ told.resting = Nothing
  BY <1>1, CallIs DEF CallFits
<1>6. engine = "Paper" => book' = Nothing
  BY <1>1, <1>5 DEF ExecInv, Simulated
<1>7. book' \subseteq RestingOrders /\ AnswerAtOnce(t, Nothing)
  BY <1>1 DEF ExecInv, ExecTypes
<1>. HIDE DEF t
<1>8. told.shares + t.shares >= 0 /\ t.shares \in Int
  BY <1>4, <1>5
<1>9. engine = "Paper" => book' = Nothing /\ \A o \in Nothing :
         o.shares >= 0 /\ (o.side = "Sell" => o.shares <= told.shares + t.shares)
  BY <1>6 DEF Nothing
<1>10. engine # "Real" /\ (engine = "Sim" => \E j \in Int : t.shares = Unit * j)
  BY <1>1, <1>4
<1>. QED BY <1>4, <1>7, <1>8, <1>9, <1>10, NothingRests, AtOnceKeeps

LEMMA OrdersRest == ExecInv /\ (PaperRest \/ SimRest) => ExecInv'
<1> SUFFICES ASSUME ExecInv, PaperRest \/ SimRest PROVE ExecInv'
  OBVIOUS
<1>1. NoTrade.shares = 0 /\ NoTrade.cash = 0 /\ 0 = Unit * 0
  BY UnitAssumption DEF NoTrade, Trade
<1>2. CASE PaperRest
  <2>1. PICK c, side, new :
           /\ c \in call /\ engine = "Paper" /\ c.op \in {"limit_buy", "limit_sell"}
           /\ side = IF c.op = "limit_buy" THEN "Buy" ELSE "Sell"
           /\ new = {o \in {Order(calls, side, floor2(c.shares), c.price)} : c.shares >= MinGtc}
           /\ book' = book \cup new /\ AnswerAtOnce(NoTrade, new)
    BY <1>2 DEF PaperRest
  <2>2. /\ CallFits(c) /\ c.shares \in Int /\ c.price \in Nat /\ told.resting = Nothing
        /\ told.shares \in Int /\ told.shares >= 0 /\ book = Nothing
        /\ c.op = "limit_sell" => c.shares = told.shares
    BY <2>1, CallIs DEF CallFits, Sells, ExecInv, Simulated
  <2>3. floor2(c.shares) \in Int /\ floor2(c.shares) <= c.shares
        /\ (c.shares >= 0 => floor2(c.shares) >= 0)
    BY <2>2, RoundedDown
  <2>4. PICK o \in RestingOrders :
           /\ o = Order(calls, side, floor2(c.shares), c.price)
           /\ o.shares = floor2(c.shares) /\ o.side = side
    BY <2>1, <2>2, <2>3, NewOrder
  <2>5. /\ new \subseteq {o} /\ (o \in new => c.shares >= MinGtc)
        /\ new \subseteq RestingOrders /\ AtMostOne(new) /\ book' = new
    BY <2>1, <2>2, <2>4 DEF AtMostOne, Nothing
  <2>6. \A x \in new : x.shares >= 0 /\ (x.side = "Sell" => x.shares <= told.shares + NoTrade.shares)
    BY <1>1, <2>1, <2>2, <2>3, <2>4, <2>5, UnitAssumption
  <2>7. told.shares + NoTrade.shares >= 0
    BY <1>1, <2>2
  <2>. QED BY <1>1, <2>1, <2>5, <2>6, <2>7, AtOnceKeeps
<1>3. CASE SimRest
  <2>1. PICK c, side :
           /\ c \in call /\ engine = "Sim" /\ c.op \in {"limit_buy", "limit_sell"}
           /\ side = IF c.op = "limit_buy" THEN "Buy" ELSE "Sell"
           /\ AnswerAtOnce(NoTrade, {Order(calls, side, c.shares, c.price)}) /\ book' = book
    BY <1>3 DEF SimRest
  <2>2. c.shares \in Int /\ c.price \in Nat /\ told.shares \in Int /\ told.shares >= 0
    BY <2>1, CallIs
  <2>3. {Order(calls, side, c.shares, c.price)} \subseteq RestingOrders
        /\ AtMostOne({Order(calls, side, c.shares, c.price)}) /\ book' \subseteq RestingOrders
    BY <2>1, <2>2, NewOrder DEF AtMostOne, ExecInv, ExecTypes
  <2>4. told.shares + NoTrade.shares >= 0 /\ engine # "Real" /\ engine # "Paper"
    BY <1>1, <2>1, <2>2
  <2>. QED BY <1>1, <2>1, <2>3, <2>4, AtOnceKeeps
<1>. QED BY <1>2, <1>3

(* A close at the market or better sells what has been told: on paper what *)
(* can be ordered of it, in a dry run the whole of it.                     *)
LEMMA ClosesKeep == ExecInv /\ (PaperClose \/ SimClose) => ExecInv'
<1> SUFFICES ASSUME ExecInv, PaperClose \/ SimClose PROVE ExecInv'
  OBVIOUS
<1>1. PICK c \in call : c.op \in {"close", "close_at_price"} /\ engine \in {"Paper", "Sim"}
                        /\ (PaperClose <=> engine = "Paper") /\ (SimClose <=> engine = "Sim")
  BY DEF PaperClose, SimClose
<1>2. /\ call = {c} /\ c.shares = told.shares /\ c.price \in Nat /\ told.resting = Nothing
      /\ told.shares \in Int /\ told.shares >= 0
  BY <1>1, CallIs DEF CallFits, Sells
<1>3. NoTrade.shares = 0 /\ NoTrade.cash = 0 /\ 0 = Unit * 0
  BY UnitAssumption DEF NoTrade, Trade
<1>4. CASE engine = "Paper"
  <2>1. book' = book /\ book = Nothing /\ book' \subseteq RestingOrders
    BY <1>1, <1>2, <1>4 DEF PaperClose, ExecInv, ExecTypes, Simulated
  <2>2. \A t : engine = "Paper" => book' = Nothing /\ \A o \in Nothing :
           o.shares >= 0 /\ (o.side = "Sell" => o.shares <= told.shares + t.shares)
    BY <2>1 DEF Nothing
  <2>3. PICK q : q = floor2(c.shares)
    OBVIOUS
  <2>4. q \in Int /\ q <= told.shares
    BY <1>2, <2>3, RoundedDown
  <2>5. \/ AnswerAtOnce(NoTrade, Nothing)
        \/ \E p \in observed : AnswerAtOnce(Trade(-q, q * p), Nothing)
    BY <1>1, <1>2, <1>4, <2>3 DEF PaperClose
  <2>6. CASE AnswerAtOnce(NoTrade, Nothing)
    <3>1. told.shares + NoTrade.shares >= 0 /\ NoTrade.shares \in Int /\ NoTrade.cash \in Int
      BY <1>2, <1>3
    <3>. QED BY <1>4, <2>1, <2>2, <2>6, <3>1, NothingRests, AtOnceKeeps
  <2>7. ASSUME NEW p \in observed, AnswerAtOnce(Trade(-q, q * p), Nothing) PROVE ExecInv'
    <3>1. p \in Nat
      BY PriceAssumption DEF ExecInv, ExecTypes, Nothing
    <3>2. q * p \in Int /\ -q \in Int /\ told.shares + -q >= 0
      BY <1>2, <2>4, <3>1
    <3>3. PICK t : t = Trade(-q, q * p)
      OBVIOUS
    <3>4. t.shares \in Int /\ t.cash \in Int /\ told.shares + t.shares >= 0
          /\ AnswerAtOnce(t, Nothing)
      BY <2>7, <3>2, <3>3 DEF Trade
    <3>. QED BY <1>4, <2>1, <2>2, <3>4, NothingRests, AtOnceKeeps
  <2>. QED BY <2>5, <2>6, <2>7
<1>5. CASE engine = "Sim"
  <2>1. book' \subseteq RestingOrders /\ engine # "Real" /\ engine # "Paper"
    BY <1>1, <1>5 DEF SimClose, ExecInv, ExecTypes
  <2>2. PICK k \in Int : told.shares = Unit * k
    BY <1>5 DEF ExecInv, Simulated
  <2>3. PICK sold : sold = round2(c.shares) /\ sold = told.shares
    BY <1>2, <2>2, WholeStays
  <2>4. \/ AnswerAtOnce(NoTrade, Nothing)
        \/ AnswerAtOnce(Trade(-sold, sold * c.price), Nothing)
    BY <1>1, <1>2, <1>5, <2>3 DEF SimClose
  <2>5. CASE AnswerAtOnce(NoTrade, Nothing)
    <3>1. told.shares + NoTrade.shares >= 0 /\ NoTrade.shares \in Int /\ NoTrade.cash \in Int
          /\ \E j \in Int : NoTrade.shares = Unit * j
      BY <1>2, <1>3
    <3>. QED BY <2>1, <2>5, <3>1, NothingRests, AtOnceKeeps
  <2>6. CASE AnswerAtOnce(Trade(-sold, sold * c.price), Nothing)
    <3>1. PICK t : t = Trade(-sold, sold * c.price)
      OBVIOUS
    <3>2. sold * c.price \in Int /\ -sold \in Int /\ told.shares + -sold >= 0
      BY <1>2, <2>3
    <3>3. t.shares \in Int /\ t.cash \in Int /\ told.shares + t.shares >= 0
          /\ AnswerAtOnce(t, Nothing) /\ t.shares = -sold
      BY <2>6, <3>1, <3>2 DEF Trade
    <3>4. -k \in Int /\ t.shares = Unit * (-k)
      BY <2>2, <2>3, <3>3, UnitAssumption
    <3>. QED BY <2>1, <3>3, <3>4, NothingRests, AtOnceKeeps
  <2>. QED BY <2>4, <2>5, <2>6
<1>. QED BY <1>1, <1>4, <1>5

LEMMA CancelsAtOnceKeep == ExecInv /\ (PaperCancel \/ SimCancel) => ExecInv'
<1> SUFFICES ASSUME ExecInv, PaperCancel \/ SimCancel PROVE ExecInv'
  OBVIOUS
<1>1. NoTrade.shares = 0 /\ NoTrade.cash = 0 /\ 0 = Unit * 0
  BY UnitAssumption DEF NoTrade, Trade
<1>2. PICK c \in call : c.op = "cancel" /\ engine \in {"Paper", "Sim"}
                        /\ AnswerAtOnce(NoTrade, Nothing)
                        /\ (engine = "Paper" => book' = {o \in book : o.id # c.price})
                        /\ (engine = "Sim" => book' = book)
  BY DEF PaperCancel, SimCancel
<1>3. told.shares + NoTrade.shares >= 0 /\ NoTrade.shares \in Int /\ NoTrade.cash \in Int
      /\ \E j \in Int : NoTrade.shares = Unit * j
  BY <1>1, <1>2, CallIs
<1>4. engine = "Paper" => book' = Nothing
  <2> SUFFICES ASSUME engine = "Paper" PROVE book' = Nothing
    OBVIOUS
  <2>1. PICK o \in told.resting : c.price = o.id
    BY <1>2, CallIs DEF CallFits
  <2>2. book = {o}
    BY <2>1 DEF ExecInv, ExecTypes, Simulated, AtMostOne, Nothing
  <2>. QED BY <1>2, <2>1, <2>2 DEF Nothing
<1>5. engine = "Paper" => book' = Nothing /\ \A o \in Nothing :
         o.shares >= 0 /\ (o.side = "Sell" => o.shares <= told.shares + NoTrade.shares)
  BY <1>4 DEF Nothing
<1>6. book' \subseteq RestingOrders
  BY <1>2 DEF ExecInv, ExecTypes
<1>. QED BY <1>1, <1>2, <1>3, <1>5, <1>6, NothingRests, AtOnceKeeps

(* A tick of the paper market fills what rests or leaves it: what is sold  *)
(* was held.                                                               *)
LEMMA PaperTickKeeps == ExecInv /\ PaperTick => ExecInv'
<1> SUFFICES ASSUME ExecInv, PaperTick PROVE ExecInv'
  OBVIOUS
<1>1. /\ engine = "Paper" /\ UNCHANGED <<engine, acct, call, wire, unheard, lost, calls>>
      /\ call = Nothing
  BY DEF PaperTick
<1>2. PICK p, filled, n, m :
         /\ p \in Prices /\ filled = TradedThrough(p)
         /\ price' = p /\ observed' = {p} /\ book' = book \ filled
         /\ n = MapThenSumSet(LAMBDA o : IF o.side = "Buy" THEN o.shares ELSE -o.shares, filled)
         /\ m = MapThenSumSet(LAMBDA o : IF o.side = "Buy" THEN -o.shares * o.price
                                        ELSE o.shares * o.price, filled)
         /\ told' = [told EXCEPT !.shares = @ + n, !.cash = @ + m, !.resting = @ \ filled]
  BY DEF PaperTick
<1>3. /\ told \in [shares : Int, cash : Int, resting : SUBSET RestingOrders] /\ told.shares >= 0
      /\ book = told.resting /\ AtMostOne(book) /\ book \subseteq RestingOrders /\ filled \subseteq book
      /\ \A o \in book : Covers(o)
  BY <1>1, <1>2 DEF ExecInv, ExecTypes, Simulated, TradedThrough
<1>4. n \in Int /\ m \in Int /\ (filled = {} => n = 0) /\ \A o : filled = {o} => n = Traded(o)
  <2>1. CASE filled = {}
    <3>1. [shares |-> 0, price |-> 0].shares \in Int /\ [shares |-> 0, price |-> 0].price \in Int
      OBVIOUS
    <3>2. n = 0 /\ m = 0
      BY <1>2, <2>1, <3>1, SumTraded, SumPaid
    <3>. QED BY <2>1, <3>2
  <2>2. CASE filled # {}
    <3>1. PICK o \in RestingOrders : filled = {o}
      BY <1>3, <2>2 DEF AtMostOne, Nothing
    <3>2. o.shares \in Int /\ o.price \in Int
      BY DEF RestingOrders
    <3>3. n = Traded(o) /\ m = Paid(o)
      BY <1>2, <2>2, <3>1, <3>2, SumTraded, SumPaid
    <3>4. Traded(o) \in Int /\ Paid(o) \in Int
      BY <3>2 DEF Traded, Paid
    <3>. QED BY <3>1, <3>3, <3>4
  <2>. QED BY <2>1, <2>2
<1>5. told' = [shares |-> told.shares + n, cash |-> told.cash + m, resting |-> told.resting \ filled]
  BY <1>2, <1>3
<1>6. /\ told' \in [shares : Int, cash : Int, resting : SUBSET RestingOrders]
      /\ told'.shares = told.shares + n /\ told'.resting = book' /\ AtMostOne(told'.resting)
  <2>1. told.resting \ filled \subseteq RestingOrders /\ told.resting \ filled = book'
    BY <1>2, <1>3
  <2>2. told.shares + n \in Int /\ told.cash + m \in Int
    BY <1>3, <1>4
  <2>3. AtMostOne(book \ filled)
    <3>1. CASE book = Nothing
      BY <3>1, NothingRests DEF Nothing
    <3>2. ASSUME NEW o, book = {o} PROVE AtMostOne(book \ filled)
      <4>1. book \ filled = {o} \/ book \ filled = Nothing
        BY <3>2 DEF Nothing
      <4>. QED BY <4>1 DEF AtMostOne
    <3>. QED BY <1>3, <3>1, <3>2 DEF AtMostOne
  <2>4. AtMostOne(book')
    BY <1>2, <2>3
  <2>. QED BY <1>5, <2>1, <2>2, <2>4
<1>7. ExecTypes'
  BY <1>1, <1>2, <1>3, <1>6 DEF ExecInv, ExecTypes
<1>8. CallInv' /\ WireInv'
  BY <1>1 DEF ExecInv, CallInv, WireInv, Nothing
<1>9. Agreed'
  BY <1>1 DEF Agreed
<1>10. told'.shares >= 0
  <2>1. CASE filled = {}
    BY <1>3, <1>4, <1>6, <2>1
  <2>2. CASE filled # {}
    <3>1. PICK o \in book : filled = {o}
      BY <1>3, <2>2 DEF AtMostOne, Nothing
    <3>2. Covers(o) /\ n = Traded(o) /\ o.shares \in Int
          /\ (o.side = "Buy" \/ o.side = "Sell")
      BY <1>3, <1>4, <3>1 DEF RestingOrders
    <3>. QED BY <1>3, <1>6, <3>2 DEF Covers, Traded
  <2>. QED BY <2>1, <2>2
<1>11. \A o \in book' : Covers(o)'
  <2> SUFFICES ASSUME NEW o \in book' PROVE Covers(o)'
    OBVIOUS
  <2>1. filled = {} /\ o \in book
    BY <1>2, <1>3 DEF AtMostOne, Nothing
  <2>. QED BY <1>3, <1>4, <1>6, <2>1 DEF Covers
<1>12. Simulated'
  BY <1>1, <1>6, <1>10, <1>11 DEF Simulated
<1>. QED BY <1>7, <1>8, <1>9, <1>12 DEF ExecInv

-----------------------------------------------------------------------------
LEMMA ExecInvInit == ExecInit => ExecInv
<1> SUFFICES ASSUME ExecInit PROVE ExecInv
  OBVIOUS
<1>1. ExecTypes
  BY NothingRests, EngineAssumption
     DEF ExecInit, ExecTypes, Amounts, NoTrade, Trade, Nothing
<1>2. CallInv /\ WireInv
  BY DEF ExecInit, CallInv, WireInv
<1>3. Answers = {}
  BY OnTheWire DEF ExecInit
<1>4. Agreed
  BY <1>3 DEF ExecInit, Agreed, NoTrade, Trade
<1>5. 0 = Unit * 0
  BY UnitAssumption
<1>6. Simulated
  BY <1>5 DEF ExecInit, Simulated, Nothing
<1>. QED BY <1>1, <1>2, <1>4, <1>6 DEF ExecInv

LEMMA ExecInvNext == ExecInv /\ [ExecNext]_execVars => ExecInv'
<1> SUFFICES ASSUME ExecInv, [ExecNext]_execVars PROVE ExecInv'
  OBVIOUS
<1>1. CASE SlotCalls
  BY <1>1, SlotCallsKeep
<1>2. CASE Exchange
  BY <1>2, FillsKeep, RestsKeep, RefusesKeep, CancelsKeep DEF Exchange
<1>3. CASE Engine
  BY <1>3, ReturnsKeep, GivesUpKeeps, TriesAgainKeeps DEF Engine
<1>4. CASE Paper \/ Sim
  BY <1>4, PlacesKeep, OrdersRest, ClosesKeep, CancelsAtOnceKeep DEF Paper, Sim
<1>5. CASE Settle \/ PriceMoves \/ RestingFill \/ PaperTick
  BY <1>5, OutsideKeeps, PaperTickKeeps
<1>6. CASE UNCHANGED execVars
  BY <1>6 DEF execVars, ExecInv, ExecTypes, CallInv, CallFits, WireInv, Agreed, Answers,
     Simulated, Covers
<1>. QED BY <1>1, <1>2, <1>3, <1>4, <1>5, <1>6 DEF ExecNext

(* The account is what the worker was told, will not hear and is about to  *)
(* be told, and every call and answer fits what the worker knows.          *)
THEOREM ExecInvariant == ExecSpec => []ExecInv
<1>. QED BY ExecInvInit, ExecInvNext, PTL DEF ExecSpec

(* What the worker has booked is what the account did, but for what it was *)
(* not told, whatever the sizes, prices and numbers of attempts are, and a *)
(* simulated engine sells only what it has bought.                         *)
THEOREM BooksAreRight == ExecSpec => []BooksAgree
<1>1. ExecInv => BooksAgree
  <2> SUFFICES ASSUME ExecInv PROVE BooksAgree
    OBVIOUS
  <2>1. engine # "Real" => told.shares >= 0
    BY DEF ExecInv, Simulated
  <2>2. ASSUME engine = "Real"
        PROVE  Trade(acct.shares, acct.cash)
                 = Plus(Plus(told, unheard),
                        Trade(MapThenSumSet(LAMBDA a : a.shares, Answers),
                              MapThenSumSet(LAMBDA a : a.cash, Answers)))
    <3>1. /\ told.shares \in Int /\ told.cash \in Int
          /\ unheard.shares \in Int /\ unheard.cash \in Int
      BY DEF ExecInv, ExecTypes, Amounts
    <3>2. CASE Answers = {}
      <4>1. [shares |-> 0, cash |-> 0].shares \in Int /\ [shares |-> 0, cash |-> 0].cash \in Int
        OBVIOUS
      <4>2. /\ MapThenSumSet(LAMBDA a : a.shares, Answers) = 0
            /\ MapThenSumSet(LAMBDA a : a.cash, Answers) = 0
        BY <3>2, <4>1, SumOfShares, SumOfCash
      <4>3. acct.shares = told.shares + unheard.shares /\ acct.cash = told.cash + unheard.cash
        BY <2>2, <3>2 DEF ExecInv, Agreed
      <4>. QED BY <3>1, <4>2, <4>3 DEF Plus, Trade
    <3>3. CASE Answers # {}
      <4>1. PICK a : a \in Answers
        BY <3>3
      <4>2. /\ Answers = {a} /\ a.shares \in Int /\ a.cash \in Int
            /\ acct.shares = told.shares + unheard.shares + a.shares
            /\ acct.cash = told.cash + unheard.cash + a.cash
        BY <4>1, AnswerIs DEF AnswerFits
      <4>3. /\ MapThenSumSet(LAMBDA x : x.shares, Answers) = a.shares
            /\ MapThenSumSet(LAMBDA x : x.cash, Answers) = a.cash
        BY <3>3, <4>2, SumOfShares, SumOfCash
      <4>. QED BY <3>1, <4>2, <4>3 DEF Plus, Trade
    <3>. QED BY <3>2, <3>3
  <2>. QED BY <2>1, <2>2 DEF BooksAgree
<1>. QED BY <1>1, ExecInvariant, PTL

-----------------------------------------------------------------------------
(* A sale for which nothing can be missing: all is settled, nothing rests, *)
(* and the worker holds no more than the account.                          *)
HasCause == acct.unsettled > 0 \/ book # {} \/ unheard.shares < 0
RefusalIsDue == \A a \in Answers' : a.err \in Unsettled /\ Posted # {} => HasCause

LEMMA UncoveredIsDue ==
    ASSUME ExecInv, NEW r \in Posted, r.op # "cancel", ~Covered(r)
    PROVE  HasCause
<1> SUFFICES ASSUME acct.unsettled <= 0, book = {}, unheard.shares >= 0 PROVE FALSE
  BY DEF HasCause, ExecInv, ExecTypes, Amounts
<1>1. PICK c : CallFits(c) /\ r = Request(c) /\ acct.shares = told.shares + unheard.shares
  BY PostedIs
<1>2. r.side = "Sell" /\ ~(r.size <= Available)
  BY DEF Covered
<1>3. c.op \in Sells /\ r.size <= c.shares /\ r.size \in Int
  BY <1>1, <1>2, Requested DEF Sells
<1>4. c.shares = told.shares /\ told.shares \in Int /\ unheard.shares \in Int
  BY <1>1, <1>3 DEF CallFits, ExecInv, ExecTypes, Amounts
<1>5. acct.unsettled = 0 /\ acct.shares \in Int
  BY DEF ExecInv, ExecTypes
<1>6. Locked = 0
  <2>1. {o \in book : o.side = "Sell"} = {}
    OBVIOUS
  <2>2. [shares |-> 0].shares \in Int
    OBVIOUS
  <2>3. \A S : S = {} => MapThenSumSet(LAMBDA o : o.shares, S) = 0
    BY <2>2, SumOfShares
  <2>. QED BY <2>1, <2>3 DEF Locked
<1>7. Available = acct.shares
  BY <1>5, <1>6 DEF Available
<1>. QED BY <1>1, <1>2, <1>3, <1>4, <1>7

LEMMA RefusalStep == ExecInv /\ ExecNext => RefusalIsDue
<1> SUFFICES ASSUME ExecInv, ExecNext, NEW a \in Answers', a.err \in Unsettled, NEW r \in Posted
             PROVE  HasCause
  BY DEF RefusalIsDue
<1>1. /\ engine = "Real" /\ Answers = {} /\ call # Nothing
      /\ wire = {r}
  BY PostedIs DEF Nothing
<1>2. a \in wire' /\ (wire' = wire => FALSE)
  BY <1>1 DEF Answers
<1>3. ~SlotCalls
  BY <1>1 DEF SlotCalls, PlaceEntry, RestExit, CloseNow, Cancel, Begin
<1>4. ~Engine
  BY <1>1 DEF Engine, Returns, GivesUp, TriesAgain
<1>5. ~Paper /\ ~Sim
  BY <1>1 DEF Paper, Sim, PaperPlace, PaperRest, PaperClose, PaperCancel,
     SimPlace, SimRest, SimClose, SimCancel
<1>6. ~Settle /\ ~PriceMoves /\ ~RestingFill /\ ~PaperTick
  BY <1>1, <1>2 DEF Settle, PriceMoves, RestingFill, PaperTick
<1>7. \A t : Fill(t).err \notin Unsettled /\ Taken(t).err \notin Unsettled
  BY DEF Fill, Taken, Unsettled
<1>8. \A e : Error(e).err = e
  BY DEF Error
<1>9. \A x, done : Answer(x, done) => a = x \/ a = Error("other")
  BY <1>2 DEF Answer
<1>10. ~ExchangeFills /\ ~ExchangeRests
  BY <1>7, <1>8, <1>9 DEF ExchangeFills, ExchangeRests, Unsettled
<1>11. ~ExchangeCancels
  BY <1>8, <1>9 DEF ExchangeCancels, Unsettled
<1>12. ExchangeRefuses
  BY <1>3, <1>4, <1>5, <1>6, <1>10, <1>11 DEF ExecNext, Exchange
<1>13. PICK s \in Posted :
          /\ s.op # "cancel"
          /\ \/ ~Covered(s)
             \/ wire' = {Error("no match")} \/ wire' = {Error("invalid")} \/ wire' = {Error("other")}
  BY <1>12 DEF ExchangeRefuses
<1>14. ~Covered(s)
  BY <1>2, <1>8, <1>13 DEF Unsettled
<1>. QED BY <1>13, <1>14, UncoveredIsDue

(* A sale is refused for want of balance only while an entry settles, an   *)
(* order that is not known of holds the shares or they were sold unheard:  *)
(* never because its size had been rounded above what is held.             *)
THEOREM RefusalsAreDue == ExecSpec => RefusalMeansUnsettled
<1>1. ExecInv /\ [ExecNext]_execVars => [RefusalIsDue]_execVars
  BY RefusalStep
<1>2. ExecSpec => [][RefusalIsDue]_execVars
  BY <1>1, ExecInvariant, PTL DEF ExecSpec
<1>. QED BY <1>2 DEF RefusalMeansUnsettled, RefusalIsDue, HasCause
=============================================================================
