--------------------------- MODULE QueryLambdaProofs ---------------------------
(***************************************************************************)
(* For every limit, page size and result: the answer of the query Lambda   *)
(* is true, and only the reading of a result can be killed.  IInv bounds   *)
(* the clock in each place of the handler.                                 *)
(***************************************************************************)
EXTENDS QueryLambda, TLAPS

(* The pages of a result follow one another without gap or overlap.        *)
LEMMA PagesFollow ==
  ASSUME NEW k \in Nat, size \in Nat, k * PageSize <= size
  PROVE  LET n == IF k = 0 THEN 0 ELSE k * PageSize - 1 IN
         /\ PageRows(k) = Items(n + 1, LastItem(k))
         /\ LastItem(k) \in Nat /\ n \in Nat /\ LastItem(k) >= n
         /\ IsLast(k) => LastItem(k) = size
         /\ ~IsLast(k) => /\ LastItem(k) = (k + 1) * PageSize - 1
                          /\ (k + 1) * PageSize <= size
<1> DEFINE p == k * PageSize
           q == (k + 1) * PageSize
<1>1. PageSize \in Nat \ {0}  BY QueryAssumption
<1>2. q = p + PageSize /\ p \in Nat  BY <1>1, SMT
<1>3. k # 0 => p >= 1  BY <1>1, SMT
<1>4. k = 0 => p = 0  BY <1>1, SMT
<1>5. PageRows(k) = Items(IF k = 0 THEN 1 ELSE p, LastItem(k))  BY DEF PageRows
<1>6. /\ LastItem(k) = IF IsLast(k) THEN size ELSE q - 1
      /\ IsLast(k) <=> size < q
      /\ p <= size
  BY DEF LastItem, IsLast
<1> HIDE DEF p, q
<1>7. /\ PageRows(k) = Items((IF k = 0 THEN 0 ELSE p - 1) + 1, LastItem(k))
      /\ LastItem(k) \in Nat /\ (IF k = 0 THEN 0 ELSE p - 1) \in Nat
      /\ LastItem(k) >= IF k = 0 THEN 0 ELSE p - 1
      /\ IsLast(k) => LastItem(k) = size
      /\ ~IsLast(k) => LastItem(k) = q - 1 /\ q <= size
  <2>1. CASE k = 0  BY <2>1, <1>1, <1>2, <1>4, <1>5, <1>6
  <2>2. CASE k # 0
    <3>1. p - 1 + 1 = p  BY <1>2
    <3>. QED  BY <2>2, <3>1, <1>1, <1>2, <1>3, <1>5, <1>6
  <2>. QED  BY <2>1, <2>2
<1>. QED  BY <1>7 DEF p, q

(* Counting up in two pieces is counting up.                               *)
LEMMA CountOn ==
  ASSUME NEW s \in Seq(Nat), NEW m \in Nat, NEW n \in Nat, n >= m,
         CountsTo(s, m)
  PROVE  s \o Items(m + 1, n) \in Seq(Nat) /\ CountsTo(s \o Items(m + 1, n), n)
<1>0. Len(s) = m /\ \A i \in 1 .. m : s[i] = i  BY DEF CountsTo
<1> DEFINE t == Items(m + 1, n)
<1>1. t = [i \in 1 .. n - m |-> m + i]  BY DEF Items
<1>2. t \in Seq(Nat) /\ Len(t) = n - m
  <2> DEFINE k == n - m
  <2>1. k \in Nat /\ \A i \in 1 .. k : m + i \in Nat  OBVIOUS
  <2>2. t = [i \in 1 .. k |-> m + i]  BY <1>1
  <2> HIDE DEF k, t
  <2>3. t \in Seq(Nat) /\ Len(t) = k  BY <2>1, <2>2
  <2>. QED  BY <2>3 DEF k
<1>3. \A i \in 1 .. n - m : t[i] = m + i  BY <1>1
<1> HIDE DEF t
<1>4. s \o t \in Seq(Nat) /\ Len(s \o t) = n  BY <1>0, <1>2
<1>5. \A i \in 1 .. n : (s \o t)[i] = IF i <= m THEN s[i] ELSE t[i - m]  BY <1>0, <1>2
<1> DEFINE u == s \o t
<1> HIDE DEF u
<1>6. ASSUME NEW i \in 1 .. n  PROVE u[i] = i
  <2>1. u[i] = IF i <= m THEN s[i] ELSE t[i - m]  BY <1>5 DEF u
  <2>2. i <= m => s[i] = i  BY <1>0
  <2>3. i > m => i - m \in 1 .. n - m /\ m + (i - m) = i  OBVIOUS
  <2>. QED  BY <2>1, <2>2, <2>3, <1>3
<1>. QED  BY <1>4, <1>6 DEF t, u, CountsTo

(* What reading a page does to a handler that has read the pages before.   *)
LEMMA NextPage ==
  ASSUME page \in Nat, size \in Nat, rows \in Seq(Nat), pc = "page", PageInv, PageReturn
  PROVE  /\ rows' \in Seq(Nat)
         /\ CountsTo(rows', LastItem(page))
         /\ IsLast(page) => LastItem(page) = size
         /\ ~IsLast(page) => /\ LastItem(page) = (page + 1) * PageSize - 1
                             /\ (page + 1) * PageSize <= size
<1> DEFINE n == IF page = 0 THEN 0 ELSE page * PageSize - 1
<1>1. page * PageSize <= size /\ CountsTo(rows, n)
  BY DEF PageInv
<1>2. /\ PageRows(page) = Items(n + 1, LastItem(page))
      /\ LastItem(page) \in Nat /\ n \in Nat /\ LastItem(page) >= n
      /\ IsLast(page) => LastItem(page) = size
      /\ ~IsLast(page) => /\ LastItem(page) = (page + 1) * PageSize - 1
                          /\ (page + 1) * PageSize <= size
  BY <1>1, PagesFollow
<1> HIDE DEF n
<1>3. rows' = rows \o Items(n + 1, LastItem(page))  BY <1>2 DEF PageReturn
<1>4. rows' \in Seq(Nat) /\ CountsTo(rows', LastItem(page))
  BY <1>1, <1>2, <1>3, CountOn
<1>. QED  BY <1>2, <1>4

LEMMA ResolvedTo ==
  Resolved(request) \in {0, Raised, 400, 500}
BY DEF Resolved, Raised

LEMMA Initially == Init => IInv
<1> USE QueryAssumption
<1>. SUFFICES ASSUME Init PROVE IInv  OBVIOUS
<1>1. TypeOK  BY DEF Init, TypeOK, InCall, Final
<1>2. PcInv /\ TimeInv /\ PageInv /\ AnswerTrue /\ KilledReading
  BY DEF Init, PcInv, TimeInv, PageInv, AnswerTrue, KilledReading, Final, Killed
<1>. QED  BY <1>1, <1>2 DEF IInv

LEMMA TypeStep == IInv /\ [Next]_vars => TypeOK'
<1> USE QueryAssumption, TimeoutAssumption
<1>. SUFFICES ASSUME IInv, [Next]_vars PROVE TypeOK'  OBVIOUS
<1> USE DEF IInv, TypeOK, InCall, Final, Goto, Answer, Raised, Killed
<1>1. CASE Resolve  BY <1>1, ResolvedTo DEF Resolve
<1>2. CASE StartReturn  BY <1>2 DEF StartReturn
<1>3. CASE StartFail  BY <1>3 DEF StartFail
<1>4. CASE Check  BY <1>4 DEF Check
<1>5. CASE PollReturn  BY <1>5 DEF PollReturn, PcInv
<1>6. CASE PollRaise  BY <1>6 DEF PollRaise
<1>7. CASE Wake  BY <1>7 DEF Wake
<1>8. CASE PageReturn
  <2>1. PageInv /\ pc = "page" /\ page \in Nat /\ size \in Nat  BY <1>8 DEF PageReturn
  <2>2. rows' \in Seq(Nat)  BY <1>8, <2>1, NextPage
  <2>3. ~IsLast(page) => page + 1 <= size
    <3>1. ~IsLast(page) => (page + 1) * PageSize <= size  BY <2>1 DEF IsLast
    <3>2. (page + 1) * PageSize >= page + 1  BY <2>1, SMT
    <3>. QED  BY <2>1, <3>1, <3>2
  <2>. QED  BY <1>8, <2>1, <2>2, <2>3 DEF PageReturn
<1>9. CASE PageFail  BY <1>9 DEF PageFail
<1>10. CASE AthenaStep  BY <1>10 DEF AthenaStep
<1>11. CASE Tick  BY <1>11 DEF Tick
<1>12. CASE Kill  BY <1>12 DEF Kill
<1>13. CASE UNCHANGED vars  BY <1>13 DEF vars
<1>. QED
  BY <1>1, <1>2, <1>3, <1>4, <1>5, <1>6, <1>7, <1>8, <1>9, <1>10, <1>11, <1>12, <1>13 DEF Next

LEMMA PcStep == IInv /\ [Next]_vars => PcInv'
<1>. SUFFICES ASSUME IInv, [Next]_vars PROVE PcInv'  OBVIOUS
<1> USE DEF IInv, TypeOK, PcInv, InCall, Final, Goto, Answer, Raised, Killed
<1>1. CASE Resolve  BY <1>1, ResolvedTo DEF Resolve
<1>2. CASE StartReturn \/ StartFail  BY <1>2 DEF StartReturn, StartFail
<1>3. CASE Check \/ Wake  BY <1>3 DEF Check, Wake
<1>4. CASE PollReturn \/ PollRaise  BY <1>4 DEF PollReturn, PollRaise
<1>5. CASE PageReturn \/ PageFail  BY <1>5 DEF PageReturn, PageFail
<1>6. CASE AthenaStep  BY <1>6 DEF AthenaStep
<1>7. CASE Tick \/ Kill  BY <1>7 DEF Tick, Kill
<1>8. CASE UNCHANGED vars  BY <1>8 DEF vars
<1>. QED  BY <1>1, <1>2, <1>3, <1>4, <1>5, <1>6, <1>7, <1>8 DEF Next

LEMMA TimeStep == IInv /\ [Next]_vars => TimeInv'
<1> USE QueryAssumption
<1>. SUFFICES ASSUME IInv, [Next]_vars PROVE TimeInv'  OBVIOUS
<1> USE DEF IInv, TypeOK, TimeInv, InCall, Goto, Answer
<1>1. CASE Resolve  BY <1>1 DEF Resolve
<1>2. CASE StartReturn \/ StartFail  BY <1>2 DEF StartReturn, StartFail
<1>3. CASE Check \/ Wake  BY <1>3 DEF Check, Wake
<1>4. CASE PollReturn \/ PollRaise
  <2>1. pc = "poll" => page = 0  BY DEF PcInv
  <2>2. 0 * CallTime = 0  OBVIOUS
  <2>. QED  BY <1>4, <2>1, <2>2 DEF PollReturn, PollRaise
<1>5. CASE PageReturn \/ PageFail
  <2>1. (page + 1) * CallTime = page * CallTime + CallTime /\ page * CallTime \in Nat
    BY SMT
  <2>2. CASE PageReturn /\ ~IsLast(page)
    <3>1. /\ page' = page + 1 /\ now' = now /\ deadline' = deadline /\ spent' = 0
          /\ pc = "page" /\ pc' = "page"
      BY <2>2 DEF PageReturn
    <3>2. page' * CallTime = page * CallTime + CallTime  BY <2>1, <3>1
    <3>. QED  BY <2>1, <3>1, <3>2
  <2>3. CASE (PageReturn /\ IsLast(page)) \/ PageFail  BY <2>3 DEF PageReturn, PageFail
  <2>. QED  BY <1>5, <2>2, <2>3
<1>6. CASE AthenaStep  BY <1>6 DEF AthenaStep
<1>7. CASE Tick
  <2>1. page * CallTime \in Nat  BY SMT
  <2>. QED  BY <1>7, <2>1 DEF Tick
<1>8. CASE Kill  BY <1>8 DEF Kill
<1>9. CASE UNCHANGED vars  BY <1>9 DEF vars
<1>. QED  BY <1>1, <1>2, <1>3, <1>4, <1>5, <1>6, <1>7, <1>8, <1>9 DEF Next

LEMMA PageStep == IInv /\ [Next]_vars => PageInv'
<1>. SUFFICES ASSUME IInv, [Next]_vars PROVE PageInv'  OBVIOUS
<1> USE DEF IInv, TypeOK, PageInv, InCall, Goto, Answer
<1>1. CASE PageReturn /\ ~IsLast(page)
  <2>1. /\ pc = "page" /\ page \in Nat /\ size \in Nat
        /\ page' = page + 1 /\ size' = size
    BY <1>1 DEF PageReturn
  <2>2. /\ (page + 1) * PageSize <= size
        /\ CountsTo(rows', (page + 1) * PageSize - 1)
    BY <1>1, <2>1, NextPage
  <2> HIDE DEF PageInv
  <2>. QED  BY <2>1, <2>2 DEF PageInv
<1>2. CASE PageReturn /\ IsLast(page)  BY <1>2 DEF PageReturn
<1>3. CASE PollReturn
  <2>1. pc = "poll" => page = 0 /\ rows = <<>>  BY DEF PcInv
  <2>2. 0 * PageSize = 0  BY QueryAssumption
  <2>3. CountsTo(<<>>, 0)  BY DEF CountsTo
  <2>4. pc' = "page" => page' = 0 /\ rows' = <<>> /\ size' \in Nat
    BY <1>3, <2>1 DEF PollReturn
  <2>. QED  BY <2>2, <2>3, <2>4
<1>4. CASE \/ Resolve \/ StartReturn \/ StartFail \/ Check \/ PollRaise \/ Wake
           \/ PageFail \/ Kill
  BY <1>4 DEF Resolve, StartReturn, StartFail, Check, PollRaise, Wake, PageFail, Kill
<1>5. CASE AthenaStep  BY <1>5 DEF AthenaStep, PcInv
<1>6. CASE Tick  BY <1>6 DEF Tick
<1>7. CASE UNCHANGED vars  BY <1>7 DEF vars
<1>. QED  BY <1>1, <1>2, <1>3, <1>4, <1>5, <1>6, <1>7 DEF Next

LEMMA AnswerStep == IInv /\ [Next]_vars => AnswerTrue'
<1> USE QueryAssumption
<1>. SUFFICES ASSUME IInv, [Next]_vars PROVE AnswerTrue'  OBVIOUS
<1> USE DEF IInv, TypeOK, AnswerTrue, PcInv, InCall, Final, Goto, Answer, Raised, Killed
<1>1. CASE Resolve
  <2>1. Resolved(request)' = Resolved(request)  BY <1>1 DEF Resolve, Resolved
  <2>. QED  BY <1>1, <2>1, ResolvedTo DEF Resolve
<1>2. CASE StartReturn \/ StartFail  BY <1>2 DEF StartReturn, StartFail
<1>3. CASE Check  BY <1>3 DEF Check, TimeInv
<1>4. CASE Wake  BY <1>4 DEF Wake
<1>5. CASE PollReturn \/ PollRaise  BY <1>5 DEF PollReturn, PollRaise
<1>6. CASE PageReturn /\ IsLast(page)
  <2>1. /\ pc = "page" /\ page \in Nat /\ size' = size /\ athena' = athena
        /\ answer' = 200 /\ athena = "SUCCEEDED"
    BY <1>6 DEF PageReturn
  <2>2. CountsTo(rows', size)  BY <1>6, <2>1, NextPage
  <2>. QED  BY <2>1, <2>2
<1>7. CASE PageReturn /\ ~IsLast(page)  BY <1>7 DEF PageReturn
<1>8. CASE PageFail \/ Kill  BY <1>8 DEF PageFail, Kill
<1>9. CASE AthenaStep
  <2>1. Resolved(request)' = Resolved(request)  BY <1>9 DEF AthenaStep, Resolved
  <2>. QED  BY <1>9, <2>1 DEF AthenaStep
<1>10. CASE Tick  BY <1>10 DEF Tick
<1>11. CASE UNCHANGED vars
  <2>1. Resolved(request)' = Resolved(request)  BY <1>11 DEF vars, Resolved
  <2>. QED  BY <1>11, <2>1 DEF vars
<1>. QED
  BY <1>1, <1>2, <1>3, <1>4, <1>5, <1>6, <1>7, <1>8, <1>9, <1>10, <1>11 DEF Next

LEMMA KilledStep == IInv /\ [Next]_vars => KilledReading'
<1> USE QueryAssumption, TimeoutAssumption
<1>. SUFFICES ASSUME IInv, [Next]_vars PROVE KilledReading'  OBVIOUS
<1> USE DEF IInv, TypeOK, KilledReading, InCall, Final, Goto, Answer, Raised, Killed
<1>1. CASE Kill
  <2>1. pc = "page"  BY <1>1 DEF Kill, TimeInv
  <2>2. (page + 1) * CallTime = page * CallTime + CallTime /\ page * CallTime \in Nat
    BY SMT
  <2>. QED  BY <1>1, <2>1, <2>2 DEF Kill, TimeInv, PcInv
<1>2. CASE Resolve  BY <1>2, ResolvedTo DEF Resolve
<1>3. CASE \/ StartReturn \/ StartFail \/ Check \/ PollReturn \/ PollRaise \/ Wake
           \/ PageReturn \/ PageFail
  BY <1>3 DEF StartReturn, StartFail, Check, PollReturn, PollRaise, Wake, PageReturn,
              PageFail, PcInv
<1>4. CASE AthenaStep  BY <1>4 DEF AthenaStep
<1>5. CASE Tick  BY <1>5 DEF Tick, PcInv
<1>6. CASE UNCHANGED vars  BY <1>6 DEF vars
<1>. QED  BY <1>1, <1>2, <1>3, <1>4, <1>5, <1>6 DEF Next

LEMMA Inductive == Spec => []IInv
<1>1. IInv /\ [Next]_vars => IInv'
  BY TypeStep, PcStep, TimeStep, PageStep, AnswerStep, KilledStep DEF IInv
<1>. QED  BY <1>1, Initially, PTL DEF Spec

(* The variables of the handler, the query and the clock keep their types. *)
THEOREM TypeCorrect == Spec => []TypeOK
<1>1. IInv => TypeOK  BY DEF IInv
<1>. QED  BY <1>1, Inductive, PTL

(* handler.py:124-170: the status code and the rows say what happened.     *)
THEOREM AnswersTruly == Spec => []AnswerTrue
<1>1. IInv => AnswerTrue  BY DEF IInv
<1>. QED  BY <1>1, Inductive, PTL

(* handler.py:126-143 under the timeout of main.tf:156: an invocation is   *)
(* killed for nothing but the pages of a result.                           *)
THEOREM KilledOnlyReading == Spec => []KilledReading
<1>1. IInv => KilledReading  BY DEF IInv
<1>. QED  BY <1>1, Inductive, PTL
=============================================================================
