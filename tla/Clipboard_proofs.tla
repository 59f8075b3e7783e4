---------------------------- MODULE Clipboard_proofs ----------------------------
(***************************************************************************)
(* The copy buttons, for every page, every number of copies and every order*)
(* in which the browser answers.                                           *)
(***************************************************************************)
EXTENDS Clipboard, TLAPS

\* A copy that fell back owes nothing any more: what makes CopiedOnce inductive.
FallenAreOver == \A m \in DOMAIN fellBack : write[fellBack[m]] \in {"none", "over"}

CopyInv == TypeOK /\ FallenAreOver

\* What falls back is the copy, once, at the end of the history.
LEMMA FallBackType ==
  ASSUME TypeOK, NEW i \in 1..Len(copies'), FallBack(i), Len(copies') \in Nat,
         Len(copies) <= Len(copies')
  PROVE  /\ todo' \in Seq(1..Len(copies')) /\ fellBack' \in Seq(1..Len(copies'))
         /\ \A m \in DOMAIN fellBack' : \/ m \in DOMAIN fellBack /\ fellBack'[m] = fellBack[m]
                                        \/ fellBack'[m] = i
<1>1. fellBack \in Seq(1..Len(copies')) /\ Len(copies) \in Nat
  BY DEF TypeOK
<1> QED BY <1>1 DEF FallBack

LEMMA CopyKeeps == ASSUME CopyInv, NEW t \in Texts, Copy(t) PROVE CopyInv'
<1> DEFINE n == Len(copies) + 1
           w == IF secure THEN "asked" ELSE "none"
<1>1. /\ copies \in Seq(Texts) /\ Len(copies) \in Nat
      /\ write \in [1..Len(copies) -> {"none", "asked", "written", "refused", "over"}]
  BY DEF CopyInv, TypeOK
<1>2. copies' \in Seq(Texts) /\ Len(copies') = n
  BY <1>1 DEF Copy
<1>3. write \in Seq({"none", "asked", "written", "refused", "over"}) /\ Len(write) = Len(copies)
  BY <1>1
<1>4. write' = Append(write, w)
  BY DEF Copy, CopyToClipboard
<1>5. write' \in Seq({"none", "asked", "written", "refused", "over"}) /\ Len(write') = n
  BY <1>1, <1>3, <1>4
<1>6. /\ write' \in [1..n -> {"none", "asked", "written", "refused", "over"}]
      /\ \A i \in 1..Len(copies) : write'[i] = write[i]
      /\ ~ secure => write'[n] = "none"
  <2>1. Len(write) + 1 = n /\ n \in 1..n /\ 1..Len(write) = 1..Len(copies)
    BY <1>1, <1>3
  <2>2. write'[n] = w
    BY <1>3, <1>4, <2>1
  <2>3. \A i \in 1..Len(copies) : write'[i] = write[i]
    BY <1>3, <1>4, <2>1
  <2>4. write' \in [1..n -> {"none", "asked", "written", "refused", "over"}]
    BY <1>1, <1>5
  <2> QED BY <2>2, <2>3, <2>4
<1>7. inputs' \subseteq 1..Len(copies') /\ clipboard' \in [copy : 0..Len(copies'), whole : BOOLEAN]
  BY <1>1, <1>2 DEF Copy, CopyInv, TypeOK
<1>8. secure' = secure /\ secure \in BOOLEAN
  BY DEF Copy, CopyInv, TypeOK
<1>9. \A m \in DOMAIN fellBack : fellBack[m] \in 1..Len(copies)
  BY DEF CopyInv, TypeOK
<1>10. CASE secure
  <2>1. UNCHANGED <<todo, fellBack>>
    BY <1>10 DEF Copy, CopyToClipboard
  <2>2. todo' \in Seq(1..Len(copies')) /\ fellBack' \in Seq(1..Len(copies'))
    BY <1>1, <1>2, <2>1 DEF CopyInv, TypeOK
  <2> QED BY <1>2, <1>6, <1>7, <1>8, <1>9, <2>1, <2>2 DEF CopyInv, TypeOK, FallenAreOver
<1>11. CASE ~ secure
  <2>1. FallBack(n)
    BY <1>2, <1>11 DEF Copy, CopyToClipboard
  <2>2. n \in 1..Len(copies') /\ Len(copies') \in Nat /\ Len(copies) <= Len(copies')
    BY <1>1, <1>2
  <2>3. /\ todo' \in Seq(1..Len(copies')) /\ fellBack' \in Seq(1..Len(copies'))
        /\ \A m \in DOMAIN fellBack' : \/ m \in DOMAIN fellBack /\ fellBack'[m] = fellBack[m]
                                       \/ fellBack'[m] = n
    BY <2>1, <2>2, FallBackType DEF CopyInv
  <2> QED BY <1>2, <1>6, <1>7, <1>8, <1>9, <1>11, <2>3 DEF CopyInv, TypeOK, FallenAreOver
<1> QED BY <1>8, <1>10, <1>11

LEMMA SettledKeeps == ASSUME CopyInv, NEW i \in DOMAIN write, Settled(i) PROVE CopyInv'
<1>1. i \in 1..Len(copies) /\ Len(copies) \in Nat /\ copies' = copies
  BY DEF Settled, CopyInv, TypeOK
<1>2. /\ write' \in [1..Len(copies) -> {"none", "asked", "written", "refused", "over"}]
      /\ write'[i] = "over" /\ \A j \in 1..Len(copies) : j # i => write'[j] = write[j]
  BY <1>1 DEF Settled, CopyInv, TypeOK
<1>3. \A m \in DOMAIN fellBack : fellBack[m] \in 1..Len(copies)
  BY DEF CopyInv, TypeOK
<1>4. CASE FallBack(i)
  <2>1. /\ todo' \in Seq(1..Len(copies')) /\ fellBack' \in Seq(1..Len(copies'))
        /\ \A m \in DOMAIN fellBack' : \/ m \in DOMAIN fellBack /\ fellBack'[m] = fellBack[m]
                                       \/ fellBack'[m] = i
    BY <1>1, <1>4, FallBackType DEF CopyInv
  <2> QED BY <1>1, <1>2, <1>3, <2>1 DEF Settled, CopyInv, TypeOK, FallenAreOver
<1>5. CASE UNCHANGED <<todo, fellBack>>
  BY <1>1, <1>2, <1>3, <1>5 DEF Settled, CopyInv, TypeOK, FallenAreOver
<1> QED BY <1>4, <1>5 DEF Settled

LEMMA BrowserKeeps ==
  ASSUME CopyInv, NEW i \in DOMAIN write, BrowserWrites(i) \/ BrowserRefuses(i) PROVE CopyInv'
<1>1. /\ write \in [1..Len(copies) -> {"none", "asked", "written", "refused", "over"}]
      /\ i \in 1..Len(copies) /\ Len(copies) \in Nat /\ fellBack \in Seq(1..Len(copies))
  BY DEF CopyInv, TypeOK
<1>2. /\ UNCHANGED <<secure, copies, todo, inputs, fellBack>> /\ write[i] = "asked"
      /\ write' = [write EXCEPT ![i] = "written"] \/ write' = [write EXCEPT ![i] = "refused"]
      /\ clipboard' = [copy |-> i, whole |-> TRUE] \/ clipboard' = clipboard
  BY DEF BrowserWrites, BrowserRefuses
<1>3. /\ write' \in [1..Len(copies) -> {"none", "asked", "written", "refused", "over"}]
      /\ \A j \in 1..Len(copies) : j # i => write'[j] = write[j]
  BY <1>1, <1>2
<1>4. \A m \in DOMAIN fellBack : fellBack[m] \in 1..Len(copies) /\ fellBack[m] # i
  <2>1. \A m \in DOMAIN fellBack : write[fellBack[m]] # "asked"
    BY DEF CopyInv, FallenAreOver
  <2> QED BY <1>1, <1>2, <2>1
<1>5. clipboard' \in [copy : 0..Len(copies), whole : BOOLEAN]
  <2>1. [copy |-> i, whole |-> TRUE] \in [copy : 0..Len(copies), whole : BOOLEAN]
    BY <1>1
  <2> QED BY <1>2, <2>1 DEF CopyInv, TypeOK
<1> QED BY <1>2, <1>3, <1>4, <1>5 DEF CopyInv, TypeOK, FallenAreOver

LEMMA FallbackRuns == ASSUME CopyInv, InsertInput \/ ExecCopy PROVE CopyInv'
<1>1. todo # <<>> /\ todo \in Seq(1..Len(copies)) /\ Len(copies) \in Nat
  BY DEF InsertInput, ExecCopy, CopyInv, TypeOK
<1>2. Head(todo) \in 1..Len(copies)
  BY <1>1
<1>3. CASE InsertInput
  BY <1>2, <1>3 DEF InsertInput, CopyInv, TypeOK, FallenAreOver
<1>4. CASE ExecCopy
  <2>1. clipboard' \in [copy : 0..Len(copies), whole : BOOLEAN]
    <3>1. \A b \in BOOLEAN : [copy |-> Head(todo), whole |-> b] \in [copy : 0..Len(copies), whole : BOOLEAN]
      BY <1>1, <1>2
    <3>2. (copies[Head(todo)] \in Fits) \in BOOLEAN
      OBVIOUS
    <3> QED BY <1>4, <3>1, <3>2 DEF ExecCopy, CopyInv, TypeOK
  <2>2. todo' \in Seq(1..Len(copies)) /\ inputs' \subseteq 1..Len(copies)
    BY <1>4 DEF ExecCopy
  <2> QED BY <1>4, <2>1, <2>2 DEF ExecCopy, CopyInv, TypeOK, FallenAreOver
<1> QED BY <1>3, <1>4

LEMMA StepKeeps == CopyInv /\ [Next]_vars => CopyInv'
<1> SUFFICES ASSUME CopyInv, [Next]_vars PROVE CopyInv'
  OBVIOUS
<1>1. CASE UNCHANGED vars
  BY <1>1 DEF vars, CopyInv, TypeOK, FallenAreOver
<1> QED BY <1>1, CopyKeeps, SettledKeeps, BrowserKeeps, FallbackRuns DEF Next, Script, Browser

\* Only a press without the API and a refusal fall back, and each of them is new.
LEMMA FallsBackOnce ==
  ASSUME CopyInv, [Next]_vars, NEW i \in DOMAIN copies', fellBack' = Append(fellBack, i)
  PROVE  /\ \A m \in DOMAIN fellBack : fellBack[m] # i
         /\ i \in DOMAIN write => write[i] # "written"
<1>1. /\ fellBack \in Seq(1..Len(copies)) /\ Len(copies) \in Nat
      /\ \A m \in DOMAIN fellBack : fellBack[m] \in 1..Len(copies)
      /\ DOMAIN write = 1..Len(copies)
  BY DEF CopyInv, TypeOK
<1>2. fellBack' # fellBack
  <2>1. Len(Append(fellBack, i)) = Len(fellBack) + 1 /\ Len(fellBack) \in Nat
    BY <1>1
  <2> QED BY <2>1
<1>3. ASSUME NEW j, FallBack(j) PROVE j = i
  <2>1. Append(fellBack, j) = Append(fellBack, i)
    BY <1>3 DEF FallBack
  <2>2. Append(fellBack, j)[Len(fellBack) + 1] = j /\ Append(fellBack, i)[Len(fellBack) + 1] = i
    BY <1>1
  <2> QED BY <2>1, <2>2
<1>4. CASE \E t \in Texts : Copy(t)
  <2>1. PICK t \in Texts : Copy(t)
    BY <1>4
  <2>2. Len(copies') = Len(copies) + 1
    BY <2>1 DEF Copy, CopyInv, TypeOK
  <2>3. FallBack(Len(copies'))
    BY <1>2, <2>1 DEF Copy, CopyToClipboard
  <2>4. i = Len(copies) + 1
    BY <1>3, <2>2, <2>3
  <2> QED BY <1>1, <2>4
<1>5. CASE \E j \in DOMAIN write : Settled(j)
  <2>1. PICK j \in DOMAIN write : Settled(j)
    BY <1>5
  <2>2. FallBack(j) /\ write[j] = "refused"
    BY <1>2, <2>1 DEF Settled
  <2>3. j = i
    BY <1>3, <2>2
  <2> QED BY <2>2, <2>3 DEF CopyInv, FallenAreOver
<1>6. CASE InsertInput \/ ExecCopy \/ Browser \/ UNCHANGED vars
  BY <1>2, <1>6 DEF InsertInput, ExecCopy, Browser, BrowserWrites, BrowserRefuses, vars
<1> QED BY <1>4, <1>5, <1>6 DEF Next, Script

\* The history of the page keeps its types, and what fell back is over.
THEOREM CopyInvariance == Spec => []CopyInv
<1>1. Init => CopyInv
  <2> SUFFICES ASSUME Init PROVE CopyInv
    OBVIOUS
  <2> QED BY DEF Init, Nothing, CopyInv, TypeOK, FallenAreOver
<1> QED BY <1>1, StepKeeps, PTL DEF Spec

\* A promise and an <input> belong to a copy the reader asked for, in every state.
THEOREM CopyTypeCorrect == Spec => []TypeOK
<1>1. CopyInv => TypeOK
  BY DEF CopyInv
<1> QED BY <1>1, CopyInvariance, PTL

\* A copy falls back at most once and never after the browser has written it, however
\* late and in whatever order the browser answers (clipboard.js, copyToClipboard).
THEOREM AlwaysCopiedOnce == Spec => CopiedOnce
<1>1. CopyInv /\ [Next]_vars =>
        [\A i \in DOMAIN copies' : fellBack' = Append(fellBack, i) =>
           /\ \A m \in DOMAIN fellBack : fellBack[m] # i
           /\ i \in DOMAIN write => write[i] # "written"]_vars
  BY FallsBackOnce
<1> QED BY <1>1, CopyInvariance, PTL DEF Spec, CopiedOnce
=============================================================================
