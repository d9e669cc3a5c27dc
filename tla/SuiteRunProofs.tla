---------------------------- MODULE SuiteRunProofs ----------------------------
(***************************************************************************)
(* For every catalog, every command line, every list of scales and seeds   *)
(* and any number of outages: what a command has to do, what it has        *)
(* reported so far, and what is left behind when it returns.               *)
(***************************************************************************)
EXTENDS SuiteRun, WellFoundedInduction, TLAPS

-----------------------------------------------------------------------------
(* The emulator is torn down                                                *)

\* A container is always somebody's to tear down.  While compose up is about to
\* run there is no container yet, but the teardown is already in place; and it is
\* only about to run inside ensure_ready, so that no other step drops it there.
TeardownInv ==
  /\ project # "Absent" => guarded \/ leaked
  /\ step = "Composed" => guarded /\ pc = "Ensuring"
  /\ pc = "Returned" => project = "Absent" \/ leaked

\* Dropping the teardown leaves no container, or a failed compose down.
LEMMA DropLeavesNothing ==
  ASSUME TeardownInv, DropTeardown
  PROVE  /\ project' = "Absent" \/ leaked'
         /\ guarded' = FALSE
BY DEF TeardownInv, DropTeardown, Outage

\* The container's own steps create none.
LEMMA ContainerStep ==
  ASSUME Container
  PROVE  /\ project # "Absent"
         /\ UNCHANGED <<step, guarded, leaked>>
BY DEF Container, Recovers, Fails, Running

\* ensure_ready keeps the invariant at each of its steps.
LEMMA EnsuringStep ==
  ASSUME TeardownInv, Ensuring, pc = "Ensuring", UNCHANGED pc
  PROVE  TeardownInv'
<1>1. CASE KeepRunning
  BY <1>1 DEF KeepRunning, TeardownInv
<1>2. CASE TakeDown
  BY <1>2, DropLeavesNothing DEF TakeDown, MarkUnhealthy, TeardownInv
<1>3. CASE ArmTeardown
  BY <1>3 DEF ArmTeardown, Refuse, Outage, TeardownInv
<1>4. CASE ComposeUp
  BY <1>4 DEF ComposeUp, UpSucceeds, UpFails, Refuse, Outage, TeardownInv
<1>5. CASE ResolvePorts
  BY <1>5 DEF ResolvePorts, Refuse, Outage, TeardownInv
<1>6. CASE Settle
  BY <1>6 DEF Settle, TeardownInv
<1>7. CASE StartupDeadline
  BY <1>7 DEF StartupDeadline, TeardownInv
<1>8. CASE Confirm
  BY <1>8 DEF Confirm, TeardownInv
<1> QED
  BY <1>1, <1>2, <1>3, <1>4, <1>5, <1>6, <1>7, <1>8 DEF Ensuring

\* Steps of the command that leave the emulator alone and do not return.
LEMMA OtherStep ==
  ASSUME TeardownInv, UNCHANGED emulatorVars, pc' # "Returned",
         pc = "Ensuring" => pc' = "Ensuring"
  PROVE  TeardownInv'
BY DEF TeardownInv, emulatorVars

LEMMA TeardownInit == Init => TeardownInv
BY DEF Init, EmulatorInit, TeardownInv

\* Every step of the command, of the container and of the file system.
LEMMA TeardownStep == TeardownInv /\ [Next]_vars => TeardownInv'
<1> SUFFICES ASSUME TeardownInv, [Next]_vars PROVE TeardownInv'
  OBVIOUS
<1>1. CASE SkipUnavailable
  BY <1>1, OtherStep DEF SkipUnavailable, Enter
<1>2. CASE RejectUnknown
  BY <1>2, OtherStep DEF RejectUnknown, ReturnError
<1>3. CASE CallEnsureReady
  BY <1>3 DEF CallEnsureReady, BeginEnsure, TeardownInv
<1>4. CASE StartWithoutEmulator
  BY <1>4, OtherStep DEF StartWithoutEmulator, Startable
<1>5. CASE Started
  BY <1>5 DEF Started, TeardownInv
<1>6. CASE ReportUnavailable
  <2>1. step' = "Idle" /\ pc' = "Select"
    BY <1>6 DEF ReportUnavailable, EnterUnavailable, Enter
  <2>2. \/ DropTeardown
        \/ UNCHANGED <<guarded, project, leaked>>
    BY <1>6 DEF ReportUnavailable, MarkUnhealthy
  <2> QED
    BY <2>1, <2>2, DropLeavesNothing DEF TeardownInv
<1>7. CASE UnavailableForUnknown
  BY <1>7 DEF UnavailableForUnknown, ReturnError, TeardownInv
<1>8. CASE ScenarioPasses
  BY <1>8, OtherStep DEF ScenarioPasses, Executing, EndsWith
<1>9. CASE ScenarioBreaks
  BY <1>9, OtherStep DEF ScenarioBreaks, Executing, EndsWith
<1>10. CASE ScenarioSkipped
  BY <1>10, OtherStep DEF ScenarioSkipped, Executing, EndsWith
<1>11. CASE ScenarioRefused
  <2>1. UNCHANGED emulatorVars /\ pc = "Executing" /\ pc' # "Returned"
    BY <1>11 DEF ScenarioRefused, Executing, RunnerError, ReturnError, emulatorVars
  <2> QED
    BY <2>1, OtherStep
<1>12. CASE RunnerFails
  BY <1>12 DEF RunnerFails, Executing, RunnerError, ReturnError, TeardownInv
<1>13. CASE EnterVerdict
  BY <1>13, OtherStep DEF EnterVerdict, Enter
<1>14. CASE MarkInfrastructureError
  BY <1>14, DropLeavesNothing
     DEF MarkInfrastructureError, MarkUnhealthy, Enter, TeardownInv
<1>15. CASE WriteManifest
  BY <1>15, OtherStep DEF WriteManifest
<1>16. CASE Return
  BY <1>16, DropLeavesNothing DEF Return, TeardownInv
<1>17. CASE pc = "Ensuring" /\ Ensuring /\ UNCHANGED suiteVars
  BY <1>17, EnsuringStep DEF suiteVars
<1>18. CASE WriteFails
  BY <1>18 DEF WriteFails, ReturnError, TeardownInv
<1>19. CASE Disturb
  BY <1>19, ContainerStep DEF Disturb, TeardownInv
<1>20. CASE UNCHANGED vars
  BY <1>20 DEF vars, suiteVars, emulatorVars, TeardownInv
<1> QED
  BY <1>1, <1>2, <1>3, <1>4, <1>5, <1>6, <1>7, <1>8, <1>9, <1>10, <1>11, <1>12,
     <1>13, <1>14, <1>15, <1>16, <1>17, <1>18, <1>19, <1>20 DEF Next, CommandStep

\* However a command ends, compose down was given the last word.
THEOREM NoLeakedProjectTheorem == Spec => []NoLeakedProject
<1>1. TeardownInv => NoLeakedProject
  BY DEF TeardownInv, NoLeakedProject
<1> QED
  BY <1>1, TeardownInit, TeardownStep, PTL DEF Spec
-----------------------------------------------------------------------------
(* Recursion along an interval of naturals                                  *)

LEMMA LeastNatural ==
  ASSUME NEW S, S \subseteq Nat, S # {}
  PROVE  \E x \in S : \A y \in S : x <= y
<1>1. PICK x \in S : \A y \in S : ~ (<<y, x>> \in OpToRel(<, Nat))
  BY NatLessThanWellFounded, WFMin
<1>2. \A y \in S : ~(y < x)
  BY <1>1 DEF OpToRel
<1>3. x \in Nat /\ \A y \in S : y \in Nat
  OBVIOUS
<1> QED
  BY <1>2, <1>3

LEMMA IntervalInduction ==
  ASSUME NEW n \in Nat, NEW S, 0 \in S, \A m \in 0..(n - 1) : m \in S => m + 1 \in S
  PROVE  \A m \in 0..n : m \in S
<1> DEFINE left == {m \in 0..n : m \notin S}
<1> SUFFICES ASSUME left # {} PROVE FALSE
  OBVIOUS
<1>0. left \subseteq Nat /\ left # {}
  OBVIOUS
<1>1. PICK x \in left : \A y \in left : x <= y
  <2> HIDE DEF left
  <2> QED
    BY <1>0, LeastNatural
<1>2. x # 0 /\ x \in 0..n
  BY <1>1
<1>3. x - 1 \in 0..(n - 1) /\ x - 1 \in 0..n /\ ~(x <= x - 1)
  BY <1>2
<1>4. x - 1 \in S
  BY <1>1, <1>3
<1>5. (x - 1) + 1 \in S
  BY <1>3, <1>4
<1>6. (x - 1) + 1 = x
  BY <1>2
<1> QED
  BY <1>1, <1>5, <1>6

\* c starts with a value, and each of n moves carries it on.
Carries(c, n, V, start, move) ==
  /\ c \in [0..n -> V]
  /\ c[0] = start
  /\ \A m \in 1..n : c[m] = move[m][c[m - 1]]

LEMMA CarriedThrough ==
  ASSUME NEW n \in Nat, NEW V, NEW start \in V, NEW move \in [1..n -> [V -> V]]
  PROVE  \E c : Carries(c, n, V, start, move)
<1> DEFINE Carried(k, c) == c[0] = start /\ \A m \in 1..k : c[m] = move[m][c[m - 1]]
           S == {k \in 0..n : \E c \in [0..k -> V] : Carried(k, c)}
<1>1. 0 \in S
  <2> DEFINE d == [m \in 0..0 |-> start]
  <2>1. d \in [0..0 -> V] /\ d[0] = start
    OBVIOUS
  <2>2. \A m \in 1..0 : FALSE
    OBVIOUS
  <2> HIDE DEF d
  <2>3. Carried(0, d)
    BY <2>1, <2>2
  <2> HIDE DEF Carried
  <2> QED
    BY <2>1, <2>3
<1>2. ASSUME NEW k \in 0..(n - 1), k \in S PROVE k + 1 \in S
  <2>1. PICK c \in [0..k -> V] : Carried(k, c)
    BY <1>2
  <2> DEFINE d == [m \in 0..(k + 1) |-> IF m = k + 1 THEN move[k + 1][c[k]] ELSE c[m]]
  <2>2. k + 1 \in 1..n /\ k \in 0..k /\ k \in Nat
    OBVIOUS
  <2>3. move[k + 1][c[k]] \in V
    BY <2>1, <2>2
  <2>4. d \in [0..(k + 1) -> V]
    <3>1. \A m \in 0..(k + 1) : m = k + 1 \/ m \in 0..k
      BY <2>2
    <3> QED
      BY <2>1, <2>3, <3>1
  <2>5. d[0] = start
    BY <2>1, <2>2
  <2>6. ASSUME NEW m \in 1..(k + 1) PROVE d[m] = move[m][d[m - 1]]
    <3>1. m - 1 \in 0..(k + 1) /\ m - 1 # k + 1 /\ m \in 0..(k + 1)
      BY <2>2
    <3>2. d[m - 1] = c[m - 1]
      BY <3>1
    <3>3. CASE m = k + 1
      <4>1. m - 1 = k /\ d[m] = move[k + 1][c[k]]
        BY <2>2, <3>1, <3>3
      <4> QED
        BY <3>2, <3>3, <4>1
    <3>4. CASE m # k + 1
      <4>1. m \in 1..k /\ d[m] = c[m]
        BY <2>2, <3>1, <3>4
      <4> QED
        BY <2>1, <3>2, <4>1
    <3> QED
      BY <3>3, <3>4
  <2> HIDE DEF d
  <2>7. Carried(k + 1, d) /\ k + 1 \in 0..n
    BY <2>2, <2>5, <2>6
  <2> QED
    BY <2>4, <2>7
<1>3. n \in S
  <2> HIDE DEF S
  <2>1. \A m \in 0..n : m \in S
    BY <1>1, <1>2, IntervalInduction
  <2>2. n \in 0..n
    OBVIOUS
  <2> QED
    BY <2>1, <2>2
<1> QED
  BY <1>3 DEF S, Carries

-----------------------------------------------------------------------------
(* What is kept of a sequence                                               *)

KeptUpTo(kept, seq, S) ==
  /\ kept[0] = <<>>
  /\ \A m \in 1..Len(seq) :
       kept[m] = IF seq[m] \in S THEN Append(kept[m - 1], seq[m]) ELSE kept[m - 1]

LEMMA KeptIsCarried ==
  ASSUME NEW T, NEW seq \in Seq(T), NEW S
  PROVE  \E kept \in [0..Len(seq) -> Seq(T)] :
           KeptUpTo(kept, seq, S) /\ Kept(seq, S) = kept[Len(seq)]
<1> DEFINE n == Len(seq)
           Is(d) == d = [m \in 0..n |->
             IF m = 0 THEN <<>>
             ELSE IF seq[m] \in S THEN Append(d[m - 1], seq[m]) ELSE d[m - 1]]
           move == [m \in 1..n |-> [s \in Seq(T) |->
                      IF seq[m] \in S THEN Append(s, seq[m]) ELSE s]]
           kept == CHOOSE d : Is(d)
<1>1. Kept(seq, S) = kept[n]
  BY DEF Kept
<1>2. n \in Nat /\ (\A m \in 1..n : m \in 0..n /\ m - 1 \in 0..n /\ m # 0) /\ 0 \in 0..n
  OBVIOUS
<1>3. move \in [1..n -> [Seq(T) -> Seq(T)]]
  <2>1. \A m \in 1..n : seq[m] \in T
    OBVIOUS
  <2>2. \A m \in 1..n : \A s \in Seq(T) : Append(s, seq[m]) \in Seq(T)
    BY <2>1
  <2> QED
    BY <2>2
<1>4. PICK c \in [0..n -> Seq(T)] :
         c[0] = <<>> /\ \A m \in 1..n : c[m] = move[m][c[m - 1]]
  <2> DEFINE V == Seq(T)
             none == <<>>
  <2>1. none \in V /\ move \in [1..n -> [V -> V]]
    BY <1>3
  <2> HIDE DEF move, n, V, none
  <2>2. n \in Nat
    BY <1>2
  <2>3. \E c : Carries(c, n, V, none, move)
    BY <2>1, <2>2, CarriedThrough
  <2> QED
    BY <2>3 DEF V, none, Carries
<1> HIDE DEF n
<1>5. \A m \in 1..n : c[m] = IF seq[m] \in S THEN Append(c[m - 1], seq[m]) ELSE c[m - 1]
  BY <1>2, <1>4
<1>6. Is(c)
  <2>1. \A m \in 0..n : m = 0 \/ m \in 1..n
    BY <1>2
  <2> QED
    BY <1>4, <1>5, <2>1
<1>7. Is(kept)
  <2> HIDE DEF Is
  <2> QED
    BY <1>6
<1> HIDE DEF kept
<1>8. DOMAIN kept = 0..n
  BY <1>7
<1>9. kept[0] = <<>> /\ \A m \in 1..n :
        kept[m] = IF seq[m] \in S THEN Append(kept[m - 1], seq[m]) ELSE kept[m - 1]
  <2>1. \A m \in 0..n : kept[m] =
          IF m = 0 THEN <<>>
          ELSE IF seq[m] \in S THEN Append(kept[m - 1], seq[m]) ELSE kept[m - 1]
    BY <1>7
  <2> QED
    BY <1>2, <2>1
<1>10. \A m \in 0..n : kept[m] \in Seq(T)
  <2> DEFINE U == {m \in 0..n : kept[m] \in Seq(T)}
  <2>1. 0 \in U
    <3>1. <<>> \in Seq(T)
      OBVIOUS
    <3> QED
      BY <1>2, <1>9, <3>1
  <2>2. ASSUME NEW m \in 0..(n - 1), m \in U PROVE m + 1 \in U
    <3>1. m + 1 \in 1..n /\ m + 1 \in 0..n /\ (m + 1) - 1 = m
      BY <1>2
    <3>2. kept[m + 1] = IF seq[m + 1] \in S THEN Append(kept[m], seq[m + 1]) ELSE kept[m]
      BY <1>9, <3>1
    <3>3. seq[m + 1] \in T
      BY <3>1 DEF n
    <3>4. kept[m + 1] \in Seq(T)
      <4>1. kept[m] \in Seq(T)
        BY <2>2
      <4>2. Append(kept[m], seq[m + 1]) \in Seq(T)
        BY <3>3, <4>1
      <4> QED
        BY <3>2, <4>1, <4>2
    <3> QED
      BY <3>1, <3>4
  <2> HIDE DEF U
  <2>3. \A m \in 0..n : m \in U
    BY <1>2, <2>1, <2>2, IntervalInduction
  <2> QED
    BY <2>3 DEF U
<1>11. kept \in [0..n -> Seq(T)]
  <2>1. kept = [m \in 0..n |-> kept[m]]
    BY <1>7
  <2> QED
    BY <1>10, <2>1
<1> QED
  BY <1>1, <1>9, <1>11 DEF KeptUpTo, n

\* s consists of some of the first n members of seq, in their order.
Picks(s, seq, n, at) ==
  /\ at \in [1..Len(s) -> 1..n]
  /\ \A i \in 1..Len(s) : s[i] = seq[at[i]]
  /\ \A i, j \in 1..Len(s) : i < j => at[i] < at[j]

LEMMA KeptPicks ==
  ASSUME NEW T, NEW seq \in Seq(T), NEW S
  PROVE  /\ Kept(seq, S) \in Seq(T)
         /\ \A i \in 1..Len(Kept(seq, S)) : Kept(seq, S)[i] \in S
         /\ \E at : Picks(Kept(seq, S), seq, Len(seq), at)
<1>1. PICK kept \in [0..Len(seq) -> Seq(T)] :
        KeptUpTo(kept, seq, S) /\ Kept(seq, S) = kept[Len(seq)]
  BY KeptIsCarried
<1> DEFINE n == Len(seq)
<1>2. n \in Nat /\ n \in 0..n /\ 0 \in 0..n
  OBVIOUS
<1> HIDE DEF n
<1> DEFINE Good(m) == /\ \A i \in 1..Len(kept[m]) : kept[m][i] \in S
                      /\ \E at : Picks(kept[m], seq, m, at)
           U == {m \in 0..n : Good(m)}
<1>3. 0 \in U
  <2>1. kept[0] = <<>>
    BY <1>1 DEF KeptUpTo
  <2>2. Len(kept[0]) = 0
    BY <2>1
  <2> DEFINE at == [i \in 1..0 |-> i]
  <2>3. (\A i \in 1..0 : FALSE) /\ at \in [1..0 -> 1..0]
    OBVIOUS
  <2> HIDE DEF at
  <2>4. Picks(kept[0], seq, 0, at)
    BY <2>2, <2>3 DEF Picks
  <2>5. Good(0)
    BY <2>2, <2>3, <2>4
  <2> QED
    BY <1>2, <2>5
<1>4. ASSUME NEW m \in 0..(n - 1), m \in U PROVE m + 1 \in U
  <2>1. m + 1 \in 1..n /\ m + 1 \in 0..n /\ (m + 1) - 1 = m /\ m \in 0..n /\ m \in Nat
    BY <1>2
  <2>2. kept[m + 1] = IF seq[m + 1] \in S THEN Append(kept[m], seq[m + 1]) ELSE kept[m]
    BY <1>1, <2>1 DEF KeptUpTo, n
  <2>3. PICK at : Picks(kept[m], seq, m, at)
    BY <1>4
  <2>4. \A i \in 1..Len(kept[m]) : kept[m][i] \in S
    BY <1>4
  <2>5. kept[m] \in Seq(T)
    BY <1>1, <2>1 DEF n
  <2>6. 1..m \subseteq 1..(m + 1) /\ m + 1 \in 1..(m + 1) /\ \A k \in 1..m : k < m + 1
    BY <2>1
  <2>7. CASE seq[m + 1] \notin S
    <3>1. kept[m + 1] = kept[m]
      BY <2>2, <2>7
    <3>2. Picks(kept[m], seq, m + 1, at)
      BY <2>3, <2>6 DEF Picks
    <3>3. Good(m + 1)
      BY <2>4, <3>1, <3>2
    <3> QED
      BY <2>1, <3>3
  <2>8. CASE seq[m + 1] \in S
    <3> DEFINE s == kept[m]
               x == seq[m + 1]
               l == Len(s)
    <3>1. x \in T
      BY <2>1 DEF n
    <3>2. /\ l \in Nat /\ Len(Append(s, x)) = l + 1
          /\ Append(s, x)[l + 1] = x
          /\ \A i \in 1..l : Append(s, x)[i] = s[i]
      BY <2>5, <3>1
    <3>3. \A i \in 1..(l + 1) : i \in 1..l \/ i = l + 1
      BY <3>2
    <3>4. l + 1 \in 1..(l + 1) /\ (\A i \in 1..l : i \in 1..(l + 1) /\ i # l + 1 /\ i < l + 1)
      BY <3>2
    <3>5. kept[m + 1] = Append(s, x)
      BY <2>2, <2>8
    <3> HIDE DEF s, l, x
    <3>6. \A i \in 1..(l + 1) : Append(s, x)[i] \in S
      BY <2>4, <2>8, <3>2, <3>3 DEF s, l, x
    <3> DEFINE to == [i \in 1..(l + 1) |-> IF i = l + 1 THEN m + 1 ELSE at[i]]
    <3>7. /\ to \in [1..(l + 1) -> 1..(m + 1)]
          /\ to[l + 1] = m + 1
          /\ \A i \in 1..l : to[i] = at[i] /\ at[i] \in 1..m
      <4>1. \A i \in 1..l : at[i] \in 1..m
        BY <2>3 DEF Picks, l, s
      <4> QED
        BY <2>6, <3>3, <3>4, <4>1
    <3> HIDE DEF to
    <3>8. \A i \in 1..(l + 1) : Append(s, x)[i] = seq[to[i]]
      <4>1. \A i \in 1..l : s[i] = seq[at[i]]
        BY <2>3 DEF Picks, l, s
      <4> QED
        BY <3>2, <3>3, <3>7, <4>1 DEF x
    <3>9. \A i, j \in 1..(l + 1) : i < j => to[i] < to[j]
      <4> SUFFICES ASSUME NEW i \in 1..(l + 1), NEW j \in 1..(l + 1), i < j
                   PROVE  to[i] < to[j]
        OBVIOUS
      <4>1. i \in 1..l
        BY <3>2
      <4>2. CASE j = l + 1
        BY <2>6, <3>7, <4>1, <4>2
      <4>3. CASE j # l + 1
        <5>1. j \in 1..l
          BY <3>3, <4>3
        <5>2. at[i] < at[j]
          BY <2>3, <4>1, <5>1 DEF Picks, l, s
        <5> QED
          BY <3>7, <4>1, <5>1, <5>2
      <4> QED
        BY <4>2, <4>3
    <3>10. Picks(Append(s, x), seq, m + 1, to)
      BY <3>2, <3>7, <3>8, <3>9 DEF Picks
    <3>11. Good(m + 1)
      BY <3>2, <3>5, <3>6, <3>10
    <3> QED
      BY <2>1, <3>11
  <2> QED
    BY <2>7, <2>8
<1>5. n \in U
  <2> HIDE DEF U
  <2>1. \A m \in 0..n : m \in U
    BY <1>2, <1>3, <1>4, IntervalInduction
  <2> QED
    BY <1>2, <2>1
<1>6. kept[n] \in Seq(T) /\ kept[n] = Kept(seq, S)
  BY <1>1, <1>2 DEF n
<1> QED
  BY <1>5, <1>6 DEF n

-----------------------------------------------------------------------------
(* Sequences laid end to end                                                *)

\* flat has the members of the first k sequences, one sequence after the other:
\* its i-th member is the one at place[i] of the sequence part[i].
Lines(flat, seqs, k, part, place) ==
  /\ part \in [1..Len(flat) -> 1..k]
  /\ place \in [1..Len(flat) -> Nat]
  /\ \A i \in 1..Len(flat) :
       place[i] \in 1..Len(seqs[part[i]]) /\ flat[i] = seqs[part[i]][place[i]]
  /\ \A i, j \in 1..Len(flat) : i < j =>
       part[i] < part[j] \/ (part[i] = part[j] /\ place[i] < place[j])

\* One more sequence.
LEMMA LinesGrow ==
  ASSUME NEW T, NEW seqs \in Seq(Seq(T)), NEW k \in Nat, k + 1 \in 1..Len(seqs),
         NEW flat \in Seq(T), NEW part, NEW place, Lines(flat, seqs, k, part, place)
  PROVE  \E p, q : Lines(flat \o seqs[k + 1], seqs, k + 1, p, q)
<1> DEFINE s == seqs[k + 1]
           l == Len(flat)
           m == Len(s)
           p == [i \in 1..(l + m) |-> IF i <= l THEN part[i] ELSE k + 1]
           q == [i \in 1..(l + m) |-> IF i <= l THEN place[i] ELSE i - l]
<1>1. s \in Seq(T)
  OBVIOUS
<1>2. /\ l \in Nat /\ m \in Nat /\ Len(flat \o s) = l + m
      /\ \A i \in 1..l : (flat \o s)[i] = flat[i]
      /\ \A i \in 1..m : (flat \o s)[l + i] = s[i]
  BY <1>1
<1>3. ASSUME NEW i \in 1..(l + m)
      PROVE  i \in Nat /\ (i <= l => i \in 1..l) /\ (~(i <= l) => i - l \in 1..m /\ l + (i - l) = i)
  BY <1>2
<1>4. ASSUME NEW i \in 1..l
      PROVE  /\ part[i] \in 1..k /\ place[i] \in Nat
             /\ place[i] \in 1..Len(seqs[part[i]]) /\ flat[i] = seqs[part[i]][place[i]]
  BY DEF Lines
<1>5. \A i, j \in 1..l : i < j =>
        part[i] < part[j] \/ (part[i] = part[j] /\ place[i] < place[j])
  BY DEF Lines
<1>6. 1..k \subseteq 1..(k + 1) /\ k + 1 \in 1..(k + 1) /\ \A a \in 1..k : a < k + 1
  OBVIOUS
<1> HIDE DEF l, m
<1>7. p \in [1..(l + m) -> 1..(k + 1)]
  <2>1. \A i \in 1..(l + m) : (IF i <= l THEN part[i] ELSE k + 1) \in 1..(k + 1)
    BY <1>3, <1>4, <1>6
  <2> QED
    BY <2>1
<1>8. q \in [1..(l + m) -> Nat]
  <2>1. \A i \in 1..(l + m) : (IF i <= l THEN place[i] ELSE i - l) \in Nat
    BY <1>2, <1>3, <1>4
  <2> QED
    BY <2>1
<1>9. \A i \in 1..(l + m) :
        /\ i <= l => p[i] = part[i] /\ q[i] = place[i]
        /\ ~(i <= l) => p[i] = k + 1 /\ q[i] = i - l
  OBVIOUS
<1> HIDE DEF p, q, s
<1>10. ASSUME NEW i \in 1..(l + m)
       PROVE  q[i] \in 1..Len(seqs[p[i]]) /\ (flat \o s)[i] = seqs[p[i]][q[i]]
  <2>1. CASE i <= l
    <3>1. i \in 1..l /\ p[i] = part[i] /\ q[i] = place[i]
      BY <1>3, <1>9, <2>1
    <3> QED
      BY <1>2, <1>4, <3>1
  <2>2. CASE ~(i <= l)
    <3>1. i - l \in 1..m /\ l + (i - l) = i /\ p[i] = k + 1 /\ q[i] = i - l
      BY <1>3, <1>9, <2>2
    <3>2. (flat \o s)[l + (i - l)] = s[i - l]
      BY <1>2, <3>1
    <3>3. (flat \o s)[i] = s[q[i]] /\ q[i] \in 1..m
      BY <3>1, <3>2
    <3>4. seqs[p[i]] = s /\ m = Len(s)
      BY <3>1 DEF s, m
    <3> QED
      BY <3>3, <3>4
  <2> QED
    BY <2>1, <2>2
<1>11. ASSUME NEW i \in 1..(l + m), NEW j \in 1..(l + m), i < j
       PROVE  p[i] < p[j] \/ (p[i] = p[j] /\ q[i] < q[j])
  <2>1. CASE j <= l
    <3>1. i <= l
      BY <1>2, <1>11, <2>1
    <3>2. i \in 1..l /\ j \in 1..l
      BY <1>3, <2>1, <3>1
    <3> QED
      BY <1>5, <1>9, <1>11, <2>1, <3>1, <3>2
  <2>2. CASE i <= l /\ ~(j <= l)
    BY <1>3, <1>4, <1>6, <1>9, <2>2
  <2>3. CASE ~(i <= l) /\ ~(j <= l)
    <3>1. p[i] = p[j] /\ q[i] = i - l /\ q[j] = j - l
      BY <1>9, <2>3
    <3>2. i - l < j - l
      BY <1>2, <1>3, <1>11
    <3> QED
      BY <3>1, <3>2
  <2>4. i <= l => ~(j <= l) \/ j <= l
    OBVIOUS
  <2>5. ~(i <= l) => ~(j <= l)
    BY <1>2, <1>3, <1>11
  <2> QED
    BY <2>1, <2>2, <2>3, <2>5
<1>12. Lines(flat \o s, seqs, k + 1, p, q)
  BY <1>2, <1>7, <1>8, <1>10, <1>11 DEF Lines
<1> QED
  BY <1>12 DEF s

LEMMA FlattenLines ==
  ASSUME NEW T, NEW seqs \in Seq(Seq(T))
  PROVE  /\ FlattenSeq(seqs) \in Seq(T)
         /\ \E part, place : Lines(FlattenSeq(seqs), seqs, Len(seqs), part, place)
<1> DEFINE l == Len(seqs)
<1>1. l \in Nat /\ \A i \in 1..l : seqs[i] \in Seq(T)
  OBVIOUS
<1>2. CASE l = 0
  <2>1. FlattenSeq(seqs) = seqs
    BY <1>2 DEF FlattenSeq
  <2>2. seqs \in Seq(T) /\ \A i \in 1..0 : FALSE
    BY <1>2
  <2> DEFINE none == [i \in 1..0 |-> i]
  <2>3. none \in [1..0 -> 1..0] /\ none \in [1..0 -> Nat]
    OBVIOUS
  <2> HIDE DEF none
  <2>4. Lines(seqs, seqs, l, none, none)
    BY <1>2, <2>2, <2>3 DEF Lines
  <2> QED
    BY <2>1, <2>2, <2>4
<1>3. CASE l # 0
  <2> DEFINE n == l - 1
             Is(d) == d = [i \in 1..l |-> IF i = 1 THEN seqs[i] ELSE d[i - 1] \o seqs[i]]
             flatten == CHOOSE d : Is(d)
  <2>1. FlattenSeq(seqs) = flatten[l]
    BY <1>3 DEF FlattenSeq
  <2>2. /\ n \in Nat /\ n + 1 = l
        /\ \A m \in 1..n : m + 1 \in 1..l /\ m + 1 # 1 /\ m \in 0..n /\ m - 1 \in 0..n /\ (m + 1) - 1 = m
        /\ \A i \in 1..l : i - 1 \in 0..n /\ (i # 1 => i - 1 \in 1..n) /\ (i - 1) + 1 = i
        /\ 1 \in 1..l /\ l \in 1..l /\ 0 \in 0..n
    BY <1>1, <1>3
  <2> HIDE DEF l, n
  <2>3. \E d : Is(d)
    <3> DEFINE V == Seq(T)
               start == seqs[1]
               move == [m \in 1..n |-> [s \in V |-> s \o seqs[m + 1]]]
    <3>1. start \in V /\ \A m \in 1..n : \A s \in V : s \o seqs[m + 1] \in V
      BY <1>1, <2>2
    <3>2. move \in [1..n -> [V -> V]] /\ n \in Nat
      BY <2>2, <3>1
    <3> HIDE DEF V, start, move
    <3>3. PICK c : Carries(c, n, V, start, move)
      BY <3>1, <3>2, CarriedThrough
    <3>4. ASSUME NEW m \in 1..n PROVE c[m] = c[m - 1] \o seqs[m + 1]
      <4>1. c[m - 1] \in V
        BY <2>2, <3>3 DEF Carries
      <4>2. move[m][c[m - 1]] = c[m - 1] \o seqs[m + 1]
        BY <4>1 DEF move
      <4> QED
        BY <3>3, <4>2 DEF Carries
    <3> DEFINE d == [i \in 1..l |-> c[i - 1]]
    <3>5. \A i \in 1..l : d[i] = IF i = 1 THEN seqs[i] ELSE d[i - 1] \o seqs[i]
      <4> SUFFICES ASSUME NEW i \in 1..l
                   PROVE  d[i] = IF i = 1 THEN seqs[i] ELSE d[i - 1] \o seqs[i]
        OBVIOUS
      <4>1. CASE i = 1
        <5>1. d[i] = c[0]
          BY <4>1
        <5> QED
          BY <3>3, <4>1, <5>1 DEF start, Carries
      <4>2. CASE i # 1
        <5>1. i - 1 \in 1..n /\ (i - 1) + 1 = i /\ i - 1 \in 1..l
          BY <2>2, <4>2
        <5>2. c[i - 1] = c[(i - 1) - 1] \o seqs[i]
          BY <3>4, <5>1
        <5>3. d[i] = c[i - 1] /\ d[i - 1] = c[(i - 1) - 1]
          BY <5>1
        <5> QED
          BY <4>2, <5>2, <5>3
      <4> QED
        BY <4>1, <4>2
    <3>6. d = [i \in 1..l |-> d[i]]
      OBVIOUS
    <3> HIDE DEF d
    <3>7. Is(d)
      BY <3>5, <3>6
    <3> QED
      BY <3>7
  <2>4. Is(flatten)
    <3> HIDE DEF Is
    <3> QED
      BY <2>3
  <2> HIDE DEF flatten
  <2>5. /\ flatten[1] = seqs[1]
        /\ \A m \in 1..n : flatten[m + 1] = flatten[m] \o seqs[m + 1]
    <3>1. \A i \in 1..l : flatten[i] = IF i = 1 THEN seqs[i] ELSE flatten[i - 1] \o seqs[i]
      BY <2>4
    <3> QED
      BY <2>2, <3>1
  <2> DEFINE Good(i) == /\ flatten[i] \in Seq(T)
                        /\ \E part, place : Lines(flatten[i], seqs, i, part, place)
             U == {m \in 0..n : Good(m + 1)}
  <2>6. 0 \in U
    <3> DEFINE s == seqs[1]
               part == [i \in 1..Len(s) |-> 1]
               place == [i \in 1..Len(s) |-> i]
    <3>1. s \in Seq(T) /\ Len(s) \in Nat
      BY <1>1, <2>2
    <3>2. /\ part \in [1..Len(s) -> 1..1]
          /\ \A i \in 1..Len(s) : part[i] = 1 /\ place[i] = i
      OBVIOUS
    <3>3. place \in [1..Len(s) -> Nat]
      BY <3>1
    <3> HIDE DEF part, place
    <3>4. Lines(s, seqs, 1, part, place)
      BY <3>2, <3>3 DEF Lines
    <3>5. Good(1) /\ 0 + 1 = 1
      BY <2>5, <3>1, <3>4
    <3> HIDE DEF Good
    <3> QED
      BY <2>2, <3>5
  <2>7. ASSUME NEW m \in 0..(n - 1), m \in U PROVE m + 1 \in U
    <3>1. /\ m + 1 \in 1..n /\ m + 1 \in 0..n /\ m + 1 \in Nat
          /\ (m + 1) + 1 \in 1..l /\ Good(m + 1)
      BY <2>2, <2>7
    <3>2. flatten[(m + 1) + 1] = flatten[m + 1] \o seqs[(m + 1) + 1]
      BY <2>5, <3>1
    <3>3. flatten[m + 1] \in Seq(T) /\ seqs[(m + 1) + 1] \in Seq(T)
      BY <1>1, <3>1
    <3>4. \E p, q : Lines(flatten[m + 1] \o seqs[(m + 1) + 1], seqs, (m + 1) + 1, p, q)
      BY <3>1, <3>3, LinesGrow DEF l
    <3>5. flatten[m + 1] \o seqs[(m + 1) + 1] \in Seq(T)
      BY <3>3
    <3>6. Good((m + 1) + 1)
      BY <3>2, <3>4, <3>5
    <3> HIDE DEF Good
    <3> QED
      BY <3>1, <3>6
  <2>8. n \in U
    <3> HIDE DEF U
    <3>1. \A m \in 0..n : m \in U
      BY <2>2, <2>6, <2>7, IntervalInduction
    <3>2. n \in 0..n
      BY <2>2
    <3> QED
      BY <3>1, <3>2
  <2>9. Good(l)
    BY <2>2, <2>8
  <2> QED
    BY <2>1, <2>9 DEF l
<1> QED
  BY <1>2, <1>3

-----------------------------------------------------------------------------
(* What a command has to do                                                 *)

Names == Scenarios \cup {c.name : c \in Commands}
ItemType == [scenario : Names, scale : Nat, seed : Nat]

\* What there is to do depends on the command alone.
LEMMA ItemsStay == UNCHANGED command => UNCHANGED <<Items, FrontierNames, Emulated>>
BY DEF Items, FrontierNames, AtScale, Selected, Available, Alone, Emulated

LEMMA CommandType ==
  ASSUME command \in Commands
  PROVE  /\ command.kind \in {"Run", "Suite", "Frontier"} /\ command.name \in Names
         /\ command.backend \in Backends
         /\ command.failpoints \in BOOLEAN /\ command.cloudSmoke \in BOOLEAN
BY SuiteAssumption DEF Command, Kinds, Names

\* Whatever is kept of the catalog, no scenario is in it twice.
LEMMA KeptOfCatalog ==
  ASSUME NEW S
  PROVE  /\ Kept(Catalog, S) \in Seq(Names)
         /\ \A i \in 1..Len(Kept(Catalog, S)) :
              Kept(Catalog, S)[i] \in S /\ Kept(Catalog, S)[i] \in Range(Catalog)
         /\ \A i, j \in 1..Len(Kept(Catalog, S)) :
              Kept(Catalog, S)[i] = Kept(Catalog, S)[j] => i = j
<1> DEFINE kept == Kept(Catalog, S)
<1>1. Catalog \in Seq(Scenarios) /\ Catalog \in Seq(Names)
  <2>1. Catalog \in Seq(Scenarios)
    BY SuiteAssumption
  <2>2. \A n \in 1..Len(Catalog) : Catalog[n] \in Names
    BY <2>1 DEF Names
  <2> QED
    BY <2>1, <2>2
<1>2. /\ kept \in Seq(Names)
      /\ \A i \in 1..Len(kept) : kept[i] \in S
      /\ \E at : Picks(kept, Catalog, Len(Catalog), at)
  BY <1>1, KeptPicks
<1> HIDE DEF kept
<1>3. PICK at : Picks(kept, Catalog, Len(Catalog), at)
  BY <1>2
<1>4. \A i \in 1..Len(kept) : at[i] \in DOMAIN Catalog /\ at[i] \in Nat /\ kept[i] = Catalog[at[i]]
  <2>1. DOMAIN Catalog = 1..Len(Catalog)
    BY <1>1
  <2> QED
    BY <1>3, <2>1 DEF Picks
<1>5. ASSUME NEW i \in 1..Len(kept), NEW j \in 1..Len(kept), kept[i] = kept[j]
      PROVE  i = j
  <2>1. at[i] = at[j]
    BY <1>4, <1>5, SuiteAssumption DEF IsInjective
  <2>2. ~(i < j) /\ ~(j < i)
    <3>1. \A a \in Nat : ~(a < a)
      OBVIOUS
    <3> QED
      BY <1>3, <1>4, <2>1, <3>1 DEF Picks
  <2>3. i \in Nat /\ j \in Nat
    OBVIOUS
  <2> QED
    BY <2>2, <2>3
<1>6. \A i \in 1..Len(kept) : kept[i] \in Range(Catalog)
  BY <1>4 DEF Range
<1> QED
  BY <1>2, <1>5, <1>6 DEF kept

LEMMA FrontierNamesDiffer ==
  ASSUME command \in Commands
  PROVE  /\ FrontierNames \in Seq(Names)
         /\ \A i, j \in 1..Len(FrontierNames) : FrontierNames[i] = FrontierNames[j] => i = j
<1>1. CASE command.name = AllScenarios
  BY <1>1, KeptOfCatalog DEF FrontierNames
<1>2. CASE command.name # AllScenarios
  <2>1. FrontierNames = <<command.name>>
    BY <1>2 DEF FrontierNames
  <2>2. command.name \in Names
    BY CommandType
  <2> DEFINE one == <<command.name>>
  <2>3. one \in Seq(Names) /\ Len(one) = 1
    BY <2>2
  <2>4. \A i, j \in 1..Len(one) : i = j
    BY <2>3
  <2> QED
    BY <2>1, <2>3, <2>4
<1> QED
  BY <1>1, <1>2

\* The items of one scale: item i is the seed b[i] of the scenario a[i].
AtScaleBy(scale, a, b) ==
  /\ a \in [1..Len(AtScale(scale)) -> 1..Len(FrontierNames)]
  /\ b \in [1..Len(AtScale(scale)) -> 1..Len(Seeds)]
  /\ \A i \in 1..Len(AtScale(scale)) :
       AtScale(scale)[i] = [scenario |-> FrontierNames[a[i]], scale |-> scale,
                            seed |-> Seeds[b[i]]]
  /\ \A i, j \in 1..Len(AtScale(scale)) : i < j =>
       a[i] < a[j] \/ (a[i] = a[j] /\ b[i] < b[j])

LEMMA AtScaleReads ==
  ASSUME command \in Commands, NEW scale \in Nat
  PROVE  AtScale(scale) \in Seq(ItemType) /\ \E a, b : AtScaleBy(scale, a, b)
<1> DEFINE names == FrontierNames
           row(n) == [i \in DOMAIN Seeds |->
                        [scenario |-> names[n], scale |-> scale, seed |-> Seeds[i]]]
           rows == [n \in DOMAIN names |-> row(n)]
<1>1. names \in Seq(Names) /\ DOMAIN names = 1..Len(names) /\ Len(names) \in Nat
  BY FrontierNamesDiffer
<1>2. Seeds \in Seq(Nat) /\ DOMAIN Seeds = 1..Len(Seeds) /\ Len(Seeds) \in Nat
  BY SuiteAssumption
<1>3. AtScale(scale) = FlattenSeq(rows)
  BY DEF AtScale
<1> HIDE DEF names
<1>4. ASSUME NEW n \in 1..Len(names)
      PROVE  row(n) \in Seq(ItemType) /\ Len(row(n)) = Len(Seeds)
  <2>1. names[n] \in Names /\ \A i \in 1..Len(Seeds) : Seeds[i] \in Nat
    BY <1>1, <1>2
  <2>2. \A i \in 1..Len(Seeds) :
          [scenario |-> names[n], scale |-> scale, seed |-> Seeds[i]] \in ItemType
    BY <2>1 DEF ItemType
  <2>3. row(n) \in [1..Len(Seeds) -> ItemType]
    BY <1>2, <2>2
  <2> HIDE DEF row
  <2> QED
    BY <1>2, <2>3
<1> HIDE DEF row
<1>5. rows \in Seq(Seq(ItemType)) /\ Len(rows) = Len(names)
  <2>1. rows \in [1..Len(names) -> Seq(ItemType)]
    BY <1>1, <1>4
  <2> HIDE DEF rows
  <2> QED
    BY <1>1, <2>1
<1>6. \A n \in 1..Len(names) : rows[n] = row(n)
  BY <1>1
<1> HIDE DEF rows
<1>7. FlattenSeq(rows) \in Seq(ItemType)
  BY <1>5, FlattenLines
<1>8. PICK a, b : Lines(FlattenSeq(rows), rows, Len(rows), a, b)
  BY <1>5, FlattenLines
<1>9. ASSUME NEW i \in 1..Len(FlattenSeq(rows))
      PROVE  /\ a[i] \in 1..Len(names) /\ b[i] \in 1..Len(Seeds)
             /\ FlattenSeq(rows)[i] = [scenario |-> names[a[i]], scale |-> scale,
                                       seed |-> Seeds[b[i]]]
  <2>1. a[i] \in 1..Len(names) /\ b[i] \in 1..Len(rows[a[i]])
        /\ FlattenSeq(rows)[i] = rows[a[i]][b[i]]
    BY <1>5, <1>8 DEF Lines
  <2>2. rows[a[i]] = row(a[i]) /\ b[i] \in 1..Len(Seeds)
    BY <1>4, <1>6, <2>1
  <2> QED
    BY <1>2, <2>1, <2>2 DEF row
<1>10. b \in [1..Len(FlattenSeq(rows)) -> 1..Len(Seeds)]
  BY <1>8, <1>9 DEF Lines
<1>11. AtScaleBy(scale, a, b)
  BY <1>3, <1>5, <1>8, <1>9, <1>10 DEF AtScaleBy, Lines, names
<1> QED
  BY <1>3, <1>7, <1>11

\* The items of a frontier: item i is the seed b[i] of the scenario a[i] at the
\* scale s[i].
FrontierBy(s, a, b) ==
  /\ s \in [1..Len(Items) -> 1..Len(Scales)]
  /\ a \in [1..Len(Items) -> 1..Len(FrontierNames)]
  /\ b \in [1..Len(Items) -> 1..Len(Seeds)]
  /\ \A i \in 1..Len(Items) :
       Items[i] = [scenario |-> FrontierNames[a[i]], scale |-> Scales[s[i]],
                   seed |-> Seeds[b[i]]]
  /\ \A i, j \in 1..Len(Items) : i < j =>
       \/ s[i] < s[j]
       \/ s[i] = s[j] /\ a[i] < a[j]
       \/ s[i] = s[j] /\ a[i] = a[j] /\ b[i] < b[j]

LEMMA FrontierReads ==
  ASSUME command \in Commands, command.kind = "Frontier"
  PROVE  Items \in Seq(ItemType) /\ \E s, a, b : FrontierBy(s, a, b)
<1> DEFINE rows == [n \in DOMAIN Scales |-> AtScale(Scales[n])]
           l == Len(Scales)
           flat == FlattenSeq(rows)
<1>1. /\ Scales \in Seq(Nat) /\ l \in Nat /\ DOMAIN Scales = 1..l
      /\ \A n \in 1..l : Scales[n] \in Nat
  BY SuiteAssumption
<1>2. Items = flat
  BY DEF Items
<1>3. /\ rows \in Seq(Seq(ItemType)) /\ Len(rows) = l
      /\ \A n \in 1..l : rows[n] = AtScale(Scales[n])
  <2>1. \A n \in 1..l : AtScale(Scales[n]) \in Seq(ItemType)
    BY <1>1, AtScaleReads
  <2>2. rows \in [1..l -> Seq(ItemType)] /\ \A n \in 1..l : rows[n] = AtScale(Scales[n])
    BY <1>1, <2>1
  <2> HIDE DEF rows, l
  <2> QED
    BY <1>1, <2>2
<1> HIDE DEF rows, l, flat
<1>4. flat \in Seq(ItemType) /\ \E s, at : Lines(flat, rows, l, s, at)
  BY <1>3, FlattenLines DEF flat
<1>5. PICK s, at : Lines(flat, rows, l, s, at)
  BY <1>4
<1> DEFINE A == [n \in 1..l |-> CHOOSE a : \E b : AtScaleBy(Scales[n], a, b)]
           B == [n \in 1..l |-> CHOOSE b : AtScaleBy(Scales[n], A[n], b)]
<1>6. ASSUME NEW n \in 1..l PROVE AtScaleBy(Scales[n], A[n], B[n])
  <2>1. \E a, b : AtScaleBy(Scales[n], a, b)
    BY <1>1, AtScaleReads
  <2>2. A[n] = CHOOSE a : \E b : AtScaleBy(Scales[n], a, b)
    OBVIOUS
  <2>3. \E b : AtScaleBy(Scales[n], A[n], b)
    <3> HIDE DEF A
    <3> QED
      BY <2>1, <2>2
  <2>4. B[n] = CHOOSE b : AtScaleBy(Scales[n], A[n], b)
    OBVIOUS
  <2> HIDE DEF A, B
  <2> QED
    BY <2>3, <2>4
<1> HIDE DEF A, B
<1> DEFINE N == 1..Len(flat)
           a == [i \in N |-> A[s[i]][at[i]]]
           b == [i \in N |-> B[s[i]][at[i]]]
<1>7. ASSUME NEW i \in N
      PROVE  /\ s[i] \in 1..l /\ at[i] \in 1..Len(AtScale(Scales[s[i]]))
             /\ flat[i] = AtScale(Scales[s[i]])[at[i]]
             /\ AtScaleBy(Scales[s[i]], A[s[i]], B[s[i]])
             /\ a[i] = A[s[i]][at[i]] /\ b[i] = B[s[i]][at[i]]
  <2>1. s[i] \in 1..l /\ at[i] \in 1..Len(rows[s[i]]) /\ flat[i] = rows[s[i]][at[i]]
    BY <1>5 DEF Lines
  <2> QED
    BY <1>3, <1>6, <2>1
<1> HIDE DEF a, b
<1>8. ASSUME NEW i \in N
      PROVE  /\ a[i] \in 1..Len(FrontierNames) /\ b[i] \in 1..Len(Seeds)
             /\ flat[i] = [scenario |-> FrontierNames[a[i]], scale |-> Scales[s[i]],
                           seed |-> Seeds[b[i]]]
  <2> DEFINE c == Scales[s[i]]
  <2>1. AtScaleBy(c, A[s[i]], B[s[i]]) /\ at[i] \in 1..Len(AtScale(c))
    BY <1>7
  <2>2. A[s[i]][at[i]] \in 1..Len(FrontierNames) /\ B[s[i]][at[i]] \in 1..Len(Seeds)
    BY <2>1 DEF AtScaleBy
  <2>3. AtScale(c)[at[i]] = [scenario |-> FrontierNames[A[s[i]][at[i]]], scale |-> c,
                             seed |-> Seeds[B[s[i]][at[i]]]]
    BY <2>1 DEF AtScaleBy
  <2> QED
    BY <1>7, <2>2, <2>3
<1>9. ASSUME NEW i \in N, NEW j \in N, i < j
      PROVE  \/ s[i] < s[j]
             \/ s[i] = s[j] /\ a[i] < a[j]
             \/ s[i] = s[j] /\ a[i] = a[j] /\ b[i] < b[j]
  <2>1. s[i] < s[j] \/ (s[i] = s[j] /\ at[i] < at[j])
    BY <1>5, <1>9 DEF Lines
  <2>2. CASE s[i] = s[j] /\ at[i] < at[j]
    <3>1. /\ at[i] \in 1..Len(AtScale(Scales[s[i]]))
          /\ at[j] \in 1..Len(AtScale(Scales[s[i]]))
          /\ AtScaleBy(Scales[s[i]], A[s[i]], B[s[i]])
      BY <1>7, <2>2
    <3>2. \/ A[s[i]][at[i]] < A[s[i]][at[j]]
          \/ A[s[i]][at[i]] = A[s[i]][at[j]] /\ B[s[i]][at[i]] < B[s[i]][at[j]]
      BY <2>2, <3>1 DEF AtScaleBy
    <3> QED
      BY <1>7, <2>2, <3>2
  <2> QED
    BY <2>1, <2>2
<1>10. /\ s \in [N -> 1..l] /\ a \in [N -> 1..Len(FrontierNames)] /\ b \in [N -> 1..Len(Seeds)]
  <2>1. a = [i \in N |-> a[i]] /\ b = [i \in N |-> b[i]]
    BY DEF a, b
  <2>2. s \in [N -> 1..l]
    BY <1>5 DEF Lines
  <2> QED
    BY <1>8, <2>1, <2>2
<1>11. FrontierBy(s, a, b)
  BY <1>2, <1>8, <1>9, <1>10 DEF FrontierBy, l
<1> QED
  BY <1>2, <1>4, <1>11

LEMMA FrontierItem ==
  ASSUME NEW s, NEW a, NEW b, FrontierBy(s, a, b), NEW i \in 1..Len(Items)
  PROVE  /\ s[i] \in 1..Len(Scales) /\ a[i] \in 1..Len(FrontierNames)
         /\ b[i] \in 1..Len(Seeds)
         /\ Items[i].scenario = FrontierNames[a[i]]
         /\ Items[i].scale = Scales[s[i]]
         /\ Items[i].seed = Seeds[b[i]]
<1>1. /\ s \in [1..Len(Items) -> 1..Len(Scales)]
      /\ a \in [1..Len(Items) -> 1..Len(FrontierNames)]
      /\ b \in [1..Len(Items) -> 1..Len(Seeds)]
  BY DEF FrontierBy
<1>2. Items[i] = [scenario |-> FrontierNames[a[i]], scale |-> Scales[s[i]],
                  seed |-> Seeds[b[i]]]
  BY DEF FrontierBy
<1> QED
  BY <1>1, <1>2

LEMMA ItemsTyped ==
  ASSUME command \in Commands
  PROVE  Items \in Seq(ItemType)
<1>1. CASE command.kind = "Run"
  <2>1. Items = <<Alone(command.name)>>
    BY <1>1 DEF Items
  <2>2. Alone(command.name) \in ItemType
    BY CommandType DEF Alone, ItemType
  <2> QED
    BY <2>1, <2>2
<1>2. CASE command.kind = "Suite"
  <2> DEFINE kept == Kept(Catalog, {s \in Scenarios : Selected(s)})
             all == [n \in DOMAIN kept |-> Alone(kept[n])]
  <2>1. Items = all
    BY <1>2 DEF Items
  <2>2. kept \in Seq(Names)
    BY KeptOfCatalog
  <2> HIDE DEF kept
  <2>3. DOMAIN kept = 1..Len(kept) /\ Len(kept) \in Nat
    BY <2>2
  <2>4. \A n \in 1..Len(kept) : Alone(kept[n]) \in ItemType
    BY <2>2 DEF Alone, ItemType
  <2>5. all \in [1..Len(kept) -> ItemType]
    BY <2>3, <2>4
  <2> HIDE DEF all
  <2> QED
    BY <2>1, <2>3, <2>5
<1>3. CASE command.kind = "Frontier"
  BY <1>3, FrontierReads
<1> QED
  BY <1>1, <1>2, <1>3, CommandType

LEMMA AloneScenario ==
  ASSUME NEW x PROVE Alone(x).scenario = x /\ Alone(x).scale = 0
BY DEF Alone

\* The items of a suite are the scenarios kept of the catalog.
LEMMA SuiteReads ==
  ASSUME command \in Commands, command.kind = "Suite"
  PROVE  \E kept \in Seq(Names) :
           /\ Len(Items) = Len(kept)
           /\ \A n \in 1..Len(Items) :
                /\ Items[n] = Alone(kept[n])
                /\ kept[n] \in Range(Catalog) /\ Selected(kept[n])
           /\ \A m, n \in 1..Len(Items) : kept[m] = kept[n] => m = n
<1> DEFINE kept == Kept(Catalog, {s \in Scenarios : Selected(s)})
           all == [n \in DOMAIN kept |-> Alone(kept[n])]
<1>1. Items = all
  BY DEF Items
<1>2. /\ kept \in Seq(Names)
      /\ \A n \in 1..Len(kept) : kept[n] \in Range(Catalog) /\ Selected(kept[n])
      /\ \A m, n \in 1..Len(kept) : kept[m] = kept[n] => m = n
  BY KeptOfCatalog
<1> HIDE DEF kept
<1>3. DOMAIN kept = 1..Len(kept) /\ Len(kept) \in Nat
  BY <1>2
<1>4. Len(all) = Len(kept) /\ \A n \in 1..Len(kept) : all[n] = Alone(kept[n])
  BY <1>3
<1> HIDE DEF all
<1> QED
  BY <1>1, <1>2, <1>4

\* A suite, and a frontier over all scenarios, have only what fits the backend; what
\* needs a feature that is not there, only a suite has.
LEMMA ItemsSelected ==
  ASSUME command \in Commands, NEW n \in 1..Len(Items),
         command.kind = "Suite" \/ (command.kind = "Frontier" /\ command.name = AllScenarios)
  PROVE  /\ Items[n].scenario \in Range(Catalog)
         /\ Selected(Items[n].scenario)
         /\ command.kind = "Frontier" => Available(Items[n].scenario)
<1>1. CASE command.kind = "Suite"
  <2>1. PICK kept \in Seq(Names) :
          \A m \in 1..Len(Items) :
            /\ Items[m] = Alone(kept[m])
            /\ kept[m] \in Range(Catalog) /\ Selected(kept[m])
    BY <1>1, SuiteReads
  <2>2. Items[n] = Alone(kept[n])
    BY <2>1
  <2>3. Items[n].scenario = kept[n]
    BY <2>2, AloneScenario
  <2> QED
    BY <1>1, <2>1, <2>3
<1>2. CASE command.kind = "Frontier" /\ command.name = AllScenarios
  <2>1. PICK s, a, b : FrontierBy(s, a, b)
    BY <1>2, FrontierReads
  <2>2. a[n] \in 1..Len(FrontierNames) /\ Items[n].scenario = FrontierNames[a[n]]
    BY <2>1, FrontierItem
  <2>3. FrontierNames = Kept(Catalog, {s1 \in Scenarios : Selected(s1) /\ Available(s1)})
    BY <1>2 DEF FrontierNames
  <2>4. \A i \in 1..Len(FrontierNames) :
          FrontierNames[i] \in Range(Catalog) /\ Selected(FrontierNames[i])
          /\ Available(FrontierNames[i])
    BY <2>3, KeptOfCatalog
  <2> QED
    BY <2>2, <2>4
<1> QED
  BY <1>1, <1>2

\* A frontier takes its scales in ascending order.
LEMMA ItemsAscend ==
  ASSUME command \in Commands, command.kind = "Frontier",
         NEW i \in 1..Len(Items), NEW j \in 1..Len(Items), i < j
  PROVE  Items[i].scale <= Items[j].scale
<1>1. PICK s, a, b : FrontierBy(s, a, b)
  BY FrontierReads
<1>2. /\ s[i] \in 1..Len(Scales) /\ s[j] \in 1..Len(Scales)
      /\ Items[i].scale = Scales[s[i]] /\ Items[j].scale = Scales[s[j]]
      /\ s[i] < s[j] \/ s[i] = s[j]
  <2>1. s[i] < s[j] \/ s[i] = s[j]
    BY <1>1 DEF FrontierBy
  <2> QED
    BY <1>1, <2>1, FrontierItem
<1>3. /\ DOMAIN Scales = 1..Len(Scales)
      /\ \A m \in 1..Len(Scales) : Scales[m] \in Nat
      /\ \A m, n \in DOMAIN Scales : m < n => Scales[m] < Scales[n]
  BY SuiteAssumption
<1>4. CASE s[i] < s[j]
  <2>1. Scales[s[i]] < Scales[s[j]] /\ Scales[s[i]] \in Nat /\ Scales[s[j]] \in Nat
    BY <1>2, <1>3, <1>4
  <2> QED
    BY <1>2, <2>1
<1>5. CASE s[i] = s[j]
  BY <1>2, <1>3, <1>5
<1> QED
  BY <1>2, <1>4, <1>5

\* No item comes twice, if the seeds of a frontier differ.
LEMMA ItemsDiffer ==
  ASSUME command \in Commands, IsInjective(Seeds),
         NEW i \in 1..Len(Items), NEW j \in 1..Len(Items), Items[i] = Items[j]
  PROVE  i = j
<1>1. CASE command.kind = "Run"
  BY <1>1 DEF Items
<1>2. CASE command.kind = "Suite"
  <2>1. PICK kept \in Seq(Names) :
          /\ \A m \in 1..Len(Items) : Items[m] = Alone(kept[m])
          /\ \A m, n \in 1..Len(Items) : kept[m] = kept[n] => m = n
    BY <1>2, SuiteReads
  <2>2. Items[i] = Alone(kept[i]) /\ Items[j] = Alone(kept[j])
    BY <2>1
  <2>3. Items[i].scenario = kept[i] /\ Items[j].scenario = kept[j]
    BY <2>2, AloneScenario
  <2> QED
    BY <2>1, <2>3
<1>3. CASE command.kind = "Frontier"
  <2>1. PICK s, a, b : FrontierBy(s, a, b)
    BY <1>3, FrontierReads
  <2>2. /\ s[i] \in 1..Len(Scales) /\ s[j] \in 1..Len(Scales)
        /\ a[i] \in 1..Len(FrontierNames) /\ a[j] \in 1..Len(FrontierNames)
        /\ b[i] \in 1..Len(Seeds) /\ b[j] \in 1..Len(Seeds)
        /\ FrontierNames[a[i]] = FrontierNames[a[j]]
        /\ Scales[s[i]] = Scales[s[j]]
        /\ Seeds[b[i]] = Seeds[b[j]]
    <3>1. /\ s[i] \in 1..Len(Scales) /\ a[i] \in 1..Len(FrontierNames)
          /\ b[i] \in 1..Len(Seeds)
          /\ Items[i].scenario = FrontierNames[a[i]]
          /\ Items[i].scale = Scales[s[i]] /\ Items[i].seed = Seeds[b[i]]
      BY <2>1, FrontierItem
    <3>2. /\ s[j] \in 1..Len(Scales) /\ a[j] \in 1..Len(FrontierNames)
          /\ b[j] \in 1..Len(Seeds)
          /\ Items[j].scenario = FrontierNames[a[j]]
          /\ Items[j].scale = Scales[s[j]] /\ Items[j].seed = Seeds[b[j]]
      BY <2>1, FrontierItem
    <3> QED
      BY <3>1, <3>2
  <2>3. a[i] = a[j]
    BY <2>2, FrontierNamesDiffer
  <2>4. b[i] = b[j]
    <3>1. DOMAIN Seeds = 1..Len(Seeds)
      BY SuiteAssumption
    <3> QED
      BY <2>2, <3>1 DEF IsInjective
  <2>5. s[i] = s[j]
    <3>1. /\ DOMAIN Scales = 1..Len(Scales)
          /\ \A m \in 1..Len(Scales) : Scales[m] \in Nat
          /\ \A m, n \in DOMAIN Scales : m < n => Scales[m] < Scales[n]
      BY SuiteAssumption
    <3>2. ~(s[i] < s[j]) /\ ~(s[j] < s[i])
      <4>1. \A x \in Nat : ~(x < x)
        OBVIOUS
      <4> QED
        BY <2>2, <3>1, <4>1
    <3> QED
      BY <2>2, <3>2
  <2>6. ~(i < j) /\ ~(j < i)
    <3>1. ~(s[i] < s[j]) /\ ~(a[i] < a[j]) /\ ~(b[i] < b[j])
          /\ ~(s[j] < s[i]) /\ ~(a[j] < a[i]) /\ ~(b[j] < b[i])
      BY <2>2, <2>3, <2>4, <2>5
    <3> QED
      BY <2>1, <3>1 DEF FrontierBy
  <2> QED
    BY <2>6
<1> QED
  BY <1>1, <1>2, <1>3, CommandType

-----------------------------------------------------------------------------
(* Where a command is                                                       *)

\* The next item is the first without a report.
At == Len(results) + 1

QueueInv ==
  /\ command \in Commands
  /\ results \in Seq(Report)
  /\ todo \in Seq(ItemType)
  /\ Len(results) + Len(todo) = Len(Items)
  /\ \A n \in 1..Len(results) : results[n].item = Items[n]
  /\ \A n \in 1..Len(todo) : todo[n] = Items[Len(results) + n]

LEMMA ItemIsNext ==
  ASSUME QueueInv, todo # <<>>
  PROVE  /\ At \in 1..Len(Items) /\ Item = Items[At] /\ Item \in Range(Items)
         /\ Len(todo) \in Nat \ {0}
<1>1. Items \in Seq(ItemType) /\ DOMAIN Items = 1..Len(Items) /\ Len(Items) \in Nat
  BY ItemsTyped DEF QueueInv
<1>2. /\ todo \in Seq(ItemType) /\ Len(todo) \in Nat /\ Len(todo) # 0
      /\ Len(results) \in Nat
  BY DEF QueueInv
<1>3. Item = todo[1]
  BY <1>2 DEF Item
<1>4. 1 \in 1..Len(todo) /\ At \in 1..Len(Items)
  BY <1>1, <1>2 DEF QueueInv, At
<1>5. todo[1] = Items[At]
  BY <1>4 DEF QueueInv, At
<1>6. Items[At] \in Range(Items)
  BY <1>1, <1>4 DEF Range
<1> QED
  BY <1>2, <1>3, <1>4, <1>5, <1>6

\* A report for the next item keeps the queue in order.
LEMMA EnterKeepsQueue ==
  ASSUME QueueInv, todo # <<>>, NEW v \in SuiteVerdicts, Enter(v), UNCHANGED command
  PROVE  /\ QueueInv'
         /\ Len(results') = At /\ results'[At] = [item |-> Item, verdict |-> v]
         /\ \A n \in 1..Len(results) : results'[n] = results[n]
<1> DEFINE r == [item |-> Item, verdict |-> v]
           l == Len(results)
           m == Len(todo)
<1>1. At \in 1..Len(Items) /\ Item = Items[At] /\ Item \in Range(Items) /\ m \in Nat \ {0}
  BY ItemIsNext
<1>2. r \in Report
  BY <1>1 DEF Report
<1>3. results' = Append(results, r) /\ todo' = Tail(todo)
  BY DEF Enter
<1>4. /\ results \in Seq(Report) /\ l \in Nat
      /\ todo \in Seq(ItemType) /\ l + m = Len(Items)
  BY DEF QueueInv
<1> HIDE DEF r
<1>5. /\ results' \in Seq(Report) /\ Len(results') = l + 1 /\ results'[l + 1] = r
      /\ \A n \in 1..l : results'[n] = results[n]
  BY <1>2, <1>3, <1>4
<1>6. /\ todo' \in Seq(ItemType) /\ Len(todo') = m - 1
      /\ \A n \in 1..(m - 1) : todo'[n] = todo[n + 1]
  BY <1>1, <1>3, <1>4
<1>7. Items' = Items /\ Report' = Report /\ command \in Commands
  BY ItemsStay DEF Report, QueueInv
<1>8. \A n \in 1..Len(results') : results'[n].item = Items[n]
  <2> SUFFICES ASSUME NEW n \in 1..Len(results') PROVE results'[n].item = Items[n]
    OBVIOUS
  <2>1. CASE n = l + 1
    BY <1>1, <1>5, <2>1 DEF r, At
  <2>2. CASE n # l + 1
    <3>1. n \in 1..l
      BY <1>4, <1>5, <2>2
    <3> QED
      BY <1>5, <3>1 DEF QueueInv
  <2> QED
    BY <2>1, <2>2
<1>9. \A n \in 1..Len(todo') : todo'[n] = Items[Len(results') + n]
  <2> SUFFICES ASSUME NEW n \in 1..(m - 1) PROVE todo'[n] = Items[l + 1 + n]
    BY <1>5, <1>6
  <2>1. n + 1 \in 1..m /\ l + (n + 1) = l + 1 + n
    BY <1>1, <1>4
  <2>2. todo[n + 1] = Items[l + (n + 1)]
    BY <2>1 DEF QueueInv
  <2> QED
    BY <1>6, <2>1, <2>2
<1>10. Len(results') + Len(todo') = Len(Items)
  <2>1. l \in Nat /\ m \in Nat /\ m # 0 /\ l + m = Len(Items)
    BY <1>1, <1>4
  <2>2. (l + 1) + (m - 1) = l + m
    BY <2>1
  <2> QED
    BY <1>5, <1>6, <2>1, <2>2
<1>11. QueueInv'
  BY <1>5, <1>6, <1>7, <1>8, <1>9, <1>10 DEF QueueInv
<1> QED
  BY <1>4, <1>5, <1>11 DEF r, At

LEMMA QueueStays ==
  ASSUME QueueInv, UNCHANGED <<command, todo, results>>
  PROVE  QueueInv'
<1>1. Items' = Items /\ Report' = Report
  BY ItemsStay DEF Report
<1> QED
  BY <1>1 DEF QueueInv

\* What the command is doing says how far it got with its item.
PhaseInv ==
  /\ pc \in {"Select", "Ensuring", "Executing", "Probing", "Leaving", "Returned"}
  /\ pc # "Ensuring" => step = "Idle"
  /\ step \in {"Settling", "Confirming", "Ready"} => resolved
  /\ pc \in {"Executing", "Probing"} /\ Emulated => resolved
  /\ pc \in {"Ensuring", "Executing", "Probing"} =>
       /\ ~Finished
       /\ command.kind = "Suite" => Available(Item.scenario)
       /\ command.kind = "Frontier" => Known
  /\ pc = "Probing" => Item \in DOMAIN onDisk
  /\ manifest => Finished /\ pc \in {"Leaving", "Returned"}

FilesInv ==
  /\ DOMAIN onDisk \subseteq Range(Items)
  /\ \A item \in DOMAIN onDisk : onDisk[item] \in SuiteVerdicts
  /\ first \in [Firsts -> Report \cup {None}]
  /\ manifest \in BOOLEAN /\ failed \in BOOLEAN
  /\ disturbed \cup atFault \cup unfinished \subseteq Range(Items)

SuiteInv == EmulatorType /\ QueueInv /\ PhaseInv /\ FilesInv

\* The conditions of a phase read what does not change while it lasts.
LEMMA ConditionsStay ==
  ASSUME UNCHANGED <<command, todo, results, first>>
  PROVE  /\ Finished' = Finished /\ Item' = Item /\ Known' = Known
         /\ Emulated' = Emulated /\ Items' = Items /\ Report' = Report
         /\ Available(Item.scenario)' = Available(Item.scenario)
BY ItemsStay DEF Finished, BehindBreak, Item, Known, Available, Report

LEMMA SuiteInit == Init => SuiteInv
<1> SUFFICES ASSUME Init PROVE SuiteInv
  OBVIOUS
<1>1. command \in Commands /\ todo = Items /\ results = <<>>
  BY DEF Init
<1>2. Items \in Seq(ItemType) /\ Len(Items) \in Nat
  BY <1>1, ItemsTyped
<1>3. QueueInv
  <2>1. results \in Seq(Report) /\ Len(results) = 0
    BY <1>1
  <2>2. \A n \in 1..0 : FALSE
    OBVIOUS
  <2>3. \A n \in 1..Len(todo) : todo[n] = Items[0 + n]
    BY <1>1, <1>2
  <2> QED
    BY <1>1, <1>2, <2>1, <2>2, <2>3 DEF QueueInv
<1>4. EmulatorType
  <2>1. MaxOutages \in 0..MaxOutages
    BY OutageAssumption
  <2> QED
    BY <2>1 DEF Init, EmulatorInit, EmulatorType, EnsureSteps
<1>5. PhaseInv
  BY DEF Init, EmulatorInit, PhaseInv
<1>6. FilesInv
  <2>1. onDisk = <<>> /\ first = [v \in Firsts |-> None]
    BY DEF Init
  <2>2. DOMAIN onDisk = {}
    BY <2>1
  <2>3. first \in [Firsts -> Report \cup {None}]
    BY <2>1
  <2> QED
    BY <2>2, <2>3 DEF Init, FilesInv
<1> QED
  BY <1>3, <1>4, <1>5, <1>6 DEF SuiteInv

-----------------------------------------------------------------------------
(* The emulator's part of every step                                        *)

LEMMA OutageTyped ==
  ASSUME EmulatorType, Outage PROVE outages' \in 0..MaxOutages
BY OutageAssumption DEF EmulatorType, Outage

LEMMA DropTyped ==
  ASSUME EmulatorType, DropTeardown
  PROVE  /\ guarded' \in BOOLEAN /\ project' \in {"Absent", "Healthy", "Sick", "Exited"}
         /\ outages' \in 0..MaxOutages /\ leaked' \in BOOLEAN
BY OutageTyped DEF EmulatorType, DropTeardown

LEMMA EnsuringTyped ==
  ASSUME EmulatorType, Ensuring
  PROVE  /\ EmulatorType'
         /\ (step \in {"Settling", "Confirming", "Ready"} => resolved) =>
            (step' \in {"Settling", "Confirming", "Ready"} => resolved')
<1>1. CASE KeepRunning \/ Settle \/ StartupDeadline \/ Confirm
  BY <1>1 DEF KeepRunning, Settle, StartupDeadline, Confirm, Probed, EmulatorType,
              EnsureSteps
<1>2. CASE TakeDown
  BY <1>2, DropTyped DEF TakeDown, MarkUnhealthy, EmulatorType, EnsureSteps
<1>3. CASE ArmTeardown
  BY <1>3, OutageTyped DEF ArmTeardown, Refuse, EmulatorType, EnsureSteps
<1>4. CASE ComposeUp
  BY <1>4, OutageTyped
     DEF ComposeUp, UpSucceeds, UpFails, Refuse, Running, EmulatorType, EnsureSteps
<1>5. CASE ResolvePorts
  BY <1>5, OutageTyped DEF ResolvePorts, Refuse, EmulatorType, EnsureSteps
<1> QED
  BY <1>1, <1>2, <1>3, <1>4, <1>5 DEF Ensuring

LEMMA EmulatorTyped ==
  ASSUME EmulatorType, [Next]_vars PROVE EmulatorType'
<1>1. CASE UNCHANGED emulatorVars
  BY <1>1 DEF EmulatorType, emulatorVars
<1>2. CASE CallEnsureReady
  BY <1>2 DEF CallEnsureReady, BeginEnsure, EmulatorType, EnsureSteps
<1>3. CASE Started \/ UnavailableForUnknown
  BY <1>3 DEF Started, UnavailableForUnknown, EmulatorType, EnsureSteps
<1>4. CASE ReportUnavailable
  BY <1>4, DropTyped DEF ReportUnavailable, MarkUnhealthy, EmulatorType, EnsureSteps
<1>5. CASE RunnerFails
  BY <1>5, OutageTyped DEF RunnerFails, RunnerError, EmulatorType
<1>6. CASE MarkInfrastructureError
  BY <1>6, DropTyped DEF MarkInfrastructureError, MarkUnhealthy, EmulatorType
<1>7. CASE WriteFails
  BY <1>7, OutageTyped DEF WriteFails, EmulatorType
<1>8. CASE Return
  BY <1>8, DropTyped DEF Return, EmulatorType
<1>9. CASE Disturb
  BY <1>9, OutageTyped DEF Disturb, Container, Recovers, Fails, EmulatorType
<1>10. CASE pc = "Ensuring" /\ Ensuring /\ UNCHANGED suiteVars
  BY <1>10, EnsuringTyped
<1>11. ASSUME \/ SkipUnavailable \/ RejectUnknown \/ StartWithoutEmulator
              \/ ScenarioPasses \/ ScenarioBreaks \/ ScenarioSkipped \/ ScenarioRefused
              \/ EnterVerdict \/ WriteManifest \/ UNCHANGED vars
       PROVE  UNCHANGED emulatorVars
  BY <1>11 DEF SkipUnavailable, RejectUnknown, StartWithoutEmulator, ScenarioPasses,
              ScenarioBreaks, ScenarioSkipped, ScenarioRefused, RunnerError, EnterVerdict,
              WriteManifest, EndsWith, vars, emulatorVars
<1> QED
  BY <1>1, <1>2, <1>3, <1>4, <1>5, <1>6, <1>7, <1>8, <1>9, <1>10, <1>11
     DEF Next, CommandStep

-----------------------------------------------------------------------------
(* Every step keeps the command in order                                    *)

Busy == {"Ensuring", "Executing", "Probing"}

\* A step enters a report for the next item, or leaves the queue alone.
Entered(v) == todo # <<>> /\ v \in SuiteVerdicts /\ Enter(v)

LEMMA BusyHasItem == PhaseInv /\ pc \in Busy => todo # <<>> /\ ~Finished
BY DEF PhaseInv, Busy, Finished

LEMMA QueueStep ==
  ASSUME SuiteInv, [Next]_vars
  PROVE  /\ UNCHANGED command
         /\ UNCHANGED <<todo, results>> \/ \E v : Entered(v)
<1>p. PhaseInv
  BY DEF SuiteInv
<1>1. CASE SkipUnavailable
  BY <1>1 DEF SkipUnavailable, Finished, Entered, SuiteVerdicts
<1>2. CASE ReportUnavailable
  <2>1. todo # <<>>
    BY <1>2, <1>p, BusyHasItem DEF ReportUnavailable, Busy
  <2> QED
    BY <1>2, <2>1 DEF ReportUnavailable, EnterUnavailable, Entered, SuiteVerdicts
<1>3. CASE EnterVerdict
  <2>1. todo # <<>> /\ Item \in DOMAIN onDisk
    BY <1>3, <1>p, BusyHasItem DEF EnterVerdict, Busy, PhaseInv
  <2>2. onDisk[Item] \in SuiteVerdicts
    BY <2>1 DEF SuiteInv, FilesInv
  <2>3. Enter(onDisk[Item]) /\ UNCHANGED command
    BY <1>3 DEF EnterVerdict
  <2> QED
    BY <2>1, <2>2, <2>3 DEF Entered
<1>4. CASE MarkInfrastructureError
  <2>1. todo # <<>>
    BY <1>4, <1>p, BusyHasItem DEF MarkInfrastructureError, Busy
  <2> QED
    BY <1>4, <2>1 DEF MarkInfrastructureError, Entered, SuiteVerdicts
<1>5. CASE \/ RejectUnknown \/ CallEnsureReady \/ StartWithoutEmulator \/ Started
           \/ UnavailableForUnknown
  BY <1>5 DEF RejectUnknown, CallEnsureReady, StartWithoutEmulator, Started,
              UnavailableForUnknown, ReturnError
<1>6. CASE ScenarioPasses \/ ScenarioBreaks \/ ScenarioSkipped
  BY <1>6 DEF ScenarioPasses, ScenarioBreaks, ScenarioSkipped, EndsWith
<1>7. CASE ScenarioRefused \/ RunnerFails
  BY <1>7 DEF ScenarioRefused, RunnerFails, RunnerError, ReturnError
<1>8. CASE WriteManifest \/ Return \/ WriteFails \/ Disturb
  BY <1>8 DEF WriteManifest, Return, WriteFails, ReturnError, Disturb
<1>9. CASE (pc = "Ensuring" /\ Ensuring /\ UNCHANGED suiteVars) \/ UNCHANGED vars
  BY <1>9 DEF suiteVars, vars
<1> QED
  BY <1>1, <1>2, <1>3, <1>4, <1>5, <1>6, <1>7, <1>8, <1>9 DEF Next, CommandStep

LEMMA QueueKept ==
  ASSUME SuiteInv, [Next]_vars PROVE QueueInv'
<1>1. QueueInv /\ UNCHANGED command
  BY QueueStep DEF SuiteInv
<1>2. CASE UNCHANGED <<todo, results>>
  BY <1>1, <1>2, QueueStays
<1>3. ASSUME NEW v, Entered(v) PROVE QueueInv'
  BY <1>1, <1>3, EnterKeepsQueue DEF Entered
<1> QED
  BY <1>2, <1>3, QueueStep

\* The item is done with, or the command gives up.
LEMMA ToQuiet ==
  ASSUME PhaseInv, pc \notin {"Leaving", "Returned"}, UNCHANGED manifest,
         pc' \in {"Select", "Leaving"}, step' = "Idle"
  PROVE  PhaseInv'
BY DEF PhaseInv

\* The item is being worked on.
LEMMA ToBusy ==
  ASSUME PhaseInv, UNCHANGED <<command, todo, results, first, manifest>>,
         pc \notin {"Leaving", "Returned"}, pc' \in Busy,
         ~Finished,
         command.kind = "Suite" => Available(Item.scenario),
         command.kind = "Frontier" => Known,
         pc' # "Ensuring" => step' = "Idle" /\ (Emulated => resolved'),
         step' \in {"Settling", "Confirming", "Ready"} => resolved',
         pc' = "Probing" => Item \in DOMAIN onDisk'
  PROVE  PhaseInv'
BY ConditionsStay DEF PhaseInv, Busy

LEMMA PhaseKept ==
  ASSUME SuiteInv, [Next]_vars PROVE PhaseInv'
<1>p. PhaseInv
  BY DEF SuiteInv
<1>1. CASE SkipUnavailable
  <2>1. step' = "Idle" /\ pc = "Select" /\ pc' = "Select" /\ UNCHANGED manifest
    BY <1>1, <1>p DEF SkipUnavailable, Enter, emulatorVars, PhaseInv
  <2> QED
    BY <1>p, <2>1, ToQuiet
<1>2. CASE RejectUnknown
  <2>1. step' = "Idle" /\ pc = "Select" /\ pc' = "Leaving" /\ UNCHANGED manifest
    BY <1>2, <1>p DEF RejectUnknown, ReturnError, emulatorVars, PhaseInv
  <2> QED
    BY <1>p, <2>1, ToQuiet
<1>3. CASE CallEnsureReady
  <2>1. /\ pc = "Select" /\ pc' = "Ensuring" /\ step' \in {"Rechecking", "Starting"}
        /\ UNCHANGED <<command, todo, results, first, manifest>>
    BY <1>3 DEF CallEnsureReady, BeginEnsure, Startable
  <2>2. /\ ~Finished
        /\ command.kind = "Suite" => Available(Item.scenario)
        /\ command.kind = "Frontier" => Known
    BY <1>3 DEF CallEnsureReady, Startable
  <2> QED
    BY <1>p, <2>1, <2>2, ToBusy DEF Busy
<1>4. CASE StartWithoutEmulator
  <2>1. /\ pc = "Select" /\ pc' = "Executing" /\ step' = "Idle"
        /\ UNCHANGED <<command, todo, results, first, manifest>>
    BY <1>4, <1>p DEF StartWithoutEmulator, Startable, emulatorVars, PhaseInv
  <2>2. /\ ~Finished /\ ~Emulated
        /\ command.kind = "Suite" => Available(Item.scenario)
        /\ command.kind = "Frontier" => Known
    BY <1>4 DEF StartWithoutEmulator, Startable
  <2> QED
    BY <1>p, <2>1, <2>2, ToBusy DEF Busy
<1>b. pc \in Busy => /\ ~Finished
                     /\ command.kind = "Suite" => Available(Item.scenario)
                     /\ command.kind = "Frontier" => Known
  BY <1>p DEF PhaseInv, Busy
<1>5. CASE Started
  <2>1. /\ pc = "Ensuring" /\ pc' = "Executing" /\ step' = "Idle"
        /\ resolved' = resolved /\ step = "Ready"
        /\ UNCHANGED <<command, todo, results, first, manifest>>
    BY <1>5 DEF Started
  <2>2. resolved
    BY <1>p, <2>1 DEF PhaseInv
  <2> QED
    BY <1>p, <1>b, <2>1, <2>2, ToBusy DEF Busy
<1>6. CASE ReportUnavailable
  <2>1. step' = "Idle" /\ pc = "Ensuring" /\ pc' = "Select" /\ UNCHANGED manifest
    BY <1>6 DEF ReportUnavailable, EnterUnavailable, Enter
  <2> QED
    BY <1>p, <2>1, ToQuiet
<1>7. CASE UnavailableForUnknown
  <2>1. step' = "Idle" /\ pc = "Ensuring" /\ pc' = "Leaving" /\ UNCHANGED manifest
    BY <1>7 DEF UnavailableForUnknown, ReturnError
  <2> QED
    BY <1>p, <2>1, ToQuiet
<1>8. ASSUME pc = "Executing", pc' = "Probing", UNCHANGED <<step, resolved>>,
             UNCHANGED <<command, todo, results, first, manifest>>,
             \E v : OnDisk(v)
      PROVE  PhaseInv'
  <2>1. step' = "Idle" /\ (Emulated => resolved')
    BY <1>p, <1>8 DEF PhaseInv
  <2>2. Item \in DOMAIN onDisk'
    BY <1>8 DEF OnDisk
  <2> QED
    BY <1>p, <1>b, <1>8, <2>1, <2>2, ToBusy DEF Busy
<1>9. CASE ScenarioPasses \/ ScenarioBreaks \/ ScenarioSkipped
  <2>1. /\ pc = "Executing" /\ pc' = "Probing" /\ UNCHANGED <<step, resolved>>
        /\ UNCHANGED <<command, todo, results, first, manifest>>
        /\ \E v : OnDisk(v)
    BY <1>9 DEF ScenarioPasses, ScenarioBreaks, ScenarioSkipped, Executing, EndsWith,
                emulatorVars
  <2> QED
    BY <1>8, <2>1
<1>10. CASE ScenarioRefused \/ RunnerFails
  <2>1. /\ pc = "Executing" /\ UNCHANGED <<command, step, resolved>>
        /\ RunnerError
    BY <1>10 DEF ScenarioRefused, RunnerFails, Executing, RunnerError
  <2>2. \/ ReturnError
        \/ /\ pc' = "Probing" /\ UNCHANGED <<command, todo, results, first, manifest>>
           /\ \E v : OnDisk(v)
    BY <2>1 DEF RunnerError
  <2>3. CASE ReturnError
    <3>1. step' = "Idle" /\ pc' = "Leaving" /\ UNCHANGED manifest
      BY <1>p, <2>1, <2>3 DEF ReturnError, PhaseInv
    <3> QED
      BY <1>p, <2>1, <3>1, ToQuiet
  <2> QED
    BY <1>8, <2>1, <2>2, <2>3
<1>11. CASE EnterVerdict \/ MarkInfrastructureError
  <2>1. step' = "Idle" /\ pc = "Probing" /\ pc' = "Select" /\ UNCHANGED manifest
    BY <1>11, <1>p DEF EnterVerdict, MarkInfrastructureError, Enter, emulatorVars, PhaseInv
  <2> QED
    BY <1>p, <2>1, ToQuiet
<1>12. CASE WriteFails
  <2>1. step' = "Idle" /\ pc \in {"Select", "Probing"} /\ pc' = "Leaving" /\ UNCHANGED manifest
    BY <1>12, <1>p DEF WriteFails, ReturnError, PhaseInv
  <2> QED
    BY <1>p, <2>1, ToQuiet
<1>13. CASE WriteManifest
  <2>1. /\ UNCHANGED <<command, todo, results, first, step, resolved>>
        /\ pc = "Select" /\ pc' = "Leaving" /\ Finished
    BY <1>13 DEF WriteManifest, emulatorVars
  <2> QED
    BY <1>p, <2>1, ConditionsStay DEF PhaseInv
<1>14. CASE Return
  <2>1. /\ UNCHANGED <<command, todo, results, first, step, resolved, manifest>>
        /\ pc = "Leaving" /\ pc' = "Returned"
    BY <1>14 DEF Return
  <2> QED
    BY <1>p, <2>1, ConditionsStay DEF PhaseInv
<1>15. CASE pc = "Ensuring" /\ Ensuring /\ UNCHANGED suiteVars
  <2>1. /\ step' \in {"Settling", "Confirming", "Ready"} => resolved'
        /\ UNCHANGED <<command, todo, results, first, manifest>>
        /\ pc = "Ensuring" /\ pc' = "Ensuring"
    BY <1>15, <1>p, EnsuringTyped DEF suiteVars, SuiteInv, PhaseInv
  <2> QED
    BY <1>p, <1>b, <2>1, ToBusy DEF Busy
<1>16. CASE Disturb \/ UNCHANGED vars
  <2>1. UNCHANGED <<command, pc, todo, results, onDisk, first, manifest, step, resolved>>
    BY <1>16 DEF Disturb, Container, Recovers, Fails, vars, suiteVars, emulatorVars
  <2> QED
    BY <1>p, <2>1, ConditionsStay DEF PhaseInv
<1> QED
  BY <1>1, <1>2, <1>3, <1>4, <1>5, <1>6, <1>7, <1>9, <1>10, <1>11, <1>12, <1>13, <1>14,
     <1>15, <1>16 DEF Next, CommandStep

\* What is written down is about the items of the command.
LEMMA OnDiskTyped ==
  ASSUME FilesInv, Item \in Range(Items), NEW v \in SuiteVerdicts, OnDisk(v)
  PROVE  /\ DOMAIN onDisk' \subseteq Range(Items)
         /\ \A item \in DOMAIN onDisk' : onDisk'[item] \in SuiteVerdicts
<1>1. /\ DOMAIN onDisk' = DOMAIN onDisk \cup {Item}
      /\ \A item \in DOMAIN onDisk' :
           onDisk'[item] = IF item = Item THEN v ELSE onDisk[item]
  BY DEF OnDisk
<1> QED
  BY <1>1 DEF FilesInv

LEMMA ClonedTyped ==
  ASSUME FilesInv, Item \in Range(Items), NEW v \in SuiteVerdicts
  PROVE  Cloned(v) \in [Firsts -> Report \cup {None}]
<1>1. [item |-> Item, verdict |-> v] \in Report
  BY DEF Report
<1> QED
  BY <1>1 DEF Cloned, FilesInv

LEMMA FilesKept ==
  ASSUME SuiteInv, [Next]_vars PROVE FilesInv'
<1>p. PhaseInv /\ FilesInv /\ QueueInv
  BY DEF SuiteInv
<1>0. Items' = Items /\ Report' = Report
  BY QueueStep, ItemsStay DEF Report
<1>i. todo # <<>> => Item \in Range(Items)
  BY <1>p, ItemIsNext
<1>b. pc \in Busy => Item \in Range(Items)
  BY <1>p, <1>i, BusyHasItem
<1>1. /\ DOMAIN onDisk' \subseteq Range(Items)
      /\ \A item \in DOMAIN onDisk' : onDisk'[item] \in SuiteVerdicts
  <2>1. CASE UNCHANGED onDisk
    BY <2>1, <1>p DEF FilesInv
  <2>2. CASE Item \in Range(Items) /\ \E v \in SuiteVerdicts : OnDisk(v)
    BY <2>2, <1>p, OnDiskTyped
  <2>3. CASE SkipUnavailable
    <3>1. todo # <<>> /\ OnDisk("Skipped")
      BY <2>3 DEF SkipUnavailable, Finished
    <3> QED
      BY <2>2, <3>1, <1>i DEF SuiteVerdicts
  <2>4. CASE ReportUnavailable
    <3>1. pc \in Busy /\ OnDisk("InfrastructureError")
      BY <2>4 DEF ReportUnavailable, Busy
    <3> QED
      BY <2>2, <3>1, <1>b DEF SuiteVerdicts
  <2>5. CASE ScenarioPasses \/ ScenarioBreaks \/ ScenarioSkipped
    <3>1. pc \in Busy /\ \E v \in SuiteVerdicts : OnDisk(v)
      BY <2>5 DEF ScenarioPasses, ScenarioBreaks, ScenarioSkipped, Executing, EndsWith,
                  Busy, SuiteVerdicts, Graded
    <3> QED
      BY <2>2, <3>1, <1>b
  <2>6. CASE ScenarioRefused \/ RunnerFails
    <3>1. pc \in Busy /\ (UNCHANGED onDisk \/ OnDisk("Break"))
      BY <2>6 DEF ScenarioRefused, RunnerFails, RunnerError, Executing, Busy
    <3> QED
      BY <2>1, <2>2, <3>1, <1>b DEF SuiteVerdicts, Graded
  <2>7. CASE MarkInfrastructureError
    <3>1. pc \in Busy /\ OnDisk("InfrastructureError")
      BY <2>7 DEF MarkInfrastructureError, Rewrite, Busy
    <3> QED
      BY <2>2, <3>1, <1>b DEF SuiteVerdicts
  <2>8. CASE \/ RejectUnknown \/ CallEnsureReady \/ StartWithoutEmulator \/ Started
             \/ UnavailableForUnknown \/ EnterVerdict \/ WriteManifest \/ Return
             \/ WriteFails \/ Disturb
             \/ (pc = "Ensuring" /\ Ensuring /\ UNCHANGED suiteVars) \/ UNCHANGED vars
    <3>1. UNCHANGED onDisk
      BY <2>8 DEF RejectUnknown, CallEnsureReady, StartWithoutEmulator, Started,
                  UnavailableForUnknown, EnterVerdict, WriteManifest, Return, WriteFails,
                  Disturb, suiteVars, vars
    <3> QED
      BY <2>1, <3>1
  <2> QED
    BY <2>3, <2>4, <2>5, <2>6, <2>7, <2>8 DEF Next, CommandStep
<1>2. first' \in [Firsts -> Report \cup {None}]
  <2>1. CASE EnterVerdict
    <3>1. pc = "Probing" /\ first' = Cloned(onDisk[Item])
      BY <2>1 DEF EnterVerdict
    <3>2. onDisk[Item] \in SuiteVerdicts
      BY <1>p, <3>1 DEF PhaseInv, FilesInv
    <3> QED
      BY <1>p, <1>b, <3>1, <3>2, ClonedTyped DEF Busy
  <2>2. CASE MarkInfrastructureError
    <3>1. pc = "Probing" /\ first' = Cloned("InfrastructureError")
      BY <2>2 DEF MarkInfrastructureError, CloneMarked
    <3> QED
      BY <1>p, <1>b, <3>1, ClonedTyped DEF Busy, SuiteVerdicts
  <2>3. CASE ~EnterVerdict /\ ~MarkInfrastructureError
    <3>1. UNCHANGED first
      BY <2>3 DEF Next, CommandStep, SkipUnavailable, RejectUnknown, CallEnsureReady,
                  StartWithoutEmulator, Started, ReportUnavailable,
                  UnavailableForUnknown, ScenarioPasses, ScenarioBreaks, ScenarioSkipped,
                  EndsWith, ScenarioRefused, RunnerFails, RunnerError, ReturnError,
                  WriteManifest, Return, WriteFails, Disturb, suiteVars, vars
    <3> QED
      BY <1>p, <3>1 DEF FilesInv
  <2> QED
    BY <2>1, <2>2, <2>3
<1>3. manifest' \in BOOLEAN /\ failed' \in BOOLEAN
  <2>1. manifest' \in {manifest, TRUE} /\ failed' \in {failed, TRUE}
    BY DEF Next, CommandStep, SkipUnavailable, RejectUnknown, CallEnsureReady,
           StartWithoutEmulator, Started, ReportUnavailable, EnterVerdict,
           MarkInfrastructureError,
           UnavailableForUnknown, ScenarioPasses, ScenarioBreaks, ScenarioSkipped,
           EndsWith, ScenarioRefused, RunnerFails, RunnerError, ReturnError,
           WriteManifest, Return, WriteFails, Disturb, suiteVars, vars
  <2> QED
    BY <1>p, <2>1 DEF FilesInv
<1>4. disturbed' \cup atFault' \cup unfinished' \subseteq Range(Items)
  <2>1. \/ UNCHANGED <<disturbed, atFault, unfinished>>
        \/ /\ pc \in Busy
           /\ disturbed' \subseteq disturbed \cup {Item}
           /\ atFault' \subseteq atFault \cup {Item}
           /\ unfinished' \subseteq unfinished \cup {Item}
    <3>1. CASE Started \/ ScenarioBreaks \/ RunnerFails \/ Disturb
      BY <3>1 DEF Started, ScenarioBreaks, RunnerFails, RunnerError, Disturb, Executing,
                  EndsWith, Busy
    <3>2. CASE ~(Started \/ ScenarioBreaks \/ RunnerFails \/ Disturb)
      BY <3>2 DEF Next, CommandStep, SkipUnavailable, RejectUnknown, CallEnsureReady,
                  StartWithoutEmulator, ReportUnavailable, EnterVerdict,
                  MarkInfrastructureError, UnavailableForUnknown, ScenarioPasses,
                  ScenarioSkipped, EndsWith, ScenarioRefused, RunnerError,
                  WriteManifest, Return, WriteFails, suiteVars, vars
    <3> QED
      BY <3>1, <3>2
  <2> QED
    BY <1>p, <1>b, <2>1 DEF FilesInv
<1> QED
  BY <1>0, <1>1, <1>2, <1>3, <1>4 DEF FilesInv

LEMMA SuiteStep == SuiteInv /\ [Next]_vars => SuiteInv'
BY EmulatorTyped, QueueKept, PhaseKept, FilesKept DEF SuiteInv

LEMMA SuiteInvariant == Spec => []SuiteInv
BY SuiteInit, SuiteStep, PTL DEF Spec

LEMMA TodoIsSuffix == QueueInv => IsSuffix(todo, Items)
<1> SUFFICES ASSUME QueueInv PROVE IsSuffix(todo, Items)
  OBVIOUS
<1> DEFINE m == Len(todo)
           l == Len(results)
           n == Len(Items)
           back == Reverse(todo)
           all == Reverse(Items)
<1>1. /\ Items \in Seq(ItemType) /\ todo \in Seq(ItemType)
      /\ m \in Nat /\ n \in Nat /\ l \in Nat /\ l + m = n
  BY ItemsTyped DEF QueueInv
<1>2. /\ back = [i \in 1..m |-> todo[(m - i) + 1]]
      /\ all = [i \in 1..n |-> Items[(n - i) + 1]]
  BY DEF Reverse
<1>3. \A i \in 1..m : todo[i] = Items[l + i]
  BY DEF QueueInv
<1> HIDE DEF m, n, l, back, all
<1>4. Len(back) = m /\ Len(all) = n
  BY <1>1, <1>2
<1>5. ASSUME NEW i \in 1..m PROVE back[i] = all[i]
  <2>1. (m - i) + 1 \in 1..m /\ l + ((m - i) + 1) = (n - i) + 1 /\ i \in 1..n
    BY <1>1
  <2>2. back[i] = todo[(m - i) + 1] /\ all[i] = Items[(n - i) + 1]
    BY <1>2, <2>1
  <2> QED
    BY <1>3, <2>1, <2>2
<1>6. back \in [1..m -> ItemType] /\ all \in [1..n -> ItemType]
  <2>1. /\ \A i \in 1..m : (m - i) + 1 \in 1..m
        /\ \A i \in 1..n : (n - i) + 1 \in 1..n
    BY <1>1
  <2>2. /\ \A i \in 1..m : todo[i] \in ItemType
        /\ \A i \in 1..n : Items[i] \in ItemType
    BY <1>1 DEF m, n
  <2> QED
    BY <1>2, <2>1, <2>2
<1>7. back \in Seq(ItemType) /\ all \in Seq(ItemType) /\ m <= n
  BY <1>1, <1>6
<1>8. SubSeq(back, 1, m) = SubSeq(all, 1, m)
  <2>1. /\ SubSeq(back, 1, m) \in Seq(ItemType) /\ Len(SubSeq(back, 1, m)) = m
        /\ \A i \in 1..m : SubSeq(back, 1, m)[i] = back[i]
    BY <1>1, <1>4, <1>7
  <2>2. /\ SubSeq(all, 1, m) \in Seq(ItemType) /\ Len(SubSeq(all, 1, m)) = m
        /\ \A i \in 1..m : SubSeq(all, 1, m)[i] = all[i]
    BY <1>1, <1>4, <1>7
  <2> QED
    BY <1>5, <2>1, <2>2
<1> QED
  BY <1>4, <1>7, <1>8 DEF IsSuffix, IsPrefix, back, all

\* Types, and a queue that is always the rest of what the command has to do: an item
\* is taken from it exactly when its report is entered (the loops of run_suite and
\* run_frontier in runner.rs).
THEOREM TypeOKTheorem == Spec => []TypeOK
<1>1. SuiteInv => TypeOK
  <2> SUFFICES ASSUME SuiteInv PROVE TypeOK
    OBVIOUS
  <2>1. \A item \in DOMAIN onDisk : onDisk[item] \in SuiteVerdicts
    BY DEF SuiteInv, FilesInv
  <2>2. Range(onDisk) \subseteq SuiteVerdicts
    BY <2>1 DEF Range
  <2>3. IsSuffix(todo, Items)
    BY TodoIsSuffix DEF SuiteInv
  <2> QED
    BY <2>2, <2>3 DEF SuiteInv, QueueInv, PhaseInv, FilesInv, TypeOK
<1> QED
  BY <1>1, SuiteInvariant, PTL

-----------------------------------------------------------------------------
(* What a frontier names, and where it stops                                *)

\* A report is entered together with what is cloned of it.
LEMMA EnterStep ==
  ASSUME SuiteInv, [Next]_vars
  PROVE  \/ UNCHANGED <<todo, results, first>>
         \/ ~Finished /\ \E v : Entered(v) /\ first' = Cloned(v)
<1>p. PhaseInv /\ FilesInv
  BY DEF SuiteInv
<1>1. CASE SkipUnavailable
  <2>1. ~Finished /\ todo # <<>> /\ Enter("Skipped") /\ UNCHANGED first
    BY <1>1 DEF SkipUnavailable, Finished
  <2>2. Cloned("Skipped") = first
    BY DEF Cloned, Firsts
  <2> QED
    BY <2>1, <2>2 DEF Entered, SuiteVerdicts
<1>2. CASE ReportUnavailable
  <2>1. ~Finished /\ todo # <<>>
    BY <1>2, <1>p, BusyHasItem DEF ReportUnavailable, Busy
  <2>2. Enter("InfrastructureError") /\ UNCHANGED first
    BY <1>2 DEF ReportUnavailable, EnterUnavailable
  <2>3. Cloned("InfrastructureError") = first
    BY DEF Cloned, Firsts
  <2> QED
    BY <2>1, <2>2, <2>3 DEF Entered, SuiteVerdicts
<1>3. CASE EnterVerdict
  <2>1. todo # <<>> /\ ~Finished /\ Item \in DOMAIN onDisk
    BY <1>3, <1>p, BusyHasItem DEF EnterVerdict, Busy, PhaseInv
  <2>2. onDisk[Item] \in SuiteVerdicts
    BY <2>1, <1>p DEF FilesInv
  <2>3. Enter(onDisk[Item]) /\ first' = Cloned(onDisk[Item])
    BY <1>3 DEF EnterVerdict
  <2> QED
    BY <2>1, <2>2, <2>3 DEF Entered
<1>4. CASE MarkInfrastructureError
  <2>1. ~Finished /\ todo # <<>>
    BY <1>4, <1>p, BusyHasItem DEF MarkInfrastructureError, Busy
  <2> QED
    BY <1>4, <2>1 DEF MarkInfrastructureError, CloneMarked, Entered, SuiteVerdicts
<1>5. CASE ~(SkipUnavailable \/ ReportUnavailable \/ EnterVerdict \/ MarkInfrastructureError)
  BY <1>5 DEF Next, CommandStep, RejectUnknown, CallEnsureReady,
              StartWithoutEmulator, Started,
              UnavailableForUnknown, ScenarioPasses, ScenarioBreaks, ScenarioSkipped,
              EndsWith, ScenarioRefused, RunnerFails, RunnerError, ReturnError,
              WriteManifest, Return, WriteFails, Disturb, suiteVars, vars
<1> QED
  BY <1>1, <1>2, <1>3, <1>4, <1>5

\* f is the first of the first l reports whose verdict is v, if there is one.
IsFirst(f, v, rs, l) ==
  \/ f = None /\ \A n \in 1..l : rs[n].verdict # v
  \/ \E n \in 1..l : /\ f = rs[n] /\ rs[n].verdict = v
                     /\ \A m \in 1..(n - 1) : rs[m].verdict # v

FirstsInv ==
  command.kind = "Frontier" =>
    \A v \in Firsts : IsFirst(first[v], v, results, Len(results))

\* A report named for its verdict is not None.
LEMMA NamedIsSome ==
  ASSUME NEW v \in Firsts, NEW f, f.verdict = v PROVE f # None
BY DEF Firsts, None

LEMMA IsFirstGrows ==
  ASSUME NEW v \in Firsts, NEW f, NEW rs, NEW rss, NEW l \in Nat, NEW r, NEW w,
         IsFirst(f, v, rs, l),
         \A n \in 1..l : rss[n] = rs[n],
         rss[l + 1] = r, r.verdict = w
  PROVE  IsFirst(IF w = v /\ f = None THEN r ELSE f, v, rss, l + 1)
<1>1. /\ \A n \in 1..(l + 1) : n \in 1..l \/ n = l + 1
      /\ l + 1 \in 1..(l + 1) /\ \A n \in 1..l : n \in 1..(l + 1)
      /\ (l + 1) - 1 = l
      /\ \A n \in 1..l : \A m \in 1..(n - 1) : m \in 1..l
  OBVIOUS
<1>2. CASE f = None /\ \A n \in 1..l : rs[n].verdict # v
  <2>1. CASE w = v
    <3>1. \A m \in 1..((l + 1) - 1) : rss[m].verdict # v
      BY <1>1, <1>2
    <3>2. IsFirst(r, v, rss, l + 1)
      BY <1>1, <2>1, <3>1 DEF IsFirst
    <3> QED
      BY <1>2, <2>1, <3>2
  <2>2. CASE w # v
    <3>1. \A n \in 1..(l + 1) : rss[n].verdict # v
      BY <1>1, <1>2, <2>2
    <3>2. IsFirst(f, v, rss, l + 1)
      BY <1>2, <3>1 DEF IsFirst
    <3> QED
      BY <2>2, <3>2
  <2> QED
    BY <2>1, <2>2
<1>3. ASSUME NEW n \in 1..l, f = rs[n], rs[n].verdict = v,
             \A m \in 1..(n - 1) : rs[m].verdict # v
      PROVE  IsFirst(IF w = v /\ f = None THEN r ELSE f, v, rss, l + 1)
  <2>1. f # None
    BY <1>3, NamedIsSome
  <2>2. /\ n \in 1..(l + 1) /\ rss[n] = f /\ rss[n].verdict = v
        /\ \A m \in 1..(n - 1) : rss[m].verdict # v
    BY <1>1, <1>3
  <2>3. IsFirst(f, v, rss, l + 1)
    BY <2>2 DEF IsFirst
  <2> QED
    BY <2>1, <2>3
<1> QED
  BY <1>2, <1>3 DEF IsFirst

LEMMA FirstsInit == Init => FirstsInv
<1> SUFFICES ASSUME Init, NEW v \in Firsts
             PROVE  IsFirst(first[v], v, results, Len(results))
  BY DEF FirstsInv
<1>1. first[v] = None /\ Len(results) = 0 /\ \A n \in 1..0 : FALSE
  BY DEF Init
<1> QED
  BY <1>1 DEF IsFirst

LEMMA FirstsStep == SuiteInv /\ FirstsInv /\ [Next]_vars => FirstsInv'
<1> SUFFICES ASSUME SuiteInv, FirstsInv, [Next]_vars PROVE FirstsInv'
  OBVIOUS
<1>1. UNCHANGED command
  BY QueueStep
<1>2. CASE UNCHANGED <<results, first>>
  BY <1>1, <1>2 DEF FirstsInv
<1>3. ASSUME NEW w, Entered(w), first' = Cloned(w), command.kind = "Frontier",
             NEW v \in Firsts
      PROVE  IsFirst(first'[v], v, results', Len(results'))
  <2> DEFINE l == Len(results)
             r == [item |-> Item, verdict |-> w]
  <2>1. /\ Len(results') = l + 1 /\ results'[l + 1] = r
        /\ \A n \in 1..l : results'[n] = results[n]
    BY <1>1, <1>3, EnterKeepsQueue DEF SuiteInv, Entered, At
  <2>2. l \in Nat /\ r.verdict = w
    BY DEF SuiteInv, QueueInv
  <2>3. IsFirst(first[v], v, results, l)
    BY <1>3 DEF FirstsInv
  <2>4. first'[v] = IF w = v /\ first[v] = None THEN r ELSE first[v]
    BY <1>3 DEF Cloned, SuiteInv, FilesInv
  <2> HIDE DEF l, r
  <2>5. IsFirst(IF w = v /\ first[v] = None THEN r ELSE first[v], v, results', l + 1)
    BY <2>1, <2>2, <2>3, IsFirstGrows
  <2> QED
    BY <2>1, <2>4, <2>5
<1>4. CASE \E w : Entered(w) /\ first' = Cloned(w)
  BY <1>1, <1>3, <1>4 DEF FirstsInv
<1> QED
  BY <1>2, <1>4, EnterStep

LEMMA FirstsInvariant == Spec => []FirstsInv
BY FirstsInit, FirstsStep, SuiteInvariant, PTL DEF Spec

\* The first wobble, bend and break in the manifest of a frontier are the first of
\* their kind among its reports: run_frontier clones a report only after a broken
\* emulator has marked it.
THEOREM FrontierNamesFirstTheorem == Spec => []FrontierNamesFirst
<1>1. SuiteInv /\ FirstsInv => FrontierNamesFirst
  <2> SUFFICES ASSUME SuiteInv, FirstsInv, command.kind = "Frontier", NEW v \in Firsts
               PROVE  LET hits == {n \in DOMAIN results : results[n].verdict = v}
                      IN  first[v] = IF hits = {} THEN None ELSE results[Min(hits)]
    BY DEF FrontierNamesFirst
  <2> DEFINE hits == {n \in DOMAIN results : results[n].verdict = v}
             l == Len(results)
  <2>1. DOMAIN results = 1..l /\ l \in Nat
    BY DEF SuiteInv, QueueInv
  <2>2. IsFirst(first[v], v, results, l)
    BY DEF FirstsInv
  <2>3. CASE first[v] = None /\ \A n \in 1..l : results[n].verdict # v
    <3>1. hits = {}
      BY <2>1, <2>3
    <3> QED
      BY <2>3, <3>1
  <2>4. ASSUME NEW n \in 1..l, first[v] = results[n], results[n].verdict = v,
               \A m \in 1..(n - 1) : results[m].verdict # v
        PROVE  first[v] = IF hits = {} THEN None ELSE results[Min(hits)]
    <3>1. n \in hits /\ n \in Nat
      BY <2>1, <2>4
    <3>2. \A m \in hits : n <= m /\ m \in Nat
      <4> SUFFICES ASSUME NEW m \in hits PROVE n <= m /\ m \in Nat
        OBVIOUS
      <4>1. m \in 1..l /\ results[m].verdict = v
        BY <2>1
      <4>2. m \notin 1..(n - 1)
        BY <2>4, <4>1
      <4> QED
        BY <2>4, <4>1, <4>2
    <3>3. Min(hits) = n
      <4> HIDE DEF hits
      <4>1. \E x \in hits : \A y \in hits : x <= y
        BY <3>1, <3>2
      <4>2. Min(hits) \in hits /\ \A y \in hits : Min(hits) <= y
        BY <4>1 DEF Min
      <4>3. Min(hits) <= n /\ n <= Min(hits) /\ Min(hits) \in Nat
        BY <3>1, <3>2, <4>2
      <4> QED
        BY <3>1, <4>3
    <3> QED
      BY <2>4, <3>1, <3>3
  <2> QED
    BY <2>2, <2>3, <2>4 DEF IsFirst
<1> QED
  BY <1>1, SuiteInvariant, FirstsInvariant, PTL

\* Nothing was run at a larger scale than one at which something broke.
BreakInv ==
  command.kind = "Frontier" =>
    \A m, n \in 1..Len(results) :
      results[m].verdict = "Break" => Items[n].scale <= Items[m].scale

LEMMA Climbs ==
  ASSUME NEW a \in Nat, NEW b \in Nat, NEW c \in Nat, NEW d \in Nat,
         a <= b, b <= c, b # c, c <= d
  PROVE  a < d
OBVIOUS

LEMMA ScalesAreNaturals ==
  ASSUME command \in Commands, NEW n \in 1..Len(Items) PROVE Items[n].scale \in Nat
<1>1. Items[n] \in ItemType
  BY ItemsTyped
<1> QED
  BY <1>1 DEF ItemType

\* Where something broke, first.Break is there.
LEMMA BreakIsNamed ==
  ASSUME SuiteInv, FirstsInv, command.kind = "Frontier"
  PROVE  first.Break # None <=> \E m \in 1..Len(results) : results[m].verdict = "Break"
<1>1. IsFirst(first["Break"], "Break", results, Len(results)) /\ "Break" \in Firsts
  BY DEF FirstsInv, Firsts
<1> QED
  BY <1>1, NamedIsSome DEF IsFirst

LEMMA LastIsBefore ==
  ASSUME SuiteInv, Len(results) # 0
  PROVE  /\ Len(results) \in 1..Len(results)
         /\ Last(results).item = Items[Len(results)]
BY DEF SuiteInv, QueueInv, Last

LEMMA BreakStep ==
  ASSUME SuiteInv, FirstsInv, BreakInv, command.kind = "Frontier",
         NEW w, Entered(w), ~Finished,
         NEW m \in 1..At, NEW n \in 1..At, results'[m].verdict = "Break", UNCHANGED command
  PROVE  Items[n].scale <= Items[m].scale
<1> DEFINE l == Len(results)
<1>1. /\ At = l + 1 /\ l \in Nat /\ At \in 1..Len(Items) /\ Item = Items[At]
      /\ \A k \in 1..l : results'[k] = results[k]
      /\ \A k \in 1..l : k \in 1..Len(Items)
  <2>1. At \in 1..Len(Items) /\ Item = Items[At]
    BY ItemIsNext DEF SuiteInv, Entered
  <2>2. \A k \in 1..l : results'[k] = results[k]
    BY EnterKeepsQueue DEF SuiteInv, Entered
  <2>3. l \in Nat /\ Len(todo) \in Nat /\ l + Len(todo) = Len(Items)
    BY DEF SuiteInv, QueueInv
  <2>4. \A k \in 1..l : k \in 1..Len(Items)
    <3> HIDE DEF l
    <3> QED
      BY <2>3
  <2>5. At = l + 1
    BY DEF At
  <2> HIDE DEF l
  <2> QED
    BY <2>1, <2>2, <2>3, <2>4, <2>5
<1>2. \A k \in 1..Len(Items) : Items[k].scale \in Nat
  BY ScalesAreNaturals DEF SuiteInv, QueueInv
<1>3. m \in 1..l \/ m = At
  BY <1>1
<1>4. n \in 1..l \/ n = At
  BY <1>1
<1>5. CASE m \in 1..l /\ n \in 1..l
  BY <1>1, <1>5 DEF BreakInv
<1>6. CASE m = At
  <2>1. CASE n = At
    BY <1>1, <1>2, <1>6, <2>1
  <2>2. CASE n \in 1..l
    <3>1. n < At /\ n \in 1..Len(Items)
      BY <1>1, <2>2
    <3> QED
      BY <1>1, <1>6, <3>1, ItemsAscend DEF SuiteInv, QueueInv
  <2> QED
    BY <1>4, <2>1, <2>2
<1>7. CASE m \in 1..l /\ n = At
  <2>1. results[m].verdict = "Break" /\ l # 0
    BY <1>1, <1>7
  <2>2. first.Break # None
    BY <1>7, <2>1, BreakIsNamed
  <2>3. Item.scale = Last(results).item.scale
    BY <2>2 DEF Finished, BehindBreak, Entered
  <2>4. Items[At].scale = Items[l].scale /\ l \in 1..l
    BY <1>1, <2>1, <2>3, LastIsBefore
  <2> QED
    BY <1>7, <2>1, <2>4 DEF BreakInv
<1> QED
  BY <1>3, <1>4, <1>5, <1>6, <1>7

LEMMA BreakInvariant == Spec => []BreakInv
<1>1. Init => BreakInv
  BY DEF Init, BreakInv
<1>2. SuiteInv /\ FirstsInv /\ BreakInv /\ [Next]_vars => BreakInv'
  <2> SUFFICES ASSUME SuiteInv, FirstsInv, BreakInv, [Next]_vars PROVE BreakInv'
    OBVIOUS
  <2>1. UNCHANGED command /\ Items' = Items
    BY QueueStep, ItemsStay
  <2>2. CASE UNCHANGED results
    BY <2>1, <2>2 DEF BreakInv
  <2>3. ASSUME NEW w, Entered(w), ~Finished PROVE BreakInv'
    <3>1. Len(results') = At
      BY <2>1, <2>3, EnterKeepsQueue DEF SuiteInv, Entered
    <3> QED
      BY <2>1, <2>3, <3>1, BreakStep DEF BreakInv
  <2> QED
    BY <2>2, <2>3, EnterStep
<1> QED
  BY <1>1, <1>2, SuiteInvariant, FirstsInvariant, PTL DEF Spec

\* A finished command has a report for every item, in order; a frontier, for those
\* up to the end of the first scale at which something broke (the two loops of
\* run_frontier in runner.rs and the break behind the inner one).
THEOREM EveryItemReportedTheorem == Spec => []EveryItemReported
<1>1. SuiteInv /\ FirstsInv /\ BreakInv => EveryItemReported
  <2> SUFFICES ASSUME SuiteInv, FirstsInv, BreakInv, manifest
               PROVE  EveryItemReported
    BY DEF EveryItemReported
  <2> DEFINE l == Len(results)
             Beyond(item) == \E n \in DOMAIN results :
               results[n].verdict = "Break" /\ results[n].item.scale < item.scale
             due == {n \in DOMAIN Items : command.kind = "Frontier" => ~Beyond(Items[n])}
  <2>1. /\ command \in Commands /\ l \in Nat /\ DOMAIN results = 1..l
        /\ Items \in Seq(ItemType) /\ DOMAIN Items = 1..Len(Items) /\ Len(Items) \in Nat
        /\ l + Len(todo) = Len(Items) /\ Len(todo) \in Nat
        /\ \A n \in 1..l : results[n].item = Items[n]
    BY ItemsTyped DEF SuiteInv, QueueInv
  <2>2. \A n \in 1..l : n \in 1..Len(Items) /\ n \in Nat
    BY <2>1
  <2>3. \A n \in 1..Len(Items) : Items[n].scale \in Nat
    BY <2>1, ScalesAreNaturals
  <2>4. Finished
    BY DEF SuiteInv, PhaseInv
  <2>5. ASSUME NEW n \in 1..l, command.kind = "Frontier", Beyond(Items[n]) PROVE FALSE
    <3>1. PICK m \in 1..l : results[m].verdict = "Break" /\ Items[m].scale < Items[n].scale
      BY <2>1, <2>5
    <3>2. Items[n].scale <= Items[m].scale
      BY <2>5, <3>1 DEF BreakInv
    <3> QED
      BY <2>2, <2>3, <3>1, <3>2
  <2>6. ASSUME NEW n \in 1..Len(Items), n \notin 1..l
        PROVE  command.kind = "Frontier" /\ Beyond(Items[n])
    <3>1. n > l /\ Len(todo) # 0 /\ todo # <<>> /\ n \in Nat
      BY <2>1, <2>6
    <3>2. BehindBreak
      BY <2>4, <3>1 DEF Finished
    <3>3. /\ command.kind = "Frontier" /\ first.Break # None
          /\ Item.scale # Last(results).item.scale
      BY <3>2 DEF BehindBreak
    <3>4. PICK m \in 1..l : results[m].verdict = "Break"
      BY <3>3, BreakIsNamed
    <3>5. l # 0 /\ l \in 1..l
      BY <2>1, <3>4
    <3>6. Item = Items[l + 1] /\ l + 1 \in 1..Len(Items)
      BY <3>1, ItemIsNext DEF SuiteInv, At
    <3>7. Last(results).item = Items[l]
      BY <3>5, LastIsBefore
    <3>8. Items[l].scale <= Items[l + 1].scale
      BY <2>1, <2>2, <3>3, <3>5, <3>6, ItemsAscend
    <3>9. Items[m].scale <= Items[l].scale
      <4>1. CASE m = l
        BY <2>2, <2>3, <4>1
      <4>2. CASE m # l
        <5>1. m < l
          <6> HIDE DEF l
          <6>1. m \in 1..l
            BY <3>4
          <6> QED
            BY <2>1, <4>2, <6>1
        <5> QED
          BY <2>1, <2>2, <3>3, <3>5, <5>1, ItemsAscend
      <4> QED
        BY <4>1, <4>2
    <3>10. Items[l + 1].scale <= Items[n].scale
      <4>1. CASE n = l + 1
        BY <2>3, <4>1
      <4>2. CASE n # l + 1
        <5>1. l + 1 < n
          BY <2>1, <3>1, <4>2
        <5> QED
          BY <2>1, <3>3, <3>6, <5>1, ItemsAscend
      <4> QED
        BY <4>1, <4>2
    <3>11. Items[m].scale < Items[n].scale
      <4>1. /\ Items[m].scale \in Nat /\ Items[l].scale \in Nat
            /\ Items[l + 1].scale \in Nat /\ Items[n].scale \in Nat
        BY <2>2, <2>3, <3>5, <3>6
      <4>2. Items[l].scale # Items[l + 1].scale
        BY <3>3, <3>6, <3>7
      <4> QED
        BY <3>8, <3>9, <3>10, <4>1, <4>2, Climbs
    <3>12. Beyond(Items[n])
      BY <2>1, <3>4, <3>11
    <3> QED
      BY <3>3, <3>12
  <2> HIDE DEF Beyond, l
  <2>7. DOMAIN results = due
    BY <2>1, <2>2, <2>5, <2>6
  <2>8. \A n \in due : results[n].item = Items[n]
    BY <2>1, <2>7
  <2> QED
    BY <2>7, <2>8 DEF EveryItemReported, Beyond
<1> QED
  BY <1>1, SuiteInvariant, FirstsInvariant, BreakInvariant, PTL

-----------------------------------------------------------------------------
(* The reports on disk and in the manifest                                  *)

\* Whatever is written is written for the next item; what is reported about it is on
\* disk.
LEMMA WriteStep ==
  ASSUME SuiteInv, [Next]_vars
  PROVE  \/ UNCHANGED <<results, onDisk>>
         \/ todo # <<>> /\ UNCHANGED results /\ \E v : OnDisk(v)
         \/ \E v : /\ Entered(v)
                   /\ OnDisk(v) \/ (/\ UNCHANGED onDisk /\ Item \in DOMAIN onDisk
                                    /\ onDisk[Item] = v)
<1>p. PhaseInv /\ FilesInv
  BY DEF SuiteInv
<1>1. CASE SkipUnavailable
  BY <1>1 DEF SkipUnavailable, Finished, Entered, SuiteVerdicts
<1>2. CASE ReportUnavailable
  <2>1. todo # <<>>
    BY <1>2, <1>p, BusyHasItem DEF ReportUnavailable, Busy
  <2> QED
    BY <1>2, <2>1 DEF ReportUnavailable, EnterUnavailable, Entered, SuiteVerdicts
<1>3. CASE EnterVerdict
  <2>1. todo # <<>> /\ Item \in DOMAIN onDisk
    BY <1>3, <1>p, BusyHasItem DEF EnterVerdict, Busy, PhaseInv
  <2>2. onDisk[Item] \in SuiteVerdicts
    BY <2>1, <1>p DEF FilesInv
  <2>3. Enter(onDisk[Item]) /\ UNCHANGED onDisk
    BY <1>3 DEF EnterVerdict
  <2>4. Entered(onDisk[Item])
    BY <2>1, <2>2, <2>3 DEF Entered
  <2> QED
    BY <2>1, <2>3, <2>4
<1>4. CASE MarkInfrastructureError
  <2>1. todo # <<>>
    BY <1>4, <1>p, BusyHasItem DEF MarkInfrastructureError, Busy
  <2> QED
    BY <1>4, <2>1 DEF MarkInfrastructureError, Rewrite, Entered, SuiteVerdicts
<1>5. CASE ScenarioPasses \/ ScenarioBreaks \/ ScenarioSkipped \/ ScenarioRefused \/ RunnerFails
  <2>1. /\ pc \in Busy /\ UNCHANGED results
        /\ UNCHANGED onDisk \/ \E v : OnDisk(v)
    BY <1>5 DEF ScenarioPasses, ScenarioBreaks, ScenarioSkipped, EndsWith, ScenarioRefused,
                RunnerFails, RunnerError, ReturnError, Executing, Busy
  <2> QED
    BY <1>p, <2>1, BusyHasItem
<1>6. CASE \/ RejectUnknown \/ CallEnsureReady \/ StartWithoutEmulator \/ Started
           \/ UnavailableForUnknown \/ WriteManifest \/ Return \/ WriteFails \/ Disturb
           \/ (pc = "Ensuring" /\ Ensuring /\ UNCHANGED suiteVars) \/ UNCHANGED vars
  BY <1>6 DEF RejectUnknown, CallEnsureReady, StartWithoutEmulator, Started,
              UnavailableForUnknown, WriteManifest, Return, WriteFails, ReturnError,
              Disturb, suiteVars, vars
<1> QED
  BY <1>1, <1>2, <1>3, <1>4, <1>5, <1>6 DEF Next, CommandStep

\* The file of an item has the verdict of its report, whether or not the manifest is
\* written.
ArtifactsInv ==
  \A n \in 1..Len(results) :
    Items[n] \in DOMAIN onDisk /\ onDisk[Items[n]] = results[n].verdict

LEMMA OthersStayOnDisk ==
  ASSUME NEW v, OnDisk(v), NEW item \in DOMAIN onDisk, item # Item
  PROVE  item \in DOMAIN onDisk' /\ onDisk'[item] = onDisk[item]
BY DEF OnDisk

LEMMA ItemIsOnDisk ==
  ASSUME NEW v, OnDisk(v) PROVE Item \in DOMAIN onDisk' /\ onDisk'[Item] = v
BY DEF OnDisk

LEMMA ArtifactsStep ==
  ASSUME IsInjective(Seeds), SuiteInv, ArtifactsInv, [Next]_vars
  PROVE  ArtifactsInv'
<1> DEFINE l == Len(results)
<1>q. /\ QueueInv /\ l \in Nat /\ command \in Commands /\ l + Len(todo) = Len(Items)
      /\ Len(todo) \in Nat
  BY DEF SuiteInv, QueueInv
<1>0. UNCHANGED command /\ Items' = Items
  BY QueueStep, ItemsStay
<1> HIDE DEF l
<1>1. ASSUME todo # <<>>, NEW n \in 1..l PROVE Items[n] # Item
  <2>1. At \in 1..Len(Items) /\ Item = Items[At] /\ At = l + 1
    BY <1>q, <1>1, ItemIsNext DEF At, l
  <2>2. n \in 1..Len(Items) /\ n # At
    BY <1>q, <2>1
  <2> QED
    BY <1>q, <2>1, <2>2, ItemsDiffer
<1>2. ASSUME NEW n \in 1..l PROVE Items[n] \in DOMAIN onDisk /\ onDisk[Items[n]] = results[n].verdict
  BY DEF ArtifactsInv, l
<1>3. CASE UNCHANGED <<results, onDisk>>
  BY <1>0, <1>3 DEF ArtifactsInv
<1>4. ASSUME todo # <<>>, NEW v, OnDisk(v), NEW n \in 1..l
      PROVE  Items[n] \in DOMAIN onDisk' /\ onDisk'[Items[n]] = results[n].verdict
  BY <1>1, <1>2, <1>4, OthersStayOnDisk
<1>5. CASE todo # <<>> /\ UNCHANGED results /\ \E v : OnDisk(v)
  BY <1>0, <1>4, <1>5 DEF ArtifactsInv, l
<1>6. ASSUME NEW v, Entered(v),
             OnDisk(v) \/ (UNCHANGED onDisk /\ Item \in DOMAIN onDisk /\ onDisk[Item] = v)
      PROVE  ArtifactsInv'
  <2>1. /\ todo # <<>> /\ At = l + 1 /\ Item = Items[At]
        /\ Len(results') = At /\ results'[At].verdict = v
        /\ \A n \in 1..l : results'[n] = results[n]
    <3>1. todo # <<>> /\ v \in SuiteVerdicts /\ Enter(v)
      BY <1>6 DEF Entered
    <3>2. /\ Len(results') = At /\ results'[At] = [item |-> Item, verdict |-> v]
          /\ \A n \in 1..l : results'[n] = results[n]
      BY <1>0, <1>q, <3>1, EnterKeepsQueue DEF l
    <3>3. Item = Items[At] /\ At = l + 1
      BY <1>q, <3>1, ItemIsNext DEF At, l
    <3> QED
      BY <3>1, <3>2, <3>3
  <2>2. Item \in DOMAIN onDisk' /\ onDisk'[Item] = v
    BY <1>6, ItemIsOnDisk
  <2>3. \A n \in 1..l : Items[n] \in DOMAIN onDisk' /\ onDisk'[Items[n]] = results[n].verdict
    BY <1>2, <1>4, <1>6, <2>1
  <2>4. \A n \in 1..At : n \in 1..l \/ n = At
    BY <1>q, <2>1
  <2> QED
    BY <1>0, <2>1, <2>2, <2>3, <2>4 DEF ArtifactsInv
<1> QED
  BY <1>3, <1>5, <1>6, WriteStep

\* The scenario reports on disk and the manifest tell the same story.  That the seeds
\* differ is needed: run_frontier adds the offset of a seed with saturating_add
\* (src/src/runner.rs), and two runs whose seeds saturate would share the directories
\* of a runner error and of an infrastructure error.
THEOREM ArtifactsAgreeTheorem ==
  ASSUME IsInjective(Seeds) PROVE Spec => []ArtifactsAgree
<1>1. Init => ArtifactsInv
  <2> SUFFICES ASSUME Init PROVE ArtifactsInv
    OBVIOUS
  <2>1. Len(results) = 0 /\ \A n \in 1..0 : FALSE
    BY DEF Init
  <2> QED
    BY <2>1 DEF ArtifactsInv
<1>2. SuiteInv /\ ArtifactsInv /\ [Next]_vars => ArtifactsInv'
  BY ArtifactsStep
<1>3. SuiteInv /\ ArtifactsInv => ArtifactsAgree
  <2> SUFFICES ASSUME SuiteInv, ArtifactsInv, NEW n \in DOMAIN results
               PROVE  onDisk[results[n].item] = results[n].verdict
    BY DEF ArtifactsAgree
  <2>1. n \in 1..Len(results) /\ results[n].item = Items[n]
    BY DEF SuiteInv, QueueInv
  <2> QED
    BY <2>1 DEF ArtifactsInv
<1> QED
  BY <1>1, <1>2, <1>3, SuiteInvariant, PTL DEF Spec

-----------------------------------------------------------------------------
(* What is skipped                                                          *)

\* A suite, or a frontier over all scenarios.
Chosen == command.kind = "Suite" \/ (command.kind = "Frontier" /\ command.name = AllScenarios)

\* Ruled out by the backend or the features, or by the opt-in of the Sqrzl tier.
RuledOut(scenario) ==
  \/ ~Executable(scenario, command.backend, command.failpoints)
  \/ command.backend = "Sqrzl" /\ ~command.cloudSmoke

\* Selection and validation agree: for_backend and includes against validate_scenario.
LEMMA SelectionAgrees ==
  ASSUME NEW scenario, Selected(scenario)
  PROVE  Executable(scenario, command.backend, command.failpoints) <=> Available(scenario)
<1>1. Includes(scenario, command.backend)
  BY DEF Selected
<1>2. LocalOnly \cap CloudOnly = {}
  BY DEF LocalOnly, CloudOnly
<1>3. /\ ~(scenario \in LocalOnly /\ command.backend # "Local")
      /\ ~(scenario \in CloudOnly /\ ~IsCloud(command.backend))
  BY <1>1, <1>2 DEF Includes
<1> QED
  BY <1>3 DEF Executable, Available

LEMMA ChosenItem ==
  ASSUME SuiteInv, Chosen, todo # <<>>
  PROVE  /\ Known
         /\ Executable(Item.scenario, command.backend, command.failpoints)
              <=> Available(Item.scenario)
         /\ command.kind = "Frontier" => Available(Item.scenario)
<1>1. QueueInv /\ command \in Commands
  BY DEF SuiteInv, QueueInv
<1>2. At \in 1..Len(Items) /\ Item = Items[At]
  BY <1>1, ItemIsNext
<1>3. /\ Items[At].scenario \in Range(Catalog) /\ Selected(Items[At].scenario)
      /\ command.kind = "Frontier" => Available(Items[At].scenario)
  BY <1>1, <1>2, ItemsSelected DEF Chosen
<1> QED
  BY <1>2, <1>3, SelectionAgrees DEF Known

\* While an item is being worked on, the backend and the features do not rule it out.
LEMMA ChosenIsExecutable ==
  ASSUME SuiteInv, Chosen, pc \in Busy
  PROVE  Known /\ Executable(Item.scenario, command.backend, command.failpoints)
<1>1. todo # <<>>
  BY BusyHasItem DEF SuiteInv
<1>2. command.kind = "Suite" => Available(Item.scenario)
  BY DEF SuiteInv, PhaseInv, Busy
<1> QED
  BY <1>1, <1>2, ChosenItem DEF Chosen

SkippedInv ==
  /\ pc = "Ensuring" => Emulated
  /\ Chosen =>
       /\ \A n \in 1..Len(results) : Items[n] \notin unfinished =>
            (results[n].verdict = "Skipped" <=> RuledOut(Items[n].scenario))
       /\ pc = "Probing" /\ Item \notin unfinished =>
            (onDisk[Item] = "Skipped" <=> RuledOut(Item.scenario))

LEMMA ChosenStays ==
  ASSUME UNCHANGED command
  PROVE  Chosen' = Chosen /\ \A scenario : RuledOut(scenario)' = RuledOut(scenario)
BY DEF Chosen, RuledOut

\* Every report has a cause.
Because(v) ==
  \/ /\ pc = "Select" /\ v = "Skipped"
     /\ command.kind = "Suite" /\ ~Available(Item.scenario)
  \/ pc = "Ensuring" /\ v = "InfrastructureError" /\ Known
  \/ pc = "Probing" /\ StillHealthy /\ v = onDisk[Item]
  \/ pc = "Probing" /\ ~StillHealthy /\ v = "InfrastructureError"

Histories == <<disturbed, atFault, unfinished>>

LEMMA CauseStep ==
  ASSUME SuiteInv, [Next]_vars
  PROVE  \/ UNCHANGED <<todo, results>>
         \/ \E v : Entered(v) /\ Because(v) /\ UNCHANGED Histories
<1>p. PhaseInv /\ FilesInv
  BY DEF SuiteInv
<1>1. CASE SkipUnavailable
  <2>1. Entered("Skipped") /\ Because("Skipped") /\ UNCHANGED Histories
    BY <1>1 DEF SkipUnavailable, Finished, Entered, SuiteVerdicts, Because, Histories
  <2> QED
    BY <2>1
<1>2. CASE ReportUnavailable
  <2>1. todo # <<>>
    BY <1>2, <1>p, BusyHasItem DEF ReportUnavailable, Busy
  <2>2. /\ Entered("InfrastructureError") /\ Because("InfrastructureError")
        /\ UNCHANGED Histories
    BY <1>2, <2>1
       DEF ReportUnavailable, EnterUnavailable, Entered, SuiteVerdicts, Because, Histories
  <2> QED
    BY <2>2
<1>3. CASE EnterVerdict
  <2>1. todo # <<>> /\ Item \in DOMAIN onDisk
    BY <1>3, <1>p, BusyHasItem DEF EnterVerdict, Busy, PhaseInv
  <2>2. onDisk[Item] \in SuiteVerdicts
    BY <2>1, <1>p DEF FilesInv
  <2>3. Entered(onDisk[Item]) /\ Because(onDisk[Item]) /\ UNCHANGED Histories
    BY <1>3, <2>1, <2>2 DEF EnterVerdict, Entered, Because, Histories
  <2> QED
    BY <2>3
<1>4. CASE MarkInfrastructureError
  <2>1. todo # <<>>
    BY <1>4, <1>p, BusyHasItem DEF MarkInfrastructureError, Busy
  <2>2. /\ Entered("InfrastructureError") /\ Because("InfrastructureError")
        /\ UNCHANGED Histories
    BY <1>4, <2>1 DEF MarkInfrastructureError, Entered, SuiteVerdicts, Because, Histories
  <2> QED
    BY <2>2
<1>5. CASE ~(SkipUnavailable \/ ReportUnavailable \/ EnterVerdict \/ MarkInfrastructureError)
  BY <1>5 DEF Next, CommandStep, RejectUnknown, CallEnsureReady,
              StartWithoutEmulator, Started,
              UnavailableForUnknown, ScenarioPasses, ScenarioBreaks, ScenarioSkipped,
              EndsWith, ScenarioRefused, RunnerFails, RunnerError, ReturnError,
              WriteManifest, Return, WriteFails, Disturb, suiteVars, vars
<1> QED
  BY <1>1, <1>2, <1>3, <1>4, <1>5

\* An item says skipped if and only if it is ruled out.
LEMMA CauseOfSkip ==
  ASSUME SuiteInv, SkippedInv, Chosen, todo # <<>>, NEW v, Because(v), Item \notin unfinished
  PROVE  v = "Skipped" <=> RuledOut(Item.scenario)
<1>1. CASE pc = "Select" /\ v = "Skipped" /\ ~Available(Item.scenario)
  BY <1>1, ChosenItem DEF RuledOut
<1>2. ASSUME pc \in Busy, Emulated, v = "InfrastructureError"
      PROVE  v = "Skipped" <=> RuledOut(Item.scenario)
  BY <1>2, ChosenIsExecutable DEF RuledOut, Emulated
<1>3. CASE pc = "Ensuring" /\ v = "InfrastructureError"
  BY <1>2, <1>3 DEF SkippedInv, Busy
<1>4. CASE pc = "Probing" /\ StillHealthy /\ v = onDisk[Item]
  BY <1>4 DEF SkippedInv
<1>5. CASE pc = "Probing" /\ ~StillHealthy /\ v = "InfrastructureError"
  BY <1>2, <1>5 DEF StillHealthy, Busy
<1> QED
  BY <1>1, <1>3, <1>4, <1>5 DEF Because

\* While a scenario is at hand, it is skipped if and only if it is ruled out.
LEMMA ScenarioSkips ==
  ASSUME SuiteInv, SkippedInv, [Next]_vars, Chosen, UNCHANGED <<todo, results>>,
         pc' = "Probing", Item \notin unfinished'
  PROVE  onDisk'[Item] = "Skipped" <=> RuledOut(Item.scenario)
<1>1. ASSUME pc \in Busy, NEW v, OnDisk(v), v # "Skipped", OptedIn
      PROVE  onDisk'[Item] = "Skipped" <=> RuledOut(Item.scenario)
  <2>1. onDisk'[Item] = v
    BY <1>1, ItemIsOnDisk
  <2> QED
    BY <1>1, <2>1, ChosenIsExecutable DEF RuledOut, OptedIn
<1>2. CASE ScenarioPasses \/ ScenarioBreaks
  <2>1. pc \in Busy /\ OptedIn /\ \E v : OnDisk(v) /\ v # "Skipped"
    BY <1>2 DEF ScenarioPasses, ScenarioBreaks, Executing, EndsWith, Busy, Graded
  <2> QED
    BY <1>1, <2>1
<1>3. CASE ScenarioSkipped
  <2>1. OnDisk("Skipped") /\ ~OptedIn
    BY <1>3 DEF ScenarioSkipped, EndsWith
  <2>2. onDisk'[Item] = "Skipped"
    BY <2>1, ItemIsOnDisk
  <2> QED
    BY <2>1, <2>2 DEF RuledOut, OptedIn
<1>4. CASE ScenarioRefused
  <2>1. pc \in Busy /\ ~CanExecute
    BY <1>4 DEF ScenarioRefused, Executing, Busy
  <2> QED
    BY <2>1, ChosenIsExecutable DEF CanExecute
<1>5. CASE RunnerFails
  BY <1>5 DEF RunnerFails
<1>6. CASE Disturb \/ WriteFails \/ UNCHANGED vars
  <2>1. pc' \in {pc, "Leaving"} /\ UNCHANGED <<onDisk, unfinished>>
    BY <1>6 DEF Disturb, WriteFails, ReturnError, vars, suiteVars
  <2> QED
    BY <2>1 DEF SkippedInv
<1>7. CASE \/ RejectUnknown \/ CallEnsureReady \/ StartWithoutEmulator \/ Started
           \/ UnavailableForUnknown \/ WriteManifest \/ Return
           \/ SkipUnavailable \/ ReportUnavailable \/ EnterVerdict \/ MarkInfrastructureError
           \/ (pc = "Ensuring" /\ Ensuring /\ UNCHANGED suiteVars)
  <2>1. pc' # "Probing"
    BY <1>7 DEF RejectUnknown, CallEnsureReady, StartWithoutEmulator, Started,
              UnavailableForUnknown, WriteManifest, Return, ReturnError, SkipUnavailable,
              ReportUnavailable, EnterUnavailable, EnterVerdict, MarkInfrastructureError,
              Enter, suiteVars
  <2> QED
    BY <2>1
<1> QED
  BY <1>2, <1>3, <1>4, <1>5, <1>6, <1>7 DEF Next, CommandStep

LEMMA EnsuringIsEmulated ==
  ASSUME SuiteInv, SkippedInv, [Next]_vars, pc' = "Ensuring" PROVE Emulated
<1>1. CASE CallEnsureReady
  BY <1>1 DEF CallEnsureReady
<1>2. CASE ~CallEnsureReady
  <2>1. pc = "Ensuring"
    BY <1>2 DEF Next, CommandStep, SkipUnavailable, RejectUnknown,
              StartWithoutEmulator, Started, ReportUnavailable, EnterUnavailable, Enter,
              UnavailableForUnknown, ScenarioPasses, ScenarioBreaks, ScenarioSkipped,
              EndsWith, ScenarioRefused, RunnerFails, RunnerError, ReturnError,
              EnterVerdict, MarkInfrastructureError,
              WriteManifest, Return, WriteFails, Disturb, suiteVars, vars
  <2> QED
    BY <2>1 DEF SkippedInv
<1> QED
  BY <1>1, <1>2

LEMMA HistoriesGrow ==
  ASSUME [Next]_vars PROVE unfinished \subseteq unfinished'
BY DEF Next, CommandStep, SkipUnavailable, RejectUnknown, CallEnsureReady,
       StartWithoutEmulator, Started, ReportUnavailable,
       UnavailableForUnknown, ScenarioPasses, ScenarioBreaks, ScenarioSkipped,
       EndsWith, ScenarioRefused, RunnerFails, EnterVerdict, MarkInfrastructureError,
       WriteManifest, Return, WriteFails, Disturb, suiteVars, vars

LEMMA SkippedStep == SuiteInv /\ SkippedInv /\ [Next]_vars => SkippedInv'
<1> SUFFICES ASSUME SuiteInv, SkippedInv, [Next]_vars PROVE SkippedInv'
  OBVIOUS
<1> DEFINE l == Len(results)
<1>0. /\ UNCHANGED command /\ Items' = Items /\ Emulated' = Emulated
      /\ Chosen' = Chosen /\ \A scenario : RuledOut(scenario)' = RuledOut(scenario)
  BY QueueStep, ItemsStay, ChosenStays
<1>1. pc' = "Ensuring" => Emulated'
  BY <1>0, EnsuringIsEmulated
<1>2. ASSUME Chosen, NEW n \in 1..l, Items[n] \notin unfinished'
      PROVE  results[n].verdict = "Skipped" <=> RuledOut(Items[n].scenario)
  BY <1>2, HistoriesGrow DEF SkippedInv
<1>3. CASE UNCHANGED <<todo, results>>
  <2>1. Item' = Item
    BY <1>3 DEF Item
  <2>2. ASSUME Chosen, pc' = "Probing", Item \notin unfinished'
        PROVE  onDisk'[Item] = "Skipped" <=> RuledOut(Item.scenario)
    BY <1>3, <2>2, ScenarioSkips
  <2> QED
    BY <1>0, <1>1, <1>2, <1>3, <2>1, <2>2 DEF SkippedInv, RuledOut
<1>4. ASSUME NEW v, Entered(v), Because(v), UNCHANGED Histories PROVE SkippedInv'
  <2>1. todo # <<>> /\ v \in SuiteVerdicts /\ Enter(v) /\ QueueInv /\ l \in Nat
    BY <1>4 DEF Entered, SuiteInv, QueueInv
  <2>2. /\ Len(results') = At /\ results'[At] = [item |-> Item, verdict |-> v]
        /\ \A n \in 1..l : results'[n] = results[n]
    BY <1>0, <2>1, EnterKeepsQueue
  <2>3. Item = Items[At] /\ At = l + 1
    BY <2>1, ItemIsNext DEF At
  <2>4. pc' = "Select" /\ unfinished' = unfinished
    BY <1>4, <2>1 DEF Enter, Histories
  <2>5. ASSUME Chosen, Item \notin unfinished
        PROVE  v = "Skipped" <=> RuledOut(Item.scenario)
    BY <1>4, <2>1, <2>5, CauseOfSkip
  <2> HIDE DEF l
  <2>6. ASSUME Chosen, NEW n \in 1..At, Items[n] \notin unfinished
        PROVE  results'[n].verdict = "Skipped" <=> RuledOut(Items[n].scenario)
    <3>1. CASE n \in 1..l
      BY <1>2, <2>2, <2>4, <2>6, <3>1
    <3>2. CASE n = At
      BY <2>2, <2>3, <2>5, <2>6, <3>2
    <3>3. n \in 1..l \/ n = At
      BY <2>1, <2>3
    <3> QED
      BY <3>1, <3>2, <3>3
  <2> QED
    BY <1>0, <1>1, <2>2, <2>4, <2>6 DEF SkippedInv, RuledOut
<1> QED
  BY <1>3, <1>4, CauseStep

LEMMA SkippedInvariant == Spec => []SkippedInv
<1>1. Init => SkippedInv
  <2> SUFFICES ASSUME Init PROVE SkippedInv
    OBVIOUS
  <2>1. pc = "Select" /\ Len(results) = 0 /\ \A n \in 1..0 : FALSE
    BY DEF Init
  <2> QED
    BY <2>1 DEF SkippedInv
<1> QED
  BY <1>1, SkippedStep, SuiteInvariant, PTL DEF Spec

\* The command run has a report only for a scenario of the catalog.
RunInv ==
  command.kind = "Run" /\ (Len(results) # 0 \/ pc = "Probing") =>
    command.name \in Range(Catalog)

LEMMA RunsByName ==
  ASSUME SuiteInv, command.kind = "Run", todo # <<>>, Known
  PROVE  command.name \in Range(Catalog)
<1>1. At \in 1..Len(Items) /\ Item = Items[At]
  BY ItemIsNext DEF SuiteInv
<1>2. Items = <<Alone(command.name)>>
  BY DEF Items
<1>3. At = 1
  <2>1. Len(Items) = 1
    BY <1>2
  <2>2. \A n \in 1..1 : n = 1
    OBVIOUS
  <2> QED
    BY <1>1, <2>1, <2>2
<1>4. Item = Alone(command.name)
  BY <1>1, <1>2, <1>3
<1> QED
  BY <1>4, AloneScenario DEF Known

LEMMA RunStep == SuiteInv /\ RunInv /\ [Next]_vars => RunInv'
<1> SUFFICES ASSUME SuiteInv, RunInv, [Next]_vars, command.kind = "Run",
                    command.name \notin Range(Catalog)
             PROVE  Len(results') = 0 /\ pc' # "Probing"
  BY QueueStep DEF RunInv
<1>1. Len(results) = 0 /\ pc # "Probing"
  BY DEF RunInv
<1>2. UNCHANGED results
  <2>1. ASSUME NEW v, Entered(v), Because(v) PROVE FALSE
    <3>1. todo # <<>>
      BY <2>1 DEF Entered
    <3>2. Known
      BY <1>1, <2>1 DEF Because
    <3> QED
      BY <3>1, <3>2, RunsByName
  <2> QED
    BY <2>1, CauseStep
<1>3. ~(pc \in Busy /\ Known)
  BY BusyHasItem, RunsByName DEF SuiteInv
<1>4. CASE ScenarioPasses \/ ScenarioBreaks \/ ScenarioSkipped \/ RunnerFails
  BY <1>3, <1>4 DEF ScenarioPasses, ScenarioBreaks, ScenarioSkipped, RunnerFails, Executing,
                    CanExecute, Busy
<1>5. CASE ScenarioRefused
  BY <1>1, <1>2, <1>5 DEF ScenarioRefused, RunnerError, ReturnError
<1>6. CASE Disturb \/ UNCHANGED vars
  BY <1>1, <1>2, <1>6 DEF Disturb, vars, suiteVars
<1>7. CASE \/ RejectUnknown \/ CallEnsureReady \/ StartWithoutEmulator \/ Started
           \/ UnavailableForUnknown \/ WriteManifest \/ Return \/ WriteFails
           \/ SkipUnavailable \/ ReportUnavailable \/ EnterVerdict \/ MarkInfrastructureError
           \/ (pc = "Ensuring" /\ Ensuring /\ UNCHANGED suiteVars)
  <2>1. pc' # "Probing"
    BY <1>7 DEF RejectUnknown, CallEnsureReady, StartWithoutEmulator, Started,
              UnavailableForUnknown, WriteManifest, Return, ReturnError, SkipUnavailable,
              ReportUnavailable, EnterUnavailable, EnterVerdict, MarkInfrastructureError,
              WriteFails, Enter, suiteVars
  <2> QED
    BY <1>1, <1>2, <2>1
<1> QED
  BY <1>4, <1>5, <1>6, <1>7 DEF Next, CommandStep

LEMMA AllIsNoScenario == AllScenarios \notin Range(Catalog)
<1>1. "all" \notin Scenarios
  BY DEF Scenarios, ScenarioCatalog
<1>2. \A n \in DOMAIN Catalog : Catalog[n] \in Scenarios
  BY SuiteAssumption
<1> QED
  BY <1>1, <1>2 DEF AllScenarios, Range

\* What a suite, or a frontier over all scenarios, selects is not refused afterwards:
\* BackendApplicability and the failpoint filter agree with validate_scenario.
THEOREM SelectedIsExecutableTheorem == Spec => []SelectedIsExecutable
<1>1. Init => RunInv
  BY DEF Init, RunInv
<1>2. SuiteInv /\ SkippedInv /\ RunInv => SelectedIsExecutable
  <2> SUFFICES ASSUME SuiteInv, SkippedInv, RunInv,
                      command.kind = "Suite" \/ command.name = AllScenarios,
                      NEW n \in DOMAIN results, results[n].item \notin unfinished
               PROVE  results[n].verdict = "Skipped" <=> RuledOut(results[n].item.scenario)
    BY DEF SelectedIsExecutable, RuledOut
  <2>1. /\ command \in Commands /\ n \in 1..Len(results) /\ Len(results) # 0
        /\ results[n].item = Items[n]
    BY DEF SuiteInv, QueueInv
  <2>2. Chosen
    BY <2>1, CommandType, AllIsNoScenario DEF RunInv, Chosen
  <2> QED
    BY <2>1, <2>2 DEF SkippedInv
<1> QED
  BY <1>1, <1>2, RunStep, SkippedInvariant, SuiteInvariant, PTL DEF Spec

-----------------------------------------------------------------------------
(* Whom a verdict is charged to                                             *)

\* The engine is at fault in items that have a report, and in the one that waits for
\* it; and a break that waits for its report has a cause.
FaultInv ==
  /\ \A n \in 1..Len(Items) : Items[n] \in atFault =>
       \/ n \in 1..Len(results)
       \/ n = At /\ pc \in {"Probing", "Leaving", "Returned"}
  /\ pc = "Probing" =>
       /\ Item \in atFault => onDisk[Item] = "Break"
       /\ onDisk[Item] = "Break" =>
            Item \in atFault \cup unfinished \cup disturbed \/ ~CanExecute

\* Before a scenario has ended it has broken nothing.
LEMMA FreshItem ==
  ASSUME SuiteInv, FaultInv, todo # <<>>, pc \in {"Select", "Ensuring", "Executing"}
  PROVE  Item \notin atFault
<1>1. At \in 1..Len(Items) /\ Item = Items[At] /\ At = Len(results) + 1
  BY ItemIsNext DEF SuiteInv, At
<1>2. Len(results) \in Nat
  BY DEF SuiteInv, QueueInv
<1>3. At \notin 1..Len(results)
  BY <1>1, <1>2
<1> QED
  BY <1>1, <1>3 DEF FaultInv

\* What a step does to the history of an item that stays at hand.
LEMMA FaultOfScenario ==
  ASSUME SuiteInv, FaultInv, [Next]_vars, UNCHANGED <<todo, results>>, pc' = "Probing"
  PROVE  /\ Item \in atFault' => onDisk'[Item] = "Break"
         /\ onDisk'[Item] = "Break" =>
              Item \in atFault' \cup unfinished' \cup disturbed' \/ ~CanExecute
<1>e. pc = "Executing" => Item \notin atFault
  BY BusyHasItem, FreshItem DEF SuiteInv, Busy
<1>1. CASE ScenarioPasses \/ ScenarioSkipped
  <2>1. /\ pc = "Executing" /\ atFault' = atFault
        /\ \E v : OnDisk(v) /\ v # "Break"
    BY <1>1 DEF ScenarioPasses, ScenarioSkipped, Executing, EndsWith, Graded
  <2>2. onDisk'[Item] # "Break"
    BY <2>1, ItemIsOnDisk
  <2> QED
    BY <1>e, <2>1, <2>2
<1>2. CASE ScenarioBreaks
  <2>1. /\ OnDisk("Break") /\ disturbed' = disturbed
        /\ Item \in atFault' \/ Item \in disturbed
    BY <1>2 DEF ScenarioBreaks, EndsWith
  <2> QED
    BY <2>1, ItemIsOnDisk
<1>3. CASE ScenarioRefused \/ RunnerFails
  <2>1. pc = "Executing" /\ RunnerError /\ (~CanExecute \/ Item \in unfinished')
    BY <1>3 DEF ScenarioRefused, RunnerFails, Executing
  <2>2. OnDisk("Break")
    BY <2>1 DEF RunnerError, ReturnError
  <2> QED
    BY <2>1, <2>2, ItemIsOnDisk
<1>4. CASE Disturb \/ UNCHANGED vars
  <2>1. /\ pc = "Probing" /\ UNCHANGED <<onDisk, atFault, unfinished>>
        /\ disturbed' = disturbed
    BY <1>4 DEF Disturb, vars, suiteVars
  <2> QED
    BY <2>1 DEF FaultInv
<1>5. CASE \/ RejectUnknown \/ CallEnsureReady \/ StartWithoutEmulator \/ Started
           \/ UnavailableForUnknown \/ WriteManifest \/ Return \/ WriteFails
           \/ SkipUnavailable \/ ReportUnavailable \/ EnterVerdict \/ MarkInfrastructureError
           \/ (pc = "Ensuring" /\ Ensuring /\ UNCHANGED suiteVars)
  <2>1. pc' # "Probing"
    BY <1>5 DEF RejectUnknown, CallEnsureReady, StartWithoutEmulator, Started,
              UnavailableForUnknown, WriteManifest, Return, ReturnError, SkipUnavailable,
              ReportUnavailable, EnterUnavailable, EnterVerdict, MarkInfrastructureError,
              WriteFails, Enter, suiteVars
  <2> QED
    BY <2>1
<1> QED
  BY <1>1, <1>2, <1>3, <1>4, <1>5 DEF Next, CommandStep

\* The engine breaks a promise only in the item at hand, which then waits for its
\* report, gets it, or is left behind by a command that gives up.
LEMMA AtFaultStep ==
  ASSUME SuiteInv, [Next]_vars, UNCHANGED <<todo, results>>
  PROVE  /\ \/ atFault' = atFault
            \/ todo # <<>> /\ pc' = "Probing" /\ atFault' = atFault \cup {Item}
         /\ pc \in {"Probing", "Leaving", "Returned"} =>
              pc' \in {"Probing", "Leaving", "Returned"}
<1>1. CASE ScenarioBreaks
  <2>1. /\ pc \in Busy /\ pc' = "Probing"
        /\ atFault' = atFault \/ atFault' = atFault \cup {Item}
    BY <1>1 DEF ScenarioBreaks, Executing, EndsWith, Busy
  <2>2. todo # <<>>
    BY <2>1, BusyHasItem DEF SuiteInv
  <2> QED
    BY <2>1, <2>2
<1>2. CASE \/ SkipUnavailable \/ RejectUnknown \/ CallEnsureReady \/ StartWithoutEmulator
           \/ Started \/ ReportUnavailable \/ UnavailableForUnknown
  BY <1>2 DEF SkipUnavailable, RejectUnknown, CallEnsureReady, StartWithoutEmulator, Started,
              ReportUnavailable, UnavailableForUnknown, Startable
<1>3. CASE ScenarioPasses \/ ScenarioSkipped \/ ScenarioRefused \/ RunnerFails
  BY <1>3 DEF ScenarioPasses, ScenarioSkipped, ScenarioRefused, RunnerFails, RunnerError,
              Executing
<1>4. CASE EnterVerdict \/ MarkInfrastructureError
  <2>1. pc \in Busy /\ \E v : Enter(v)
    BY <1>4 DEF EnterVerdict, MarkInfrastructureError, Busy
  <2>2. Len(todo) \in Nat \ {0} /\ todo \in Seq(ItemType)
    BY <2>1, BusyHasItem, ItemIsNext DEF SuiteInv, QueueInv
  <2>3. Len(todo') = Len(todo) - 1
    BY <2>1, <2>2 DEF Enter
  <2> QED
    BY <2>2, <2>3
<1>5. CASE \/ WriteManifest \/ Return \/ WriteFails \/ Disturb
           \/ (pc = "Ensuring" /\ Ensuring /\ UNCHANGED suiteVars) \/ UNCHANGED vars
  BY <1>5 DEF WriteManifest, Return, WriteFails, ReturnError, Disturb, suiteVars, vars
<1> QED
  BY <1>1, <1>2, <1>3, <1>4, <1>5 DEF Next, CommandStep

LEMMA FaultStep ==
  ASSUME IsInjective(Seeds), SuiteInv, FaultInv, [Next]_vars PROVE FaultInv'
<1> DEFINE l == Len(results)
           held == {"Probing", "Leaving", "Returned"}
<1>0. UNCHANGED command /\ Items' = Items /\ QueueInv /\ l \in Nat /\ command \in Commands
  BY QueueStep, ItemsStay DEF SuiteInv, QueueInv
<1>1. CASE UNCHANGED <<todo, results>>
  <2>1. Item' = Item /\ CanExecute' = CanExecute /\ At' = At
    BY <1>0, <1>1 DEF Item, CanExecute, Known, At
  <2>2. ASSUME NEW n \in 1..Len(Items), Items[n] \in atFault'
        PROVE  n \in 1..l \/ (n = At /\ pc' \in held)
    <3>1. CASE Items[n] \in atFault
      <4>1. n \in 1..l \/ (n = At /\ pc \in held)
        BY <3>1 DEF FaultInv
      <4> QED
        BY <1>1, <4>1, AtFaultStep
    <3>2. CASE Items[n] \notin atFault
      <4>1. todo # <<>> /\ pc' = "Probing" /\ Items[n] = Item
        BY <1>1, <2>2, <3>2, AtFaultStep
      <4>2. At \in 1..Len(Items) /\ Item = Items[At]
        BY <1>0, <4>1, ItemIsNext
      <4>3. n = At
        BY <1>0, <4>1, <4>2, ItemsDiffer
      <4> QED
        BY <4>1, <4>3
    <3> QED
      BY <3>1, <3>2
  <2> QED
    BY <1>0, <1>1, <2>1, <2>2, FaultOfScenario DEF FaultInv
<1>2. ASSUME NEW v, Entered(v), UNCHANGED Histories PROVE FaultInv'
  <2>1. todo # <<>> /\ v \in SuiteVerdicts /\ Enter(v)
    BY <1>2 DEF Entered
  <2>2. Len(results') = At /\ At = l + 1
    BY <1>0, <2>1, EnterKeepsQueue DEF At
  <2>3. pc' = "Select" /\ atFault' = atFault
    BY <1>2, <2>1 DEF Enter, Histories
  <2> HIDE DEF l
  <2>4. \A n \in 1..Len(Items) : (n \in 1..l \/ n = At) => n \in 1..At
    BY <1>0, <2>2
  <2> QED
    BY <1>0, <2>2, <2>3, <2>4 DEF FaultInv, l
<1> QED
  BY <1>1, <1>2, CauseStep

LEMMA FaultInvariant == ASSUME IsInjective(Seeds) PROVE Spec => []FaultInv
<1>1. Init => FaultInv
  BY DEF Init, FaultInv
<1>2. SuiteInv /\ FaultInv /\ [Next]_vars => FaultInv'
  BY FaultStep
<1> QED
  BY <1>1, <1>2, SuiteInvariant, PTL DEF Spec

\* Whom the verdict of a report is charged to, at the moment it is entered.
LEMMA ChargedStep ==
  ASSUME SuiteInv, SkippedInv, FaultInv, NEW v, Entered(v), Because(v)
  PROVE  LET up == Emulated => project = "Healthy"
         IN  /\ ~up => v \in {"InfrastructureError", "Skipped"}
             /\ up /\ Item \in atFault => v = "Break"
             /\ v = "Break" =>
                  Item \in atFault \cup unfinished \cup disturbed \/ ~CanExecute
<1>1. todo # <<>>
  BY DEF Entered
<1>2. CASE pc = "Select" /\ v = "Skipped"
  BY <1>1, <1>2, FreshItem
<1>3. CASE pc = "Ensuring" /\ v = "InfrastructureError"
  BY <1>1, <1>3, FreshItem
<1>4. CASE pc = "Probing" /\ StillHealthy /\ v = onDisk[Item]
  BY <1>4 DEF StillHealthy, Probed, FaultInv
<1>5. CASE pc = "Probing" /\ ~StillHealthy /\ v = "InfrastructureError"
  <2>1. Emulated /\ resolved
    BY <1>5 DEF StillHealthy, SuiteInv, PhaseInv
  <2>2. project # "Healthy"
    BY <1>5, <2>1 DEF StillHealthy, Probed
  <2> QED
    BY <1>5, <2>1, <2>2
<1> QED
  BY <1>2, <1>3, <1>4, <1>5 DEF Because

\* While the emulator is down nothing is said about the engine; while it is up, a
\* promise the engine broke is a break, and a break has a cause (the probe behind
\* run_scenario_at and mark_infrastructure_error in runner.rs).
THEOREM VerdictIsChargedTheorem ==
  ASSUME IsInjective(Seeds) PROVE Spec => VerdictIsCharged
<1> DEFINE up == Emulated => project = "Healthy"
           Charged ==
             Len(results') > Len(results) =>
               LET entered == Last(results').verdict
               IN  /\ ~up => entered \in {"InfrastructureError", "Skipped"}
                   /\ up /\ Item \in atFault => entered = "Break"
                   /\ entered = "Break" =>
                        \/ Item \in atFault \cup unfinished \cup disturbed
                        \/ ~CanExecute
<1>1. SuiteInv /\ SkippedInv /\ FaultInv /\ [Next]_vars => [Charged]_vars
  <2> SUFFICES ASSUME SuiteInv, SkippedInv, FaultInv, [Next]_vars PROVE Charged
    OBVIOUS
  <2>1. CASE UNCHANGED results
    <3>1. Len(results) \in Nat
      BY DEF SuiteInv, QueueInv
    <3> QED
      BY <2>1, <3>1
  <2>2. ASSUME NEW v, Entered(v), Because(v) PROVE Charged
    <3>1. Last(results').verdict = v
      <4>1. /\ Len(results') = At /\ results'[At] = [item |-> Item, verdict |-> v]
        BY <2>2, QueueStep, EnterKeepsQueue DEF SuiteInv, Entered
      <4> QED
        BY <4>1 DEF Last
    <3> QED
      BY <2>2, <3>1, ChargedStep
  <2> QED
    BY <2>1, <2>2, CauseStep
<1> QED
  BY <1>1, SuiteInvariant, SkippedInvariant, FaultInvariant, PTL DEF Spec, VerdictIsCharged
=============================================================================
