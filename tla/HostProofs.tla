----------------------------- MODULE HostProofs -----------------------------
(* The parts of one host around the agent, each for every value of its       *)
(* constants: the Windows service, the hosts file, the config file, the      *)
(* state file, the devices and the addresses of the overlay network.  They   *)
(* share no state, and neither do the proofs.                                *)
EXTENDS EtcHosts, StateFile, Device, Config, WindowsService, Overlay,
        FiniteSetTheorems, SequenceTheorems, TLAPS

-----------------------------------------------------------------------------
(* The Windows service.                                                      *)

(* Where the two goroutines can be, and what the manager has been told by    *)
(* then.                                                                     *)
ServiceInv ==
    /\ handler \in {"begin", "select", "answer", "returned"}
    /\ running \in {"off", "starting", "running", "stopping", "ended"}
    /\ handler = "begin" => running = "off"
    /\ running = "off" => handler = "begin"
    /\ done => running = "ended"
    /\ handler # "returned" => reported # "stopped"
    /\ current # "stopped"
    /\ handler = "answer" => held # "stopped"
    /\ handler = "returned" => running = "ended" /\ reported = "stopped"

(* Each goroutine goes forward only, and reports before it ends.             *)
LEMMA ServiceStep == ServiceInv /\ [ServiceNext]_serviceVars => ServiceInv'
<1> SUFFICES ASSUME ServiceInv, [ServiceNext]_serviceVars PROVE ServiceInv'
  OBVIOUS
<1> USE DEF ServiceInv
<1>1. ASSUME NEW cmd, Control(cmd) PROVE ServiceInv'
  BY <1>1 DEF Control
<1>2. CASE Execute
  BY <1>2 DEF Execute
<1>3. CASE Interrogate
  BY <1>3 DEF Interrogate
<1>4. CASE Answer
  BY <1>4 DEF Answer
<1>5. CASE Stop
  BY <1>5 DEF Stop
<1>6. CASE ServiceEnds
  BY <1>6 DEF ServiceEnds
<1>7. CASE Ready
  BY <1>7 DEF Ready
<1>8. CASE Stopping
  BY <1>8 DEF Stopping
<1>9. CASE running \in {"starting", "running", "stopping"} /\ RunReturns
  BY <1>9 DEF RunReturns
<1>10. CASE UNCHANGED serviceVars
  BY <1>10 DEF serviceVars
<1> QED BY <1>1, <1>2, <1>3, <1>4, <1>5, <1>6, <1>7, <1>8, <1>9, <1>10 DEF ServiceNext

(* The Service Control Manager hears of the stop last: service.Execute       *)
(* returns only after the agent has, and reports nothing once it has         *)
(* reported the stop, the answer to a late interrogation included.           *)
THEOREM StoppedIsLastTheorem == ServiceSpec => []StoppedIsLast
<1>1. ServiceInit => ServiceInv
  BY DEF ServiceInit, ServiceInv
<1>2. ServiceInv => StoppedIsLast
  BY DEF ServiceInv, StoppedIsLast
<1> QED BY <1>1, <1>2, ServiceStep, PTL DEF ServiceSpec

-----------------------------------------------------------------------------
(* The hosts file.  First sequences that are built step by step, which       *)
(* Lines and writeEntries are.                                               *)

(* A set with 0 and the successors of its elements up to n holds 0 .. n.     *)
LEMMA UpTo ==
    ASSUME NEW n \in Nat, NEW S, 0 \in S, \A k \in 0 .. n - 1 : k \in S => k + 1 \in S
    PROVE  0 .. n \subseteq S
<1> DEFINE R == OpToRel(<, Nat)
           T == (0 .. n) \ S
<1>1. \A y, x \in Nat : y < x => <<y, x>> \in R
  BY DEF OpToRel
<1>2. IsWellFoundedOn(R, Nat)
  BY NatLessThanWellFounded
<1> SUFFICES ASSUME T # {} PROVE FALSE
  OBVIOUS
<1>3. T \subseteq Nat
  OBVIOUS
<1> HIDE DEF R, T
<1>4. PICK x \in T : \A y \in T : ~(<<y, x>> \in R)
  BY <1>2, <1>3, WFMin
<1>5. x \in 0 .. n /\ x \notin S /\ x # 0
  BY DEF T
<1>6. x - 1 \in 0 .. n - 1 /\ x - 1 \in Nat /\ x \in Nat /\ x - 1 < x /\ (x - 1) + 1 = x
  BY <1>5
<1>7. x - 1 \notin T
  BY <1>1, <1>4, <1>6
<1> QED BY <1>5, <1>6, <1>7 DEF T

(* g begins with b and makes each value from the one before with F.          *)
Iterates(g, n, b, F) == g[0] = b /\ \A k \in 1 .. n : g[k] = F[<<k, g[k - 1]>>]

(* A function on 0 .. n can be defined by what it is at 0 and by what each   *)
(* value makes of the one before.                                            *)
LEMMA StepsExist ==
    ASSUME NEW n \in Nat, NEW X, NEW b \in X, NEW F \in [(1 .. n) \X X -> X]
    PROVE  \E g \in [0 .. n -> X] : Iterates(g, n, b, F)
<1> DEFINE Good(m) == \E g \in [0 .. m -> X] : g[0] = b /\ \A k \in 1 .. m : g[k] = F[<<k, g[k - 1]>>]
           S == {m \in Nat : Good(m)}
<1>1. 0 \in S
  <2> DEFINE g == [k \in 0 .. 0 |-> b]
  <2>1. g \in [0 .. 0 -> X] /\ g[0] = b /\ \A k \in 1 .. 0 : FALSE
    OBVIOUS
  <2> HIDE DEF g
  <2>2. Good(0)
    BY <2>1
  <2> QED BY <2>2
<1>2. ASSUME NEW m \in 0 .. n - 1, m \in S PROVE m + 1 \in S
  <2>1. PICK g \in [0 .. m -> X] : g[0] = b /\ \A k \in 1 .. m : g[k] = F[<<k, g[k - 1]>>]
    BY <1>2
  <2> DEFINE h == [k \in 0 .. m + 1 |-> IF k = m + 1 THEN F[<<m + 1, g[m]>>] ELSE g[k]]
  <2>2. m \in 0 .. m /\ m + 1 \in 1 .. n /\ g[m] \in X /\ m \in Nat
    OBVIOUS
  <2>3. F[<<m + 1, g[m]>>] \in X
    BY <2>2
  <2>4. h \in [0 .. m + 1 -> X]
    BY <2>2, <2>3
  <2>5. h[0] = b
    BY <2>1, <2>2
  <2>6. ASSUME NEW k \in 1 .. m + 1 PROVE h[k] = F[<<k, h[k - 1]>>]
    <3>1. CASE k = m + 1
      <4>1. k - 1 = m /\ k \in 0 .. m + 1 /\ m \in 0 .. m + 1 /\ m # m + 1
        BY <2>2, <3>1
      <4> QED BY <3>1, <4>1
    <3>2. CASE k # m + 1
      <4>1. k \in 1 .. m /\ k - 1 \in 0 .. m + 1 /\ k - 1 # m + 1 /\ k \in 0 .. m + 1
        BY <2>2, <3>2
      <4> QED BY <2>1, <3>2, <4>1
    <3> QED BY <3>1, <3>2
  <2> HIDE DEF h
  <2>7. Good(m + 1)
    BY <2>4, <2>5, <2>6
  <2> QED BY <2>2, <2>7
<1>3. n \in S
  <2> HIDE DEF S
  <2> QED BY <1>1, <1>2, UpTo
<1> QED BY <1>3 DEF Iterates

(* g is what Lines has picked after each line.                               *)
Scans(g, file, who) ==
    /\ g[0] = <<>>
    /\ \A n \in 1 .. Len(file) :
          g[n] = IF file[n].owner \in who THEN Append(g[n - 1], file[n]) ELSE g[n - 1]

(* Lines goes through the file line by line.                                 *)
LEMMA LinesUnfold ==
    ASSUME NEW T, NEW file \in Seq(T), NEW who
    PROVE  \E g \in [0 .. Len(file) -> Seq(T)] : Scans(g, file, who) /\ Lines(file, who) = g[Len(file)]
<1> DEFINE N == Len(file)
           Def(f, n) == IF n = 0 THEN <<>>
                        ELSE IF file[n].owner \in who THEN Append(f[n - 1], file[n])
                        ELSE f[n - 1]
           F == [p \in (1 .. N) \X Seq(T) |->
                    IF file[p[1]].owner \in who THEN Append(p[2], file[p[1]]) ELSE p[2]]
           pick == CHOOSE f : f = [n \in 0 .. N |-> Def(f, n)]
<1>1. N \in Nat /\ \A n \in 1 .. N : file[n] \in T
  OBVIOUS
<1>2. F \in [(1 .. N) \X Seq(T) -> Seq(T)]
  BY <1>1
<1>3. \A n \in 1 .. N, x \in Seq(T) :
          F[<<n, x>>] = IF file[n].owner \in who THEN Append(x, file[n]) ELSE x
  BY <1>1
<1> HIDE DEF F
<1>4. PICK g \in [0 .. N -> Seq(T)] : g[0] = <<>> /\ \A n \in 1 .. N : g[n] = F[<<n, g[n - 1]>>]
  <2> DEFINE X == Seq(T)
             b == <<>>
  <2>1. b \in X
    OBVIOUS
  <2>2. N \in Nat /\ F \in [(1 .. N) \X X -> X]
    BY <1>1, <1>2
  <2> HIDE DEF N, X, b
  <2>3. \E g \in [0 .. N -> X] : Iterates(g, N, b, F)
    BY <2>1, <2>2, StepsExist
  <2> QED BY <2>3 DEF X, b, Iterates
<1> HIDE DEF N
<1>5. \A n \in 1 .. N : n - 1 \in 0 .. N /\ g[n - 1] \in Seq(T) /\ n # 0
  BY <1>1
<1>6. \A n \in 1 .. N : g[n] = IF file[n].owner \in who THEN Append(g[n - 1], file[n]) ELSE g[n - 1]
  BY <1>3, <1>4, <1>5
<1>7. \A n \in 0 .. N : g[n] = Def(g, n)
  <2> SUFFICES ASSUME NEW n \in 0 .. N PROVE g[n] = Def(g, n)
    OBVIOUS
  <2>1. CASE n = 0
    BY <1>4, <2>1
  <2>2. CASE n # 0
    <3>1. n \in 1 .. N
      BY <1>1, <2>2
    <3> QED BY <1>6, <2>2, <3>1
  <2> QED BY <2>1, <2>2
<1>8. g = [n \in 0 .. N |-> Def(g, n)]
  BY <1>7
<1>9. \E f : f = [n \in 0 .. N |-> Def(f, n)]
  BY <1>8
<1>10. Lines(file, who) = pick[N]
  BY DEF Lines, N
<1>11. pick = [n \in 0 .. N |-> Def(pick, n)]
  <2> HIDE DEF Def
  <2> QED BY <1>9
<1> HIDE DEF pick
<1>12. \A n \in 0 .. N : pick[n] = Def(pick, n)
  <2> HIDE DEF Def
  <2> QED BY <1>11
<1>13. pick[N] = g[N]
  <2> DEFINE S == {n \in Nat : n \in 0 .. N => pick[n] = g[n]}
  <2>1. 0 \in S
    BY <1>1, <1>4, <1>12
  <2>2. ASSUME NEW n \in 0 .. N - 1, n \in S PROVE n + 1 \in S
    <3>1. n + 1 \in 1 .. N /\ n + 1 \in 0 .. N /\ n + 1 # 0 /\ (n + 1) - 1 = n /\ n + 1 \in Nat /\ n \in 0 .. N
      BY <1>1
    <3>2. pick[n] = g[n]
      BY <2>2, <3>1
    <3>3. pick[n + 1] = g[n + 1]
      BY <1>7, <1>12, <3>1, <3>2
    <3> QED BY <3>1, <3>3
  <2>3. N \in S
    <3> HIDE DEF S
    <3>1. N \in Nat /\ \A n \in 0 .. N - 1 : n \in S => n + 1 \in S
      BY <1>1, <2>2
    <3>2. 0 .. N \subseteq S
      BY <2>1, <3>1, UpTo
    <3> QED BY <3>1, <3>2
  <2> QED BY <1>1, <2>3
<1> QED BY <1>4, <1>6, <1>10, <1>13 DEF N, Scans

(* Files with the same first lines are scanned alike so far.                 *)
LEMMA ScansPrefix ==
    ASSUME NEW T, NEW file \in Seq(T), NEW more \in Seq(T), Len(file) <= Len(more),
           \A n \in 1 .. Len(file) : more[n] = file[n], NEW who,
           NEW g, Scans(g, file, who), NEW h, Scans(h, more, who)
    PROVE  \A n \in 0 .. Len(file) : h[n] = g[n]
<1> DEFINE N == Len(file)
           S == {n \in Nat : n \in 0 .. N => h[n] = g[n]}
<1>1. N \in Nat /\ Len(more) \in Nat
  OBVIOUS
<1>2. 0 \in S
  BY DEF Scans
<1>3. ASSUME NEW n \in 0 .. N - 1, n \in S PROVE n + 1 \in S
  <2>1. /\ n + 1 \in 1 .. N /\ n + 1 \in 1 .. Len(more) /\ (n + 1) - 1 = n
        /\ n + 1 \in Nat /\ n \in 0 .. N
    BY <1>1
  <2>2. h[n] = g[n] /\ more[n + 1] = file[n + 1]
    BY <1>3, <2>1
  <2>3. g[n + 1] = IF file[n + 1].owner \in who THEN Append(g[n], file[n + 1]) ELSE g[n]
    BY <2>1 DEF Scans
  <2>4. h[n + 1] = IF more[n + 1].owner \in who THEN Append(h[n], more[n + 1]) ELSE h[n]
    BY <2>1 DEF Scans
  <2> QED BY <2>1, <2>2, <2>3, <2>4
<1> HIDE DEF S, N
<1>4. 0 .. N \subseteq S
  BY <1>1, <1>2, <1>3, UpTo
<1> QED BY <1>1, <1>4 DEF S, N

(* An empty file has no lines.                                               *)
LEMMA LinesEmpty ==
    ASSUME NEW who
    PROVE  Lines(<<>>, who) = <<>>
<1>1. <<>> \in Seq({}) /\ Len(<<>>) = 0
  OBVIOUS
<1>2. PICK g \in [0 .. Len(<<>>) -> Seq({})] : Scans(g, <<>>, who) /\ Lines(<<>>, who) = g[Len(<<>>)]
  BY <1>1, LinesUnfold
<1> QED BY <1>1, <1>2 DEF Scans

(* The lines picked are lines of the file.                                   *)
LEMMA LinesType ==
    ASSUME NEW T, NEW file \in Seq(T), NEW who
    PROVE  Lines(file, who) \in Seq(T)
BY LinesUnfold

(* A line at the end is picked last or not at all.                           *)
LEMMA LinesAppend ==
    ASSUME NEW T, NEW file \in Seq(T), NEW l \in T, NEW who
    PROVE  Lines(Append(file, l), who) =
              IF l.owner \in who THEN Append(Lines(file, who), l) ELSE Lines(file, who)
<1> DEFINE N == Len(file)
           more == Append(file, l)
<1>1. /\ more \in Seq(T) /\ Len(more) = N + 1 /\ N \in Nat /\ more[N + 1] = l
      /\ \A n \in 1 .. N : more[n] = file[n]
  OBVIOUS
<1>2. PICK g \in [0 .. N -> Seq(T)] : Scans(g, file, who) /\ Lines(file, who) = g[N]
  BY LinesUnfold
<1> HIDE DEF more
<1>3. PICK h \in [0 .. Len(more) -> Seq(T)] : Scans(h, more, who) /\ Lines(more, who) = h[Len(more)]
  BY <1>1, LinesUnfold
<1>4. h[N] = g[N]
  <2>1. N <= Len(more) /\ N \in 0 .. N
    BY <1>1
  <2>2. \A n \in 0 .. N : h[n] = g[n]
    BY <1>1, <1>2, <1>3, <2>1, ScansPrefix
  <2> QED BY <2>1, <2>2
<1>5. h[N + 1] = IF l.owner \in who THEN Append(h[N], l) ELSE h[N]
  <2>1. N + 1 \in 1 .. Len(more) /\ (N + 1) - 1 = N
    BY <1>1
  <2> QED BY <1>1, <1>3, <2>1 DEF Scans
<1> QED BY <1>1, <1>2, <1>3, <1>4, <1>5 DEF more

(* The first lines of a file, one more at a time.                            *)
LEMMA PrefixSteps ==
    ASSUME NEW T, NEW t \in Seq(T)
    PROVE  /\ SubSeq(t, 1, 0) = <<>>
           /\ SubSeq(t, 1, Len(t)) = t
           /\ \A n \in 0 .. Len(t) - 1 :
                 /\ SubSeq(t, 1, n) \in Seq(T) /\ t[n + 1] \in T
                 /\ SubSeq(t, 1, n + 1) = Append(SubSeq(t, 1, n), t[n + 1])
<1>1. SubSeq(t, 1, 0) = <<>>
  OBVIOUS
<1>2. SubSeq(t, 1, Len(t)) = t
  OBVIOUS
<1>3. ASSUME NEW n \in 0 .. Len(t) - 1
      PROVE  /\ SubSeq(t, 1, n) \in Seq(T) /\ t[n + 1] \in T
             /\ SubSeq(t, 1, n + 1) = Append(SubSeq(t, 1, n), t[n + 1])
  <2>1. n + 1 \in 1 .. Len(t) /\ n \in Nat /\ Len(t) \in Nat
    OBVIOUS
  <2>2. SubSeq(t, 1, n) \in Seq(T) /\ t[n + 1] \in T
    BY <2>1
  <2>3. SubSeq(t, 1, n + 1) = Append(SubSeq(t, 1, n), t[n + 1])
    BY <2>1
  <2> QED BY <2>2, <2>3
<1> QED BY <1>1, <1>2, <1>3

(* What appending and concatenating do to the elements of a sequence.        *)
LEMMA AppendFacts ==
    ASSUME NEW T, NEW s \in Seq(T), NEW p \in Seq(T), NEW l \in T
    PROVE  /\ Append(s, l) \in Seq(T)
           /\ ToSet(Append(s, l)) = ToSet(s) \cup {l}
           /\ s \o p \in Seq(T)
           /\ s \o Append(p, l) = Append(s \o p, l)
           /\ s \o <<>> = s
           /\ ToSet(s \o p) = ToSet(s) \cup ToSet(p)
<1>1. Append(s, l) \in Seq(T)
  OBVIOUS
<1>2. ToSet(Append(s, l)) = ToSet(s) \cup {l}
  <2>1. /\ DOMAIN Append(s, l) = 1 .. Len(s) + 1 /\ DOMAIN s = 1 .. Len(s) /\ Len(s) \in Nat
        /\ Append(s, l)[Len(s) + 1] = l
        /\ \A i \in 1 .. Len(s) : Append(s, l)[i] = s[i]
    OBVIOUS
  <2>2. \A i \in 1 .. Len(s) + 1 : i \in 1 .. Len(s) \/ i = Len(s) + 1
    BY <2>1
  <2>3. \A i \in 1 .. Len(s) : i \in 1 .. Len(s) + 1
    BY <2>1
  <2>4. Len(s) + 1 \in 1 .. Len(s) + 1
    BY <2>1
  <2> QED BY <2>1, <2>2, <2>3, <2>4 DEF ToSet
<1>3. s \o p \in Seq(T) /\ s \o <<>> = s
  OBVIOUS
<1>4. s \o Append(p, l) = Append(s \o p, l)
  OBVIOUS
<1>5. ToSet(s \o p) = ToSet(s) \cup ToSet(p)
  <2>1. /\ DOMAIN (s \o p) = 1 .. Len(s) + Len(p) /\ DOMAIN s = 1 .. Len(s) /\ DOMAIN p = 1 .. Len(p)
        /\ Len(s) \in Nat /\ Len(p) \in Nat
        /\ \A i \in 1 .. Len(s) : (s \o p)[i] = s[i]
        /\ \A i \in 1 .. Len(p) : (s \o p)[Len(s) + i] = p[i]
    OBVIOUS
  <2>2. \A i \in 1 .. Len(s) : i \in 1 .. Len(s) + Len(p)
    BY <2>1
  <2>3. \A i \in 1 .. Len(p) : Len(s) + i \in 1 .. Len(s) + Len(p)
    BY <2>1
  <2>4. ASSUME NEW i \in 1 .. Len(s) + Len(p) PROVE (s \o p)[i] \in ToSet(s) \cup ToSet(p)
    <3>1. CASE i \in 1 .. Len(s)
      BY <2>1, <3>1 DEF ToSet
    <3>2. CASE i \notin 1 .. Len(s)
      <4>1. i - Len(s) \in 1 .. Len(p) /\ Len(s) + (i - Len(s)) = i
        BY <2>1, <3>2
      <4>2. (s \o p)[i] = p[i - Len(s)]
        BY <2>1, <4>1
      <4> QED BY <2>1, <4>1, <4>2 DEF ToSet
    <3> QED BY <3>1, <3>2
  <2>5. ToSet(s) \subseteq ToSet(s \o p)
    BY <2>1, <2>2 DEF ToSet
  <2>6. ToSet(p) \subseteq ToSet(s \o p)
    BY <2>1, <2>3 DEF ToSet
  <2>7. ToSet(s \o p) \subseteq ToSet(s) \cup ToSet(p)
    <3> DEFINE U == ToSet(s) \cup ToSet(p)
    <3>1. \A i \in 1 .. Len(s) + Len(p) : (s \o p)[i] \in U
      BY <2>4
    <3> HIDE DEF U
    <3>2. ToSet(s \o p) \subseteq U
      BY <2>1, <3>1 DEF ToSet
    <3> QED BY <3>2 DEF U
  <2> QED BY <2>5, <2>6, <2>7
<1> QED BY <1>1, <1>2, <1>3, <1>4, <1>5

(* The lines picked are the ones of these owners.                            *)
LEMMA LinesSet ==
    ASSUME NEW T, NEW file \in Seq(T), NEW who
    PROVE  ToSet(Lines(file, who)) = {x \in ToSet(file) : x.owner \in who}
<1> DEFINE N == Len(file)
           pre(n) == SubSeq(file, 1, n)
           Q(f) == ToSet(Lines(f, who)) = {x \in ToSet(f) : x.owner \in who}
           S == {n \in Nat : n \in 0 .. N => Q(pre(n))}
<1>1. N \in Nat
  OBVIOUS
<1>2. pre(0) = <<>> /\ pre(N) = file
  BY PrefixSteps
<1>3. Q(<<>>)
  <2>1. ToSet(<<>>) = {}
    BY DEF ToSet
  <2> QED BY <2>1, LinesEmpty
<1>4. 0 \in S
  BY <1>2, <1>3
<1>5. ASSUME NEW n \in 0 .. N - 1, n \in S PROVE n + 1 \in S
  <2> DEFINE f == pre(n)
             l == file[n + 1]
  <2>1. n \in 0 .. N /\ n + 1 \in Nat
    BY <1>1
  <2>2. f \in Seq(T) /\ l \in T /\ pre(n + 1) = Append(f, l)
    BY PrefixSteps
  <2>3. Q(f)
    BY <1>5, <2>1
  <2> HIDE DEF f, l, pre
  <2>4. ToSet(Append(f, l)) = ToSet(f) \cup {l}
    BY <2>2, AppendFacts
  <2>5. ToSet(Append(Lines(f, who), l)) = ToSet(Lines(f, who)) \cup {l}
    BY <2>2, LinesType, AppendFacts
  <2>6. Lines(Append(f, l), who) = IF l.owner \in who THEN Append(Lines(f, who), l) ELSE Lines(f, who)
    BY <2>2, LinesAppend
  <2>7. Q(Append(f, l))
    BY <2>3, <2>4, <2>5, <2>6
  <2> QED BY <2>1, <2>2, <2>7
<1> HIDE DEF S
<1>6. 0 .. N \subseteq S
  <2> HIDE DEF N
  <2> QED BY <1>1, <1>4, <1>5, UpTo
<1>7. N \in S /\ N \in 0 .. N
  BY <1>1, <1>6
<1>8. Q(pre(N))
  <2> HIDE DEF N, pre, Q
  <2> QED BY <1>7 DEF S
<1> QED BY <1>2, <1>8

(* Of lines at the end that all belong to these owners all are picked, ...   *)
LEMMA LinesConcatAll ==
    ASSUME NEW T, NEW file \in Seq(T), NEW t \in Seq(T), NEW who,
           \A i \in 1 .. Len(t) : t[i].owner \in who
    PROVE  Lines(file \o t, who) = Lines(file, who) \o t
<1> DEFINE N == Len(t)
           pre(n) == SubSeq(t, 1, n)
           Q(p) == Lines(file \o p, who) = Lines(file, who) \o p
           S == {n \in Nat : n \in 0 .. N => Q(pre(n))}
<1>1. N \in Nat
  OBVIOUS
<1>2. pre(0) = <<>> /\ pre(N) = t
  BY PrefixSteps
<1>3. Q(<<>>)
  BY AppendFacts, LinesType
<1>4. 0 \in S
  BY <1>2, <1>3
<1>5. ASSUME NEW n \in 0 .. N - 1, n \in S PROVE n + 1 \in S
  <2> DEFINE p == pre(n)
             l == t[n + 1]
  <2>1. n \in 0 .. N /\ n + 1 \in Nat /\ n + 1 \in 1 .. Len(t)
    BY <1>1
  <2>2. p \in Seq(T) /\ l \in T /\ pre(n + 1) = Append(p, l) /\ l.owner \in who
    BY <2>1, PrefixSteps
  <2>3. Q(p)
    BY <1>5, <2>1
  <2> HIDE DEF p, l, pre
  <2>4. file \o Append(p, l) = Append(file \o p, l) /\ file \o p \in Seq(T)
    BY <2>2, AppendFacts
  <2>5. Lines(file, who) \o Append(p, l) = Append(Lines(file, who) \o p, l)
    <3>1. Lines(file, who) \in Seq(T)
      BY LinesType
    <3> QED BY <2>2, <3>1, AppendFacts
  <2>6. Lines(Append(file \o p, l), who) = Append(Lines(file \o p, who), l)
    BY <2>2, <2>4, LinesAppend
  <2>7. Q(Append(p, l))
    BY <2>3, <2>4, <2>5, <2>6
  <2> QED BY <2>1, <2>2, <2>7
<1> HIDE DEF S
<1>6. 0 .. N \subseteq S
  <2> HIDE DEF N
  <2> QED BY <1>1, <1>4, <1>5, UpTo
<1>7. N \in S /\ N \in 0 .. N
  BY <1>1, <1>6
<1>8. Q(pre(N))
  <2> HIDE DEF N, pre, Q
  <2> QED BY <1>7 DEF S
<1> QED BY <1>2, <1>8

(* ... and of lines that all belong to others none.                          *)
LEMMA LinesConcatNone ==
    ASSUME NEW T, NEW file \in Seq(T), NEW t \in Seq(T), NEW who,
           \A i \in 1 .. Len(t) : t[i].owner \notin who
    PROVE  Lines(file \o t, who) = Lines(file, who)
<1> DEFINE N == Len(t)
           pre(n) == SubSeq(t, 1, n)
           Q(p) == Lines(file \o p, who) = Lines(file, who)
           S == {n \in Nat : n \in 0 .. N => Q(pre(n))}
<1>1. N \in Nat
  OBVIOUS
<1>2. pre(0) = <<>> /\ pre(N) = t
  BY PrefixSteps
<1>3. Q(<<>>)
  BY AppendFacts
<1>4. 0 \in S
  BY <1>2, <1>3
<1>5. ASSUME NEW n \in 0 .. N - 1, n \in S PROVE n + 1 \in S
  <2> DEFINE p == pre(n)
             l == t[n + 1]
  <2>1. n \in 0 .. N /\ n + 1 \in Nat /\ n + 1 \in 1 .. Len(t)
    BY <1>1
  <2>2. p \in Seq(T) /\ l \in T /\ pre(n + 1) = Append(p, l) /\ l.owner \notin who
    BY <2>1, PrefixSteps
  <2>3. Q(p)
    BY <1>5, <2>1
  <2> HIDE DEF p, l, pre
  <2>4. file \o Append(p, l) = Append(file \o p, l) /\ file \o p \in Seq(T)
    BY <2>2, AppendFacts
  <2>5. Lines(Append(file \o p, l), who) = Lines(file \o p, who)
    BY <2>2, <2>4, LinesAppend
  <2>6. Q(Append(p, l))
    BY <2>3, <2>4, <2>5
  <2> QED BY <2>1, <2>2, <2>6
<1> HIDE DEF S
<1>6. 0 .. N \subseteq S
  <2> HIDE DEF N
  <2> QED BY <1>1, <1>4, <1>5, UpTo
<1>7. N \in S /\ N \in 0 .. N
  BY <1>1, <1>6
<1>8. Q(pre(N))
  <2> HIDE DEF N, pre, Q
  <2> QED BY <1>7 DEF S
<1> QED BY <1>2, <1>8

-----------------------------------------------------------------------------
(* What writeEntries makes of a file.                                        *)

(* k is what has been kept of the file after each line.                      *)
Keeps(k, a, e, file) ==
    k[0] = <<>> /\ \A n \in 1 .. Len(file) : k[n] = rewriteLine(a, e, k[n - 1], file[n])

(* The results are what was kept last, and the lines still wanted after it.  *)
Completes(k, a, e, file) ==
    writeEntries(a, file, e) =
        {k[Len(file)] \o rest : rest \in SetToSeqs(Managed(a, e) \ ToSet(k[Len(file)]))}

(* rewriteLine keeps to the lines there are and the ones that are wanted.    *)
LEMMA RewriteType ==
    ASSUME NEW T, NEW a, NEW e, Managed(a, e) \subseteq T, NEW out \in Seq(T), NEW line \in T
    PROVE  rewriteLine(a, e, out, line) \in Seq(T)
<1>1. line.ip \in DOMAIN e => Line(a, line.ip, e[line.ip]) \in T
  BY DEF Managed
<1> HIDE DEF Line
<1> QED BY <1>1 DEF rewriteLine

(* writeEntries goes through the file line by line.                          *)
LEMMA KeepUnfold ==
    ASSUME NEW T, NEW file \in Seq(T), NEW a, NEW e, Managed(a, e) \subseteq T
    PROVE  \E k \in [0 .. Len(file) -> Seq(T)] : Keeps(k, a, e, file) /\ Completes(k, a, e, file)
<1> DEFINE N == Len(file)
           Def(f, n) == IF n = 0 THEN <<>> ELSE rewriteLine(a, e, f[n - 1], file[n])
           F == [p \in (1 .. N) \X Seq(T) |-> rewriteLine(a, e, p[2], file[p[1]])]
           keep == CHOOSE f : f = [n \in 0 .. N |-> Def(f, n)]
<1>1. N \in Nat /\ \A n \in 1 .. N : file[n] \in T
  OBVIOUS
<1>2. F \in [(1 .. N) \X Seq(T) -> Seq(T)]
  <2>1. \A n \in 1 .. N, x \in Seq(T) : rewriteLine(a, e, x, file[n]) \in Seq(T)
    BY <1>1, RewriteType
  <2> QED BY <2>1
<1>3. \A n \in 1 .. N, x \in Seq(T) : F[<<n, x>>] = rewriteLine(a, e, x, file[n])
  BY <1>1
<1> HIDE DEF F
<1>4. PICK g \in [0 .. N -> Seq(T)] : g[0] = <<>> /\ \A n \in 1 .. N : g[n] = F[<<n, g[n - 1]>>]
  <2> DEFINE X == Seq(T)
             b == <<>>
  <2>1. b \in X
    OBVIOUS
  <2>2. N \in Nat /\ F \in [(1 .. N) \X X -> X]
    BY <1>1, <1>2
  <2> HIDE DEF N, X, b
  <2>3. \E g \in [0 .. N -> X] : Iterates(g, N, b, F)
    BY <2>1, <2>2, StepsExist
  <2> QED BY <2>3 DEF X, b, Iterates
<1>5. writeEntries(a, file, e) = {keep[N] \o rest : rest \in SetToSeqs(Managed(a, e) \ ToSet(keep[N]))}
  BY DEF writeEntries
<1> HIDE DEF N
<1>6. \A n \in 1 .. N : n - 1 \in 0 .. N /\ g[n - 1] \in Seq(T)
  BY <1>1
<1>7. \A n \in 1 .. N : g[n] = rewriteLine(a, e, g[n - 1], file[n])
  BY <1>3, <1>4, <1>6
<1>8. ASSUME NEW n \in 0 .. N PROVE g[n] = Def(g, n)
  <2>1. CASE n = 0
    BY <1>4, <2>1
  <2>2. CASE n # 0
    <3>1. n \in 1 .. N
      BY <1>1, <2>2
    <3> QED BY <1>7, <2>2, <3>1
  <2> QED BY <2>1, <2>2
<1>9. g = [n \in 0 .. N |-> Def(g, n)]
  <2> HIDE DEF Def
  <2> QED BY <1>8
<1>10. \E f : f = [n \in 0 .. N |-> Def(f, n)]
  <2> HIDE DEF Def
  <2> QED BY <1>9
<1>11. keep = [n \in 0 .. N |-> Def(keep, n)]
  <2> HIDE DEF Def
  <2> QED BY <1>10
<1> HIDE DEF keep
<1>12. \A n \in 0 .. N : keep[n] = Def(keep, n)
  <2> HIDE DEF Def
  <2> QED BY <1>11
<1>13. keep[N] = g[N]
  <2> DEFINE S == {n \in Nat : n \in 0 .. N => keep[n] = g[n]}
  <2>1. 0 \in S
    BY <1>1, <1>4, <1>12
  <2>2. ASSUME NEW n \in 0 .. N - 1, n \in S PROVE n + 1 \in S
    <3>1. n + 1 \in 0 .. N /\ n + 1 # 0 /\ (n + 1) - 1 = n /\ n + 1 \in Nat /\ n \in 0 .. N
      BY <1>1
    <3>2. keep[n] = g[n]
      BY <2>2, <3>1
    <3>3. keep[n + 1] = g[n + 1]
      BY <1>8, <1>12, <3>1, <3>2
    <3> QED BY <3>1, <3>3
  <2> HIDE DEF S
  <2>3. N \in Nat /\ \A n \in 0 .. N - 1 : n \in S => n + 1 \in S
    BY <1>1, <2>2
  <2>4. 0 .. N \subseteq S
    BY <2>1, <2>3, UpTo
  <2>5. N \in S
    BY <2>3, <2>4
  <2> QED BY <1>1, <2>5 DEF S
<1> QED BY <1>4, <1>5, <1>7, <1>13 DEF N, Keeps, Completes

(* What is kept: the lines of the others as they were, and of a's own the    *)
(* ones it is told to have, each once.                                       *)
LEMMA KeptLines ==
    ASSUME NEW T, NEW file \in Seq(T), NEW a, NEW e, Managed(a, e) \subseteq T,
           NEW k \in [0 .. Len(file) -> Seq(T)], Keeps(k, a, e, file)
    PROVE  LET kept == k[Len(file)]
           IN  /\ \A who : a \notin who => Lines(kept, who) = Lines(file, who)
               /\ {x \in ToSet(kept) : x.owner = a} \subseteq Managed(a, e)
               /\ IsInjective(Lines(kept, {a}))
<1> DEFINE N == Len(file)
           pre(n) == SubSeq(file, 1, n)
           Q(f, kept) == /\ \A who : a \notin who => Lines(kept, who) = Lines(f, who)
                         /\ {x \in ToSet(kept) : x.owner = a} \subseteq Managed(a, e)
                         /\ IsInjective(Lines(kept, {a}))
           S == {n \in Nat : n \in 0 .. N => Q(pre(n), k[n])}
<1>1. N \in Nat
  OBVIOUS
<1>2. pre(0) = <<>> /\ pre(N) = file
  BY PrefixSteps
<1>3. 0 \in S
  <2>1. k[0] = <<>>
    BY DEF Keeps
  <2>2. ToSet(<<>>) = {} /\ IsInjective(<<>>)
    BY DEF ToSet, IsInjective
  <2>3. Q(<<>>, <<>>)
    BY <2>2, LinesEmpty
  <2> QED BY <1>2, <2>1, <2>3
<1>4. ASSUME NEW n \in 0 .. N - 1, n \in S PROVE n + 1 \in S
  <2> DEFINE f == pre(n)
             l == file[n + 1]
             out == k[n]
  <2>1. n \in 0 .. N /\ n + 1 \in Nat /\ n + 1 \in 1 .. Len(file) /\ (n + 1) - 1 = n
    BY <1>1
  <2>2. f \in Seq(T) /\ l \in T /\ pre(n + 1) = Append(f, l)
    BY PrefixSteps
  <2>3. out \in Seq(T) /\ k[n + 1] = rewriteLine(a, e, out, l)
    BY <2>1 DEF Keeps
  <2>4. Q(f, out)
    BY <1>4, <2>1
  <2> HIDE DEF f, l, out, pre
  <2>5. \A who : Lines(Append(f, l), who) = IF l.owner \in who THEN Append(Lines(f, who), l) ELSE Lines(f, who)
    BY <2>2, LinesAppend
  <2>6. CASE l.owner # a
    <3>1. k[n + 1] = Append(out, l)
      BY <2>3, <2>6 DEF rewriteLine
    <3>2. \A who : Lines(Append(out, l), who) = IF l.owner \in who THEN Append(Lines(out, who), l) ELSE Lines(out, who)
      BY <2>2, <2>3, LinesAppend
    <3>3. ToSet(Append(out, l)) = ToSet(out) \cup {l}
      BY <2>2, <2>3, AppendFacts
    <3>4. \A who : a \notin who => Lines(Append(out, l), who) = Lines(Append(f, l), who)
      BY <2>4, <2>5, <3>2
    <3>5. {x \in ToSet(Append(out, l)) : x.owner = a} \subseteq Managed(a, e)
      BY <2>4, <2>6, <3>3
    <3>6. IsInjective(Lines(Append(out, l), {a}))
      <4>1. Lines(Append(out, l), {a}) = Lines(out, {a})
        BY <2>6, <3>2
      <4> QED BY <2>4, <4>1
    <3>7. Q(Append(f, l), Append(out, l))
      BY <3>4, <3>5, <3>6
    <3> QED BY <2>1, <2>2, <3>1, <3>7
  <2>7. CASE l.owner = a
    <3>0. \A who : a \notin who => Lines(Append(f, l), who) = Lines(f, who)
      BY <2>5, <2>7
    <3> DEFINE m == Line(a, l.ip, e[l.ip])
    <3>1. CASE l.ip \in DOMAIN e /\ ~Contains(out, m)
      <4>1. k[n + 1] = Append(out, m) /\ m \in Managed(a, e) /\ m.owner = a
        <5>1. m \in Managed(a, e)
          BY <3>1 DEF Managed
        <5>2. m.owner = a
          BY DEF Line
        <5>3. k[n + 1] = Append(out, m)
          <6> HIDE DEF Line
          <6> QED BY <2>3, <2>7, <3>1 DEF rewriteLine
        <5> QED BY <5>1, <5>2, <5>3
      <4>2. m \notin ToSet(out)
        BY <2>3, <3>1 DEF Contains, ToSet
      <4> HIDE DEF m
      <4>3. m \in T
        BY <4>1
      <4>4. \A who : Lines(Append(out, m), who) = IF m.owner \in who THEN Append(Lines(out, who), m) ELSE Lines(out, who)
        BY <2>3, <4>3, LinesAppend
      <4>5. ToSet(Append(out, m)) = ToSet(out) \cup {m}
        BY <2>3, <4>3, AppendFacts
      <4>6. \A who : a \notin who => Lines(Append(out, m), who) = Lines(Append(f, l), who)
        BY <2>4, <3>0, <4>1, <4>4
      <4>7. {x \in ToSet(Append(out, m)) : x.owner = a} \subseteq Managed(a, e)
        BY <2>4, <4>1, <4>5
      <4>8. IsInjective(Lines(Append(out, m), {a}))
        <5> DEFINE b == Lines(out, {a})
        <5>1. Lines(Append(out, m), {a}) = Append(b, m)
          BY <4>1, <4>4
        <5>2. b \in Seq(T) /\ IsInjective(b)
          BY <2>3, <2>4, LinesType
        <5>3. m \notin ToSet(b)
          BY <2>3, <4>2, LinesSet
        <5> HIDE DEF b
        <5>4. \A i \in 1 .. Len(b) : b[i] # m
          BY <5>2, <5>3 DEF ToSet
        <5>5. IsInjective(Append(b, m))
          BY <4>3, <5>2, <5>4 DEF IsInjective
        <5> QED BY <5>1, <5>5
      <4>9. Q(Append(f, l), Append(out, m))
        BY <4>6, <4>7, <4>8
      <4> QED BY <2>1, <2>2, <4>1, <4>9
    <3>2. CASE ~(l.ip \in DOMAIN e /\ ~Contains(out, m))
      <4>1. k[n + 1] = out
        <5> HIDE DEF Line
        <5> QED BY <2>3, <2>7, <3>2 DEF rewriteLine
      <4>2. Q(Append(f, l), out)
        BY <2>4, <3>0
      <4> QED BY <2>1, <2>2, <4>1, <4>2
    <3> QED BY <3>1, <3>2
  <2> QED BY <2>6, <2>7
<1> HIDE DEF S
<1>5. 0 .. N \subseteq S
  <2> HIDE DEF N
  <2> QED BY <1>1, <1>3, <1>4, UpTo
<1>6. N \in S /\ N \in 0 .. N
  BY <1>1, <1>5
<1>7. Q(pre(N), k[N])
  <2> HIDE DEF N, pre, Q
  <2> QED BY <1>6 DEF S
<1> QED BY <1>2, <1>7

(* SetToSeqs: each element of a finite set once.                             *)
LEMMA SetToSeqsFacts ==
    ASSUME NEW S, IsFiniteSet(S), NEW rest \in SetToSeqs(S)
    PROVE  rest \in Seq(S) /\ ToSet(rest) = S /\ IsInjective(rest)
<1> DEFINE n == Cardinality(S)
           D == 1 .. n
<1>1. n \in Nat
  BY FS_CardinalityType
<1>2. rest \in [D -> S] /\ \A i, j \in D : i # j => rest[i] # rest[j]
  BY DEF SetToSeqs
<1>3. IsInjective(rest)
  BY <1>2 DEF IsInjective
<1>4. rest \in Seq(S)
  BY <1>1, <1>2
<1>5. ToSet(rest) = S
  <2>1. rest \in Injection(D, S)
    BY <1>2, <1>3 DEF Injection
  <2>2. Cardinality(D) = n
    <3>1. 1 \in Int /\ n \in Int
      BY <1>1
    <3>2. Cardinality(1 .. n) = IF 1 > n THEN 0 ELSE n - 1 + 1
      BY <3>1, FS_Interval
    <3> QED BY <1>1, <3>2
  <2> HIDE DEF D
  <2>3. rest \in Surjection(D, S)
    BY <2>1, <2>2, FS_Injection
  <2> QED BY <1>2, <2>3 DEF Surjection, ToSet
<1> QED BY <1>3, <1>4, <1>5

(* The lines an agent is told to have are finitely many, and its own.        *)
LEMMA ManagedFinite ==
    ASSUME NEW a, NEW e, IsFiniteSet(DOMAIN e)
    PROVE  IsFiniteSet(Managed(a, e)) /\ \A x \in Managed(a, e) : x.owner = a
<1> DEFINE f == [ip \in DOMAIN e |-> Line(a, ip, e[ip])]
           D == DOMAIN e
           M == Managed(a, e)
<1>1. f \in Surjection(D, M)
  <2> HIDE DEF Line
  <2> QED BY DEF Managed, Surjection
<1>2. IsFiniteSet(M)
  <2>1. IsFiniteSet(D)
    OBVIOUS
  <2> HIDE DEF f, D, M
  <2> QED BY <1>1, <2>1, FS_Surjection
<1> QED BY <1>2 DEF Managed, Line

(* What WriteEntries computes, for every file and all entries, in whatever   *)
(* order Go walks its maps: the lines of all others as they were, in order,  *)
(* and each line of a's entries exactly once.                                *)
THEOREM WriteEntriesExact ==
    ASSUME NEW T, NEW file \in Seq(T), NEW a, NEW e, IsFiniteSet(DOMAIN e), Managed(a, e) \subseteq T,
           NEW new \in writeEntries(a, file, e)
    PROVE  /\ new \in Seq(T)
           /\ \A who : a \notin who => Lines(new, who) = Lines(file, who)
           /\ ToSet(Lines(new, {a})) = Managed(a, e)
           /\ IsInjective(Lines(new, {a}))
<1>1. PICK k \in [0 .. Len(file) -> Seq(T)] : Keeps(k, a, e, file) /\ Completes(k, a, e, file)
  BY KeepUnfold
<1> DEFINE kept == k[Len(file)]
           M == Managed(a, e)
<1>2. kept \in Seq(T)
  OBVIOUS
<1>3. /\ \A who : a \notin who => Lines(kept, who) = Lines(file, who)
      /\ {x \in ToSet(kept) : x.owner = a} \subseteq M
      /\ IsInjective(Lines(kept, {a}))
  BY <1>1, KeptLines
<1>4. PICK rest \in SetToSeqs(M \ ToSet(kept)) : new = kept \o rest
  BY <1>1 DEF Completes
<1> HIDE DEF kept
<1>5. IsFiniteSet(M \ ToSet(kept)) /\ \A x \in M : x.owner = a
  <2>1. IsFiniteSet(M) /\ \A x \in M : x.owner = a
    BY ManagedFinite
  <2> HIDE DEF M
  <2>2. IsFiniteSet(M \ ToSet(kept))
    <3>1. M \ ToSet(kept) \in SUBSET M
      OBVIOUS
    <3> QED BY <2>1, <3>1, FS_Subset
  <2> QED BY <2>1, <2>2
<1> HIDE DEF M
<1>6. rest \in Seq(M \ ToSet(kept)) /\ ToSet(rest) = M \ ToSet(kept) /\ IsInjective(rest)
  BY <1>4, <1>5, SetToSeqsFacts
<1>7. rest \in Seq(T) /\ \A i \in 1 .. Len(rest) : rest[i].owner = a /\ rest[i] \notin ToSet(kept)
  <2>1. M \ ToSet(kept) \subseteq T
    BY DEF M
  <2>2. \A i \in 1 .. Len(rest) : rest[i] \in M \ ToSet(kept)
    BY <1>6
  <2> QED BY <1>5, <1>6, <2>1, <2>2, SeqMonotonic
<1>8. new \in Seq(T)
  BY <1>2, <1>4, <1>7
<1>9. ASSUME NEW who, a \notin who PROVE Lines(new, who) = Lines(file, who)
  BY <1>2, <1>3, <1>4, <1>7, <1>9, LinesConcatNone
<1> DEFINE b == Lines(kept, {a})
<1>10. Lines(new, {a}) = b \o rest
  BY <1>2, <1>4, <1>7, LinesConcatAll
<1>11. b \in Seq(T) /\ ToSet(b) = {x \in ToSet(kept) : x.owner = a}
  BY <1>2, LinesSet, LinesType
<1> HIDE DEF b
<1>12. ToSet(b \o rest) = M
  <2>1. ToSet(b \o rest) = ToSet(b) \cup ToSet(rest)
    BY <1>7, <1>11, AppendFacts
  <2> QED BY <1>3, <1>5, <1>6, <1>11, <2>1
<1>13. IsInjective(b \o rest)
  <2>1. \A i \in 1 .. Len(b), j \in 1 .. Len(rest) : b[i] # rest[j]
    <3>1. \A i \in 1 .. Len(b) : b[i] \in ToSet(kept)
      <4>1. \A i \in 1 .. Len(b) : b[i] \in ToSet(b)
        BY <1>11 DEF ToSet
      <4> QED BY <1>11, <4>1
    <3> QED BY <1>7, <3>1
  <2>2. IsInjective(b)
    BY <1>3 DEF b
  <2> SUFFICES ASSUME NEW i \in 1 .. Len(b) + Len(rest), NEW j \in 1 .. Len(b) + Len(rest),
                      (b \o rest)[i] = (b \o rest)[j]
               PROVE  i = j
    BY <1>7, <1>11 DEF IsInjective
  <2> DEFINE B == Len(b)
             R == Len(rest)
  <2>3. /\ B \in Nat /\ R \in Nat
        /\ \A x \in 1 .. B : (b \o rest)[x] = b[x]
        /\ \A x \in 1 .. B + R : x \notin 1 .. B => x - B \in 1 .. R /\ (b \o rest)[x] = rest[x - B]
    BY <1>7, <1>11
  <2>4. \A x, y \in 1 .. B : b[x] = b[y] => x = y
    BY <1>11, <2>2 DEF IsInjective
  <2>5. \A x, y \in 1 .. R : rest[x] = rest[y] => x = y
    BY <1>6, <1>7 DEF IsInjective
  <2> HIDE DEF B, R
  <2>6. CASE i \in 1 .. B /\ j \in 1 .. B
    BY <2>3, <2>4, <2>6
  <2>7. CASE i \in 1 .. B /\ j \notin 1 .. B
    BY <2>1, <2>3, <2>7 DEF B, R
  <2>8. CASE i \notin 1 .. B /\ j \in 1 .. B
    BY <2>1, <2>3, <2>8 DEF B, R
  <2>9. CASE i \notin 1 .. B /\ j \notin 1 .. B
    <3>1. i - B = j - B
      BY <2>3, <2>5, <2>9 DEF B, R
    <3> QED BY <2>3, <3>1 DEF B, R
  <2> QED BY <2>6, <2>7, <2>8, <2>9
<1> QED BY <1>8, <1>9, <1>10, <1>12, <1>13 DEF M

-----------------------------------------------------------------------------
(* The calls of WriteEntries and what can go wrong in them.                  *)

(* The lines that can be in a file.                                          *)
Text == UNION ({Range(f) : f \in HostsFile} \cup {Managed(a, e) : a \in Iface, e \in HostsEntries})

(* The stages of a call in which it has a temporary file.                    *)
WithTemp == {"written", "synced", "truncate", "copy", "flush", "done"}

(* The types of the variables; a file is a sequence of lines of Text.        *)
HostsTypeOK ==
    /\ refused \in BOOLEAN /\ harmed \in BOOLEAN
    /\ data \in Seq(Seq(Text))
    /\ {etcHosts, former} \cup synced \cup moded \cup temps \subseteq DOMAIN data
    /\ hpc \in [Iface -> {"idle", "open", "failed"} \cup WithTemp]
    /\ fd \in [Iface -> Nat] /\ tmp \in [Iface -> Nat]
    /\ entries \in [Iface -> HostsEntries \cup {<<>>}]
    /\ seen \in [Iface -> Seq(Text)]

(* A call has its file open and, once it is created, a temporary one beside  *)
(* it, and copies only after a rename has failed.                            *)
CallsOpen ==
    \A a \in Iface :
        /\ Busy(a) => fd[a] \in DOMAIN data /\ entries[a] \in HostsEntries
        /\ hpc[a] \in {"idle", "open"} => tmp[a] = 0
        /\ hpc[a] \in WithTemp => tmp[a] \in DOMAIN data /\ tmp[a] # fd[a]
        /\ hpc[a] \in {"truncate", "copy", "flush"} => refused

(* Calls that are under way together are known to overlap.                   *)
OverlapNoted ==
    \A a, b \in Iface : a # b /\ Busy(a) /\ Busy(b) => a \in mixed /\ harmed

(* As long as no rename has failed, every file that is, was or may become    *)
(* the hosts file has the foreign lines, and the first two are on the disk.  *)
RenameKeeps ==
    ~refused =>
        /\ \A i \in {etcHosts, former} : Foreign(data[i]) = theirs /\ i \in synced
        /\ \A a \in Iface :
              /\ Busy(a) => Foreign(data[fd[a]]) = theirs
              /\ hpc[a] \in {"written", "synced"} => Foreign(data[tmp[a]]) = theirs
              /\ hpc[a] = "synced" => tmp[a] \in synced

(* With copies the same holds of all but the file that is being copied over, *)
(* and what that one lacks is in the temporary file.                         *)
CopyKeeps ==
    ~harmed =>
        /\ \A i \in {etcHosts, former} :
              (\A a \in Iface : Copying(a) => fd[a] # i) => Foreign(data[i]) = theirs /\ i \in synced
        /\ \A a \in Iface :
              /\ hpc[a] \in {"open"} \cup (WithTemp \ {"done"}) => fd[a] = etcHosts
              /\ hpc[a] \in WithTemp \ {"done"} => Foreign(data[tmp[a]]) = theirs
              /\ hpc[a] = "synced" => tmp[a] \in synced
              /\ hpc[a] = "copy" => data[fd[a]] = <<>>
              /\ hpc[a] = "flush" => data[fd[a]] = data[tmp[a]]

(* Whatever is, was or becomes the hosts file has its mode.                  *)
ModeKept ==
    /\ etcHosts \in moded /\ former \in moded
    /\ \A a \in Iface : hpc[a] = "synced" => tmp[a] \in moded

(* A call that nobody overlapped works on the hosts file, and its temporary  *)
(* file is what it is to become.                                             *)
ExactSoFar ==
    \A a \in Iface : Busy(a) /\ a \notin mixed =>
        /\ hpc[a] \notin {"done", "failed"} => fd[a] = etcHosts
        /\ hpc[a] = "open" => data[fd[a]] = seen[a]
        /\ hpc[a] \in WithTemp \ {"done"} => Exact(a, data[tmp[a]])
        /\ hpc[a] = "copy" => data[fd[a]] = <<>>
        /\ hpc[a] = "flush" => data[fd[a]] = data[tmp[a]]
        /\ hpc[a] = "done" => Exact(a, data[etcHosts])

(* The inductive invariant of the hosts file.                                *)
HostsInv ==
    /\ HostsTypeOK
    /\ CallsOpen
    /\ OverlapNoted
    /\ RenameKeeps
    /\ CopyKeeps
    /\ ModeKept
    /\ ExactSoFar
    /\ NoStrayTemp

(* The file as it was found: all of it on the disk, and no call under way.   *)
LEMMA HostsInitInv == HostsInit => HostsInv
<1> SUFFICES ASSUME HostsInit PROVE HostsInv
  OBVIOUS
<1>1. PICK f \in HostsFile : data = <<f>>
  BY DEF HostsInit
<1>2. f \in Seq(Text)
  <2>1. f \in Seq(Range(f)) /\ Range(f) \subseteq Text
    BY HostsAssumption DEF HostsAssumption, Text
  <2> QED BY <2>1, SeqMonotonic
<1>3. data \in Seq(Seq(Text)) /\ 1 \in DOMAIN data /\ data[1] = f
  BY <1>1, <1>2
<1>4. HostsTypeOK
  <2>1. {etcHosts, former} \cup synced \cup moded \cup temps \subseteq DOMAIN data
    BY <1>3 DEF HostsInit
  <2>2. /\ refused \in BOOLEAN /\ harmed \in BOOLEAN
        /\ hpc \in [Iface -> {"idle", "open", "failed"} \cup WithTemp]
        /\ fd \in [Iface -> Nat] /\ tmp \in [Iface -> Nat]
    BY DEF HostsInit
  <2>3. <<>> \in Seq(Text) /\ <<>> \in HostsEntries \cup {<<>>}
    OBVIOUS
  <2>4. entries \in [Iface -> HostsEntries \cup {<<>>}]
    BY <2>3 DEF HostsInit
  <2>5. seen \in [Iface -> Seq(Text)]
    BY <2>3 DEF HostsInit
  <2> QED BY <1>3, <2>1, <2>2, <2>4, <2>5 DEF HostsTypeOK
<1>5. CallsOpen /\ OverlapNoted /\ NoStrayTemp /\ ExactSoFar
  BY DEF HostsInit, CallsOpen, OverlapNoted, NoStrayTemp, ExactSoFar, Busy, WithTemp
<1>6. RenameKeeps /\ CopyKeeps /\ ModeKept
  BY DEF HostsInit, RenameKeeps, CopyKeeps, ModeKept, Busy, Copying, WithTemp
<1> QED BY <1>4, <1>5, <1>6 DEF HostsInv

(* The hosts file is opened, and a call that overlaps another is noted.      *)
LEMMA OpenInv ==
    ASSUME HostsInv, NEW a \in Iface, OpenHosts(a)
    PROVE  HostsInv'
<1> USE DEF HostsInv, OpenHosts, HostsStep, Busy, Copying, WithTemp, setting, disk, dir
<1>1. /\ hpc[a] = "idle" /\ hpc'[a] = "open" /\ hpc \in [Iface -> {"idle", "open", "failed"} \cup WithTemp]
      /\ fd'[a] = etcHosts /\ seen'[a] = data[etcHosts] /\ entries'[a] \in HostsEntries
      /\ \A b \in Iface \ {a} : /\ hpc'[b] = hpc[b] /\ fd'[b] = fd[b] /\ seen'[b] = seen[b]
                                /\ entries'[b] = entries[b]
  BY DEF HostsTypeOK
<1>2. HostsTypeOK'
  BY DEF HostsTypeOK
<1>3. CallsOpen'
  BY <1>1 DEF HostsTypeOK, CallsOpen
<1>4. OverlapNoted'
  BY <1>1 DEF HostsTypeOK, OverlapNoted
<1>5. RenameKeeps'
  BY <1>1 DEF HostsTypeOK, RenameKeeps
<1>6. CopyKeeps'
  BY <1>1 DEF HostsTypeOK, CopyKeeps
<1>7. ExactSoFar'
  BY <1>1 DEF HostsTypeOK, ExactSoFar, Exact
<1>8. NoStrayTemp'
  BY <1>1 DEF HostsTypeOK, NoStrayTemp
<1>9. ModeKept'
  BY <1>1 DEF HostsTypeOK, ModeKept
<1> QED BY <1>2, <1>3, <1>4, <1>5, <1>6, <1>7, <1>8, <1>9

(* The new file is what WriteEntriesExact says, and nothing else changes.    *)
LEMMA WriteTempInv ==
    ASSUME HostsInv, NEW a \in Iface, WriteTemp(a)
    PROVE  HostsInv'
<1> USE DEF HostsInv, WriteTemp, HostsStep, Busy, Copying, WithTemp, setting, hostsPast
<1>1. PICK new \in writeEntries(a, data[fd[a]], entries[a]) : data' = Append(data, new)
  OBVIOUS
<1>2. fd[a] \in DOMAIN data /\ entries[a] \in HostsEntries /\ data[fd[a]] \in Seq(Text)
  BY DEF HostsTypeOK, CallsOpen
<1>3. Managed(a, entries[a]) \subseteq Text /\ IsFiniteSet(DOMAIN entries[a])
  BY <1>2, HostsAssumption DEF HostsAssumption, Text
<1>4. /\ new \in Seq(Text)
      /\ \A who : a \notin who => Lines(new, who) = Lines(data[fd[a]], who)
      /\ ToSet(Lines(new, {a})) = Managed(a, entries[a])
      /\ IsInjective(Lines(new, {a}))
  <2> DEFINE T == Text
             old == data[fd[a]]
             e == entries[a]
  <2>1. old \in Seq(T) /\ IsFiniteSet(DOMAIN e) /\ Managed(a, e) \subseteq T /\ new \in writeEntries(a, old, e)
    BY <1>2, <1>3
  <2> HIDE DEF T, old, e
  <2>2. /\ new \in Seq(T)
        /\ \A who : a \notin who => Lines(new, who) = Lines(old, who)
        /\ ToSet(Lines(new, {a})) = Managed(a, e)
        /\ IsInjective(Lines(new, {a}))
    BY <2>1, WriteEntriesExact
  <2> QED BY <2>2 DEF T, old, e
<1>5. Foreign(new) = Foreign(data[fd[a]])
  BY <1>4, HostsAssumption DEF HostsAssumption, Foreign
<1>6. data[fd[a]] = seen[a] => Exact(a, new)
  BY <1>4 DEF Exact, NotOf, Block
<1> DEFINE n == Len(data)
<1>7. /\ n \in Nat /\ DOMAIN data = 1 .. n /\ Len(data') = n + 1 /\ DOMAIN data' = 1 .. n + 1
      /\ data' \in Seq(Seq(Text)) /\ data'[n + 1] = new
      /\ \A i \in DOMAIN data : data'[i] = data[i]
  BY <1>1, <1>4 DEF HostsTypeOK
<1>8. n + 1 \notin DOMAIN data /\ n + 1 \in DOMAIN data' /\ DOMAIN data \subseteq DOMAIN data'
  BY <1>7
<1>9. /\ hpc[a] = "open" /\ hpc'[a] = "written" /\ tmp'[a] = n + 1 /\ temps' = temps \cup {n + 1}
      /\ \A b \in Iface \ {a} : hpc'[b] = hpc[b] /\ tmp'[b] = tmp[b]
  BY <1>7 DEF HostsTypeOK
<1> HIDE DEF n
<1>10. HostsTypeOK'
  BY <1>7, <1>8, <1>9 DEF HostsTypeOK
<1>11. CallsOpen'
  BY <1>2, <1>8, <1>9 DEF HostsTypeOK, CallsOpen
<1>12. OverlapNoted'
  BY <1>9 DEF OverlapNoted
<1>13. RenameKeeps'
  BY <1>2, <1>5, <1>7, <1>9 DEF HostsTypeOK, CallsOpen, RenameKeeps
<1>14. CopyKeeps' /\ ModeKept'
  <2>1. ModeKept'
    BY <1>2, <1>7, <1>9 DEF HostsTypeOK, CallsOpen, ModeKept
  <2>2. CopyKeeps'
    <3> SUFFICES ASSUME ~harmed' PROVE CopyKeeps'
      BY DEF CopyKeeps
    <3>1. \A b \in Iface \ {a} : hpc[b] = "idle" /\ hpc'[b] = "idle"
      BY <1>9 DEF HostsTypeOK, OverlapNoted
    <3>2. \A i \in {etcHosts, former} : Foreign(data[i]) = theirs /\ i \in synced /\ i \in DOMAIN data
      BY <1>9, <3>1 DEF HostsTypeOK, CopyKeeps
    <3>3. fd[a] = etcHosts /\ Foreign(data'[tmp'[a]]) = theirs
      BY <1>5, <1>7, <1>9, <3>2 DEF CopyKeeps
    <3>4. \A i \in {etcHosts, former} : data'[i] = data[i]
      BY <1>7, <3>2
    <3> QED BY <1>9, <3>1, <3>2, <3>3, <3>4 DEF CopyKeeps
  <2> QED BY <2>1, <2>2
<1>15. ExactSoFar'
  <2>1. \A f : \A b \in Iface : Exact(b, f)' <=> Exact(b, f)
    BY DEF Exact
  <2> QED BY <1>2, <1>6, <1>7, <1>9, <2>1 DEF HostsTypeOK, CallsOpen, ExactSoFar, OverlapNoted
<1>16. NoStrayTemp'
  BY <1>9 DEF HostsTypeOK, NoStrayTemp, CallsOpen
<1> QED BY <1>10, <1>11, <1>12, <1>13, <1>14, <1>15, <1>16

(* The temporary file is synced and gets the mode of the hosts file.         *)
LEMMA SyncTempInv ==
    ASSUME HostsInv, NEW a \in Iface, SyncTemp(a)
    PROVE  HostsInv'
<1> USE DEF HostsInv, SyncTemp, Busy, Copying, WithTemp, HostsStep, setting, call, hostsPast, dir
<1>1. /\ hpc[a] = "written" /\ hpc'[a] = "synced" /\ \A b \in Iface \ {a} : hpc'[b] = hpc[b]
      /\ tmp[a] \in DOMAIN data
  BY DEF HostsTypeOK, CallsOpen
<1>2. HostsTypeOK'
  BY <1>1 DEF HostsTypeOK
<1>3. CallsOpen'
  BY <1>1 DEF HostsTypeOK, CallsOpen
<1>4. OverlapNoted'
  BY <1>1 DEF HostsTypeOK, OverlapNoted
<1>5. RenameKeeps'
  BY <1>1 DEF HostsTypeOK, CallsOpen, RenameKeeps
<1>6. CopyKeeps'
  BY <1>1 DEF HostsTypeOK, CallsOpen, CopyKeeps, OverlapNoted
<1>7. ExactSoFar'
  BY <1>1 DEF HostsTypeOK, CallsOpen, ExactSoFar, OverlapNoted, Exact
<1>8. NoStrayTemp'
  BY <1>1 DEF HostsTypeOK, CallsOpen, NoStrayTemp
<1>9. ModeKept'
  BY <1>1 DEF HostsTypeOK, CallsOpen, ModeKept
<1> QED BY <1>2, <1>3, <1>4, <1>5, <1>6, <1>7, <1>8, <1>9

(* The rename fails, so the copy begins.                                     *)
LEMMA RenameRefusedInv ==
    ASSUME HostsInv, NEW a \in Iface, RenameRefused(a)
    PROVE  HostsInv'
<1> USE DEF HostsInv, RenameRefused, Busy, Copying, WithTemp, HostsStep, HostsFault, setting, call, disk, dir
<1>1. /\ hpc[a] = "synced" /\ hpc'[a] = "truncate" /\ \A b \in Iface \ {a} : hpc'[b] = hpc[b]
  BY DEF HostsTypeOK, CallsOpen
<1>2. HostsTypeOK'
  BY <1>1 DEF HostsTypeOK
<1>3. CallsOpen'
  BY <1>1 DEF HostsTypeOK, CallsOpen
<1>4. OverlapNoted'
  BY <1>1 DEF HostsTypeOK, OverlapNoted
<1>5. RenameKeeps'
  BY <1>1 DEF HostsTypeOK, CallsOpen, RenameKeeps
<1>6. CopyKeeps'
  BY <1>1 DEF HostsTypeOK, CallsOpen, CopyKeeps, OverlapNoted
<1>7. ExactSoFar'
  BY <1>1 DEF HostsTypeOK, CallsOpen, ExactSoFar, OverlapNoted, Exact
<1>8. NoStrayTemp'
  BY <1>1 DEF HostsTypeOK, CallsOpen, NoStrayTemp
<1>9. ModeKept'
  BY <1>1 DEF HostsTypeOK, CallsOpen, ModeKept
<1> QED BY <1>2, <1>3, <1>4, <1>5, <1>6, <1>7, <1>8, <1>9

(* The copied file is synced: the call ends well, and the file is what the   *)
(* temporary one is.                                                         *)
LEMMA SyncHostsInv ==
    ASSUME HostsInv, NEW a \in Iface, SyncHosts(a)
    PROVE  HostsInv'
<1> USE DEF HostsInv, SyncHosts, Busy, Copying, WithTemp, HostsStep, setting, call, hostsPast, dir
<1>1. /\ hpc[a] = "flush" /\ hpc'[a] = "done" /\ \A b \in Iface \ {a} : hpc'[b] = hpc[b]
      /\ fd[a] \in DOMAIN data
  BY DEF HostsTypeOK, CallsOpen
<1>2. HostsTypeOK'
  BY <1>1 DEF HostsTypeOK
<1>3. CallsOpen'
  BY <1>1 DEF HostsTypeOK, CallsOpen
<1>4. OverlapNoted'
  BY <1>1 DEF HostsTypeOK, OverlapNoted
<1>5. RenameKeeps'
  BY <1>1 DEF HostsTypeOK, CallsOpen, RenameKeeps
<1>6. CopyKeeps'
  BY <1>1 DEF HostsTypeOK, CallsOpen, CopyKeeps, OverlapNoted
<1>7. ExactSoFar'
  BY <1>1 DEF HostsTypeOK, CallsOpen, ExactSoFar, OverlapNoted, Exact
<1>8. NoStrayTemp'
  BY <1>1 DEF HostsTypeOK, CallsOpen, NoStrayTemp
<1>9. ModeKept'
  BY <1>1 DEF HostsTypeOK, CallsOpen, ModeKept
<1> QED BY <1>2, <1>3, <1>4, <1>5, <1>6, <1>7, <1>8, <1>9

(* A rename: the file that was synced becomes the hosts file.                *)
LEMMA RenameInv ==
    ASSUME HostsInv, NEW a \in Iface, Rename(a)
    PROVE  HostsInv'
<1> USE DEF HostsInv, Rename, Busy, Copying, WithTemp, HostsStep, setting, call, hostsPast, disk
<1>1. /\ hpc[a] = "synced" /\ hpc'[a] = "done" /\ \A b \in Iface \ {a} : hpc'[b] = hpc[b]
      /\ tmp[a] \in DOMAIN data
  BY DEF HostsTypeOK, CallsOpen
<1>2. HostsTypeOK'
  BY <1>1 DEF HostsTypeOK
<1>3. CallsOpen'
  BY <1>1 DEF HostsTypeOK, CallsOpen
<1>4. OverlapNoted'
  BY <1>1 DEF HostsTypeOK, OverlapNoted
<1>5. RenameKeeps'
  BY <1>1 DEF HostsTypeOK, CallsOpen, RenameKeeps
<1>6. CopyKeeps'
  <2> SUFFICES ASSUME ~harmed' PROVE CopyKeeps'
    BY DEF CopyKeeps
  <2>1. \A b \in Iface \ {a} : hpc[b] = "idle" /\ hpc'[b] = "idle"
    BY <1>1 DEF HostsTypeOK, OverlapNoted
  <2>2. \A i \in {etcHosts, tmp[a]} : Foreign(data[i]) = theirs /\ i \in synced
    BY <1>1, <2>1 DEF CopyKeeps
  <2> QED BY <1>1, <2>1, <2>2 DEF CopyKeeps
<1>7. ExactSoFar'
  BY <1>1 DEF HostsTypeOK, CallsOpen, ExactSoFar, OverlapNoted, Exact
<1>8. NoStrayTemp'
  BY <1>1 DEF HostsTypeOK, CallsOpen, NoStrayTemp
<1>9. ModeKept'
  BY <1>1 DEF HostsTypeOK, CallsOpen, ModeKept
<1> QED BY <1>2, <1>3, <1>4, <1>5, <1>6, <1>7, <1>8, <1>9

(* The hosts file is emptied: from now on its lines are in the temporary one.*)
LEMMA TruncateInv ==
    ASSUME HostsInv, NEW a \in Iface, Truncate(a)
    PROVE  HostsInv'
<1> USE DEF HostsInv, Truncate, Busy, Copying, WithTemp, HostsStep, setting, call, hostsPast, dir
<1>1. /\ hpc[a] = "truncate" /\ hpc'[a] = "copy" /\ \A b \in Iface \ {a} : hpc'[b] = hpc[b]
      /\ refused /\ fd[a] \in DOMAIN data /\ tmp[a] \in DOMAIN data /\ tmp[a] # fd[a]
      /\ data' \in Seq(Seq(Text)) /\ DOMAIN data' = DOMAIN data /\ data'[fd[a]] = <<>>
      /\ \A i \in DOMAIN data \ {fd[a]} : data'[i] = data[i]
  BY DEF HostsTypeOK, CallsOpen
<1>2. HostsTypeOK'
  BY <1>1 DEF HostsTypeOK
<1>3. CallsOpen'
  BY <1>1 DEF HostsTypeOK, CallsOpen
<1>4. OverlapNoted'
  BY <1>1 DEF HostsTypeOK, OverlapNoted
<1>5. RenameKeeps'
  BY <1>1 DEF HostsTypeOK, CallsOpen, RenameKeeps
<1>6. CopyKeeps'
  <2> SUFFICES ASSUME ~harmed' PROVE CopyKeeps'
    BY DEF CopyKeeps
  <2>1. \A b \in Iface \ {a} : hpc[b] = "idle" /\ hpc'[b] = "idle"
    BY <1>1 DEF HostsTypeOK, OverlapNoted
  <2>2. /\ fd[a] = etcHosts /\ Foreign(data[tmp[a]]) = theirs
        /\ Foreign(data[former]) = theirs /\ former \in synced /\ former \in DOMAIN data
    BY <1>1, <2>1 DEF HostsTypeOK, CopyKeeps
  <2>3. former # etcHosts => Foreign(data'[former]) = theirs /\ former \in synced'
    BY <1>1, <2>2
  <2> QED BY <1>1, <2>1, <2>2, <2>3 DEF CopyKeeps
<1>7. ExactSoFar'
  BY <1>1 DEF HostsTypeOK, CallsOpen, ExactSoFar, OverlapNoted, Exact
<1>8. NoStrayTemp'
  BY <1>1 DEF HostsTypeOK, CallsOpen, NoStrayTemp
<1>9. ModeKept'
  BY <1>1 DEF HostsTypeOK, CallsOpen, ModeKept
<1> QED BY <1>2, <1>3, <1>4, <1>5, <1>6, <1>7, <1>8, <1>9

(* The temporary file is written over the truncated one, which becomes a     *)
(* copy of it.                                                               *)
LEMMA CopyBackInv ==
    ASSUME HostsInv, NEW a \in Iface, CopyBack(a)
    PROVE  HostsInv'
<1> USE DEF HostsInv, Busy, Copying, WithTemp, HostsStep, setting, call, hostsPast, dir
<1> DEFINE new == data[tmp[a]]
           old == data[fd[a]]
           copied == new \o SubSeq(old, Len(new) + 1, Len(old))
<1>a. /\ hpc[a] = "copy" /\ hpc' = [hpc EXCEPT ![a] = "flush"]
      /\ data' = [data EXCEPT ![fd[a]] = copied]
      /\ UNCHANGED <<setting, synced, moded, dir, call, hostsFaults, hostsPast>>
  BY DEF CopyBack
<1>b. new \in Seq(Text) /\ old \in Seq(Text)
  BY <1>a DEF HostsTypeOK, CallsOpen
<1>c. copied \in Seq(Text) /\ (old = <<>> => copied = new)
  <2> HIDE DEF new, old
  <2>1. copied \in Seq(Text)
    BY <1>b
  <2>2. ASSUME old = <<>> PROVE copied = new
    <3>1. SubSeq(old, Len(new) + 1, Len(old)) = <<>>
      BY <1>b, <2>2
    <3>2. new \o <<>> = new
      BY <1>b
    <3> QED BY <3>1, <3>2
  <2> QED BY <2>1, <2>2
<1> HIDE DEF copied
<1>1. /\ hpc[a] = "copy" /\ hpc'[a] = "flush" /\ \A b \in Iface \ {a} : hpc'[b] = hpc[b]
      /\ refused /\ fd[a] \in DOMAIN data /\ tmp[a] \in DOMAIN data /\ tmp[a] # fd[a]
      /\ data' \in Seq(Seq(Text)) /\ DOMAIN data' = DOMAIN data
      /\ data[fd[a]] = <<>> => data'[fd[a]] = data[tmp[a]]
      /\ \A i \in DOMAIN data \ {fd[a]} : data'[i] = data[i]
  BY <1>a, <1>b, <1>c DEF HostsTypeOK, CallsOpen
<1>d. UNCHANGED <<renames, theirs, synced, moded, etcHosts, former, temps, fd, tmp, entries, hostsPast>>
  BY <1>a
<1>2. HostsTypeOK'
  BY <1>a, <1>1 DEF HostsTypeOK
<1>3. CallsOpen'
  BY <1>a, <1>1 DEF HostsTypeOK, CallsOpen
<1>4. OverlapNoted'
  BY <1>a, <1>1 DEF HostsTypeOK, OverlapNoted
<1>5. RenameKeeps'
  BY <1>a, <1>1 DEF HostsTypeOK, CallsOpen, RenameKeeps
<1>6. CopyKeeps'
  <2>1. ASSUME ~harmed
        PROVE  /\ Foreign(data'[tmp[a]]) = theirs /\ data'[fd[a]] = data'[tmp[a]] /\ fd[a] = etcHosts
               /\ \A b \in Iface \ {a} : hpc'[b] = "idle"
    <3>1. data[fd[a]] = <<>> /\ Foreign(data[tmp[a]]) = theirs /\ fd[a] = etcHosts
      BY <1>1, <2>1 DEF CopyKeeps
    <3>2. data'[tmp[a]] = data[tmp[a]] /\ data'[fd[a]] = data[tmp[a]]
      BY <1>1, <3>1
    <3> QED BY <1>1, <2>1, <3>1, <3>2 DEF OverlapNoted
  <2>2. ASSUME ~harmed, former # etcHosts
        PROVE  Foreign(data'[former]) = theirs /\ former \in synced
    <3>1. \A b \in Iface : Copying(b) => fd[b] # former
      BY <2>2 DEF CopyKeeps
    <3>2. Foreign(data[former]) = theirs /\ former \in synced
      BY <2>2, <3>1 DEF CopyKeeps
    <3> QED BY <1>1, <2>1, <2>2, <3>2 DEF HostsTypeOK
  <2> QED BY <1>1, <1>d, <2>1, <2>2 DEF HostsTypeOK, CopyKeeps
<1>7. ExactSoFar'
  <2>1. \A f : \A b \in Iface : Exact(b, f)' <=> Exact(b, f)
    BY <1>d DEF Exact
  <2>2. ASSUME NEW b \in Iface \ {a}, Busy(b)' PROVE b \in mixed'
    BY <1>1, <1>d, <2>2 DEF OverlapNoted
  <2>3. ASSUME a \notin mixed'
        PROVE  fd'[a] = etcHosts' /\ Exact(a, data'[tmp[a]]) /\ data'[fd[a]] = data'[tmp[a]]
    <3>1. fd[a] = etcHosts /\ data[fd[a]] = <<>> /\ Exact(a, data[tmp[a]])
      BY <1>1, <1>d, <2>3 DEF ExactSoFar
    <3>2. data'[tmp[a]] = data[tmp[a]] /\ data'[fd[a]] = data[tmp[a]]
      BY <1>1, <3>1
    <3> QED BY <1>d, <3>1, <3>2
  <2> QED BY <1>1, <1>d, <2>1, <2>2, <2>3 DEF ExactSoFar
<1>8. NoStrayTemp'
  BY <1>a, <1>1 DEF HostsTypeOK, CallsOpen, NoStrayTemp
<1>9. ModeKept'
  BY <1>a, <1>1 DEF HostsTypeOK, ModeKept
<1> QED BY <1>2, <1>3, <1>4, <1>5, <1>6, <1>7, <1>8, <1>9

(* An error: what the call has done so far stays.                            *)
LEMMA WriteFailsInv ==
    ASSUME HostsInv, NEW a \in Iface, WriteFails(a)
    PROVE  HostsInv'
<1> USE DEF HostsInv, WriteFails, Busy, Copying, WithTemp, HostsFault, setting, call, disk, dir
<1>1. /\ hpc[a] # "idle" /\ hpc'[a] = "failed" /\ \A b \in Iface \ {a} : hpc'[b] = hpc[b]
  BY DEF HostsTypeOK, CallsOpen
<1>2. HostsTypeOK'
  BY <1>1 DEF HostsTypeOK
<1>3. CallsOpen'
  BY <1>1 DEF HostsTypeOK, CallsOpen
<1>4. OverlapNoted'
  BY <1>1 DEF HostsTypeOK, OverlapNoted
<1>5. RenameKeeps'
  BY <1>1 DEF HostsTypeOK, CallsOpen, RenameKeeps
<1>6. CopyKeeps'
  BY <1>1 DEF HostsTypeOK, CallsOpen, CopyKeeps, OverlapNoted
<1>7. ExactSoFar'
  BY <1>1 DEF HostsTypeOK, CallsOpen, ExactSoFar, OverlapNoted, Exact
<1>8. NoStrayTemp'
  BY <1>1 DEF HostsTypeOK, CallsOpen, NoStrayTemp
<1>9. ModeKept'
  BY <1>1 DEF HostsTypeOK, CallsOpen, ModeKept
<1> QED BY <1>2, <1>3, <1>4, <1>5, <1>6, <1>7, <1>8, <1>9

(* The end of a call: its temporary file goes.                               *)
LEMMA RemoveTempInv ==
    ASSUME HostsInv, NEW a \in Iface, RemoveTemp(a)
    PROVE  HostsInv'
<1> USE DEF HostsInv, RemoveTemp, Busy, Copying, WithTemp, Return, setting, disk
<1>1. /\ hpc'[a] = "idle" /\ tmp'[a] = 0 /\ a \notin mixed'
      /\ \A b \in Iface \ {a} :
            /\ hpc'[b] = hpc[b] /\ fd'[b] = fd[b] /\ tmp'[b] = tmp[b]
            /\ entries'[b] = entries[b] /\ seen'[b] = seen[b] /\ b \in mixed' <=> b \in mixed
  BY DEF HostsTypeOK, CallsOpen
<1>2. HostsTypeOK'
  BY <1>1 DEF HostsTypeOK
<1>3. CallsOpen'
  BY <1>1 DEF HostsTypeOK, CallsOpen
<1>4. OverlapNoted'
  BY <1>1 DEF HostsTypeOK, OverlapNoted
<1>5. RenameKeeps'
  BY <1>1 DEF HostsTypeOK, CallsOpen, RenameKeeps
<1>6. CopyKeeps'
  BY <1>1 DEF HostsTypeOK, CallsOpen, CopyKeeps, OverlapNoted
<1>7. ExactSoFar'
  BY <1>1 DEF HostsTypeOK, CallsOpen, ExactSoFar, OverlapNoted, Exact
<1>8. NoStrayTemp'
  BY <1>1 DEF HostsTypeOK, CallsOpen, NoStrayTemp
<1>9. ModeKept'
  BY <1>1 DEF HostsTypeOK, CallsOpen, ModeKept
<1> QED BY <1>2, <1>3, <1>4, <1>5, <1>6, <1>7, <1>8, <1>9

(* The process dies: what it copied into may be harmed, and its temporary    *)
(* file is an orphan.                                                        *)
LEMMA HostsCrashInv ==
    ASSUME HostsInv, NEW a \in Iface, HostsCrash(a)
    PROVE  HostsInv'
<1> USE DEF HostsInv, HostsCrash, Busy, Copying, WithTemp, Return, HostsFault, setting, disk, dir
<1>1. /\ hpc'[a] = "idle" /\ tmp'[a] = 0 /\ a \notin mixed'
      /\ \A b \in Iface \ {a} :
            /\ hpc'[b] = hpc[b] /\ fd'[b] = fd[b] /\ tmp'[b] = tmp[b]
            /\ entries'[b] = entries[b] /\ seen'[b] = seen[b] /\ b \in mixed' <=> b \in mixed
  BY DEF HostsTypeOK, CallsOpen
<1>2. HostsTypeOK'
  BY <1>1 DEF HostsTypeOK
<1>3. CallsOpen'
  BY <1>1 DEF HostsTypeOK, CallsOpen
<1>4. OverlapNoted'
  BY <1>1 DEF HostsTypeOK, OverlapNoted
<1>5. RenameKeeps'
  BY <1>1 DEF HostsTypeOK, CallsOpen, RenameKeeps
<1>6. CopyKeeps'
  BY <1>1 DEF HostsTypeOK, CallsOpen, CopyKeeps, OverlapNoted
<1>7. ExactSoFar'
  BY <1>1 DEF HostsTypeOK, CallsOpen, ExactSoFar, OverlapNoted, Exact
<1>8. NoStrayTemp'
  BY <1>1 DEF HostsTypeOK, CallsOpen, NoStrayTemp
<1>9. ModeKept'
  BY <1>1 DEF HostsTypeOK, CallsOpen, ModeKept
<1> QED BY <1>2, <1>3, <1>4, <1>5, <1>6, <1>7, <1>8, <1>9

(* A power loss: what is or was the hosts file is on the disk, unless it was *)
(* being copied over.                                                        *)
LEMMA PowerLossInv ==
    ASSUME HostsInv, PowerLoss
    PROVE  HostsInv'
<1> USE DEF HostsInv, Busy, Copying, WithTemp, setting
<1>1. PICK intact \in {synced, DOMAIN data} :
          data' = [i \in DOMAIN data |-> IF i \in intact THEN data[i] ELSE <<>>]
  BY DEF PowerLoss
<1>2. /\ data' \in Seq(Seq(Text)) /\ DOMAIN data' = DOMAIN data
      /\ \A i \in synced : data'[i] = data[i]
  <2>1. <<>> \in Seq(Text) /\ data \in Seq(Seq(Text)) /\ synced \subseteq DOMAIN data
    BY DEF HostsTypeOK
  <2>2. \A i \in DOMAIN data : data'[i] \in Seq(Text)
    BY <1>1, <2>1
  <2>3. DOMAIN data = 1 .. Len(data) /\ Len(data) \in Nat
    BY <2>1
  <2>4. data' \in [1 .. Len(data) -> Seq(Text)]
    BY <1>1, <2>2, <2>3
  <2>5. data' \in Seq(Seq(Text))
    BY <2>3, <2>4
  <2>6. \A i \in synced : i \in DOMAIN data /\ i \in intact
    BY <1>1, <2>1
  <2> QED BY <1>1, <2>5, <2>6
<1>3. /\ etcHosts' \in {etcHosts, former} /\ former' = etcHosts' /\ synced' = DOMAIN data
      /\ UNCHANGED <<moded, temps, refused, theirs>> /\ orphans' = orphans \cup temps
      /\ harmed' = (harmed \/ \E a \in Iface : Copying(a))
  BY DEF PowerLoss
<1>4. /\ \A a \in Iface : hpc'[a] = "idle" /\ tmp'[a] = 0
      /\ hpc' \in [Iface -> {"idle", "open", "failed"} \cup WithTemp]
      /\ fd' \in [Iface -> Nat] /\ tmp' \in [Iface -> Nat]
      /\ entries' \in [Iface -> HostsEntries \cup {<<>>}]
      /\ seen' \in [Iface -> Seq(Text)]
  BY DEF PowerLoss, Return
<1>5. HostsTypeOK'
  BY <1>2, <1>3, <1>4 DEF HostsTypeOK
<1>6. CallsOpen' /\ OverlapNoted' /\ NoStrayTemp' /\ ExactSoFar' /\ ModeKept'
  BY <1>3, <1>4 DEF CallsOpen, OverlapNoted, NoStrayTemp, ExactSoFar, ModeKept
<1>7. RenameKeeps'
  BY <1>2, <1>3, <1>4 DEF HostsTypeOK, RenameKeeps
<1>8. CopyKeeps'
  BY <1>2, <1>3, <1>4 DEF HostsTypeOK, CopyKeeps
<1> QED BY <1>5, <1>6, <1>7, <1>8

(* Nothing of the invariant depends on anything but the variables.           *)
LEMMA HostsStutter == HostsInv /\ UNCHANGED hostsVars => HostsInv'
<1> SUFFICES ASSUME HostsInv, UNCHANGED hostsVars PROVE HostsInv'
  OBVIOUS
<1> USE DEF HostsInv, hostsVars, setting, disk, dir, call, hostsPast, Busy, Copying, WithTemp
<1>1. HostsTypeOK'
  BY DEF HostsTypeOK
<1>2. CallsOpen' /\ OverlapNoted' /\ NoStrayTemp'
  BY DEF CallsOpen, OverlapNoted, NoStrayTemp
<1>3. RenameKeeps' /\ CopyKeeps' /\ ModeKept'
  BY DEF RenameKeeps, CopyKeeps, ModeKept
<1>4. ExactSoFar'
  BY DEF ExactSoFar, Exact
<1> QED BY <1>1, <1>2, <1>3, <1>4

(* The inductive invariant: at every step of every call, whatever failed     *)
(* before, the lines that must not be lost are in a file from which the      *)
(* hosts file can still be made.                                             *)
THEOREM HostsInvariant == HostsSpec => []HostsInv
<1>1. HostsInv /\ [HostsNext]_hostsVars => HostsInv'
  BY OpenInv, WriteTempInv, SyncTempInv, RenameInv, RenameRefusedInv, TruncateInv, CopyBackInv,
     SyncHostsInv, RemoveTempInv, WriteFailsInv, HostsCrashInv, PowerLossInv, HostsStutter DEF HostsNext
<1> QED BY <1>1, HostsInitInv, PTL DEF HostsSpec

(* WriteEntries loses no line without a banner, for any file, any agents,    *)
(* any entries and any number of calls, errors, crashes and power losses:    *)
(* never as long as no rename fails, and after that unless a call was cut    *)
(* off in a copy or overlapped another.                                      *)
THEOREM ForeignKeptTheorem == HostsSpec => []ForeignKept
<1>1. HostsInv => ForeignKept
  BY DEF HostsInv, ForeignKept, RenameKeeps, CopyKeeps, ModeKept
<1> QED BY <1>1, HostsInvariant, PTL

(* A call of WriteEntries that ends well and overlapped no other has made    *)
(* exactly its own block anew, whatever the file held.                       *)
THEOREM WriteIsExactTheorem == HostsSpec => []WriteIsExact
<1>1. HostsInv => WriteIsExact
  BY DEF HostsInv, WriteIsExact, ExactSoFar, Busy
<1> QED BY <1>1, HostsInvariant, PTL

(* No way through WriteEntries but a crash or a power loss leaves a          *)
(* temporary file in the directory.                                          *)
THEOREM NoStrayTempTheorem == HostsSpec => []NoStrayTemp
<1>1. HostsInv => NoStrayTemp
  BY DEF HostsInv
<1> QED BY <1>1, HostsInvariant, PTL

-----------------------------------------------------------------------------
(* The config file.                                                          *)

(* The values an agent has with a section r: its own where it sets them.     *)
Filled(r) == [s \in Setting |-> IF s \in DOMAIN r THEN r[s] ELSE Default[s]]

(* The values that a section can hold: what is empty is left out of the file *)
(* and comes back as the default.                                            *)
Expressible(r) == \A s \in DOMAIN r \cap Setting : r[s] = Zero[s] => r[s] = Default[s]

(* No command line and no file sets what a section cannot hold.              *)
AllExpressible ==
    /\ \A g \in Given : Expressible(g)
    /\ \A f \in InitialFile : \A x \in Range(f) : Expressible(x.values)

(* No file to begin with has two sections of one name.                       *)
AllParse == \A f \in InitialFile : Parses(f)

(* No two commands add the same interface.                                   *)
Apart == \A c, d \in Cmd : c # d => iface[c] # iface[d] \/ iface[c] = NoName

(* The stages of a command that has settled its settings.                    *)
Parsed == {"parsed", "clear", "done"}

(* The types of the variables.                                               *)
ConfigTypeOK ==
    /\ cfgFile \in Seq(Range(cfgFile))
    /\ cpc \in [Cmd -> {"idle", "failed"} \cup Parsed]
    /\ args \in [Cmd -> [arg : ConfigIface \cup {NoName}, given : Given]]
    /\ iface \in [Cmd -> ConfigIface \cup {NoName}]
    /\ DOMAIN rendered = Cmd /\ DOMAIN wants = Cmd

(* Every section of the file can be read back as it was meant.               *)
FileSound ==
    \A k \in 1 .. Len(cfgFile) : cfgFile[k].iface \in ConfigIface /\ Expressible(cfgFile[k].values)

(* What a command is about to write, or has written, makes an agent run as   *)
(* the command line would have.                                              *)
RenderedRight ==
    \A c \in Cmd :
        /\ cpc[c] = "idle" => iface[c] = NoName
        /\ cpc[c] \in Parsed =>
              /\ iface[c] \in ConfigIface /\ Expressible(rendered[c])
              /\ settleOverlayNet(iface[c], Filled(rendered[c])) = wants[c]

(* As long as no two commands add the same interface, the section a command  *)
(* is about to write is not there, and the one it wrote is.                  *)
AppendedOnce ==
    Apart /\ AllParse =>
        /\ Parses(cfgFile)
        /\ \A c \in Cmd :
              /\ cpc[c] = "clear" => iface[c] \notin Named(cfgFile)
              /\ cpc[c] = "done" =>
                    iface[c] \in Named(cfgFile) /\ sectionNamed(cfgFile, iface[c]) = rendered[c]

(* The inductive invariant of the config file.                               *)
ConfigInv == ConfigTypeOK /\ FileSound /\ RenderedRight /\ AppendedOnce

(* A section of a file that parses is found by its name.                     *)
LEMMA SectionFound ==
    ASSUME NEW T, NEW file \in Seq(T), Parses(file), NEW k \in 1 .. Len(file)
    PROVE  file[k].iface \in Named(file) /\ sectionNamed(file, file[k].iface) = file[k].values
<1> DEFINE i == file[k].iface
<1>1. file[k] \in Range(file)
  BY DEF Range
<1>2. \A x \in Range(file) : x.iface = i => x = file[k]
  BY DEF Range, Parses
<1>3. (CHOOSE x \in Range(file) : x.iface = i) = file[k]
  BY <1>1, <1>2
<1> QED BY <1>1, <1>3 DEF Named, sectionNamed

(* Its names are those of its sections.                                      *)
LEMMA NamedAt ==
    ASSUME NEW T, NEW file \in Seq(T), NEW i \in Named(file)
    PROVE  \E k \in 1 .. Len(file) : file[k].iface = i
BY DEF Named, Range

(* A section added under a new name: it is found, and so are the others.     *)
LEMMA SectionAdded ==
    ASSUME NEW T, NEW file \in Seq(T), Parses(file), NEW x \in T, x.iface \notin Named(file)
    PROVE  LET new == Append(file, x)
           IN  /\ Parses(new)
               /\ x.iface \in Named(new) /\ sectionNamed(new, x.iface) = x.values
               /\ Named(new) = Named(file) \cup {x.iface}
               /\ \A i \in Named(file) : sectionNamed(new, i) = sectionNamed(file, i)
<1> DEFINE new == Append(file, x)
           n == Len(file)
<1>1. /\ new \in Seq(T) /\ Len(new) = n + 1 /\ n \in Nat /\ new[n + 1] = x
      /\ \A k \in 1 .. n : new[k] = file[k]
  OBVIOUS
<1>2. \A k \in 1 .. n + 1 : k \in 1 .. n \/ k = n + 1
  BY <1>1
<1>3. n + 1 \in 1 .. n + 1 /\ \A k \in 1 .. n : k \in 1 .. n + 1
  BY <1>1
<1>4. \A k \in 1 .. n : file[k].iface \in Named(file)
  BY DEF Named, Range
<1> HIDE DEF new
<1>5. Parses(new)
  BY <1>1, <1>2, <1>4 DEF Parses
<1>6. x.iface \in Named(new) /\ sectionNamed(new, x.iface) = x.values
  <2>1. new[n + 1].iface \in Named(new) /\ sectionNamed(new, new[n + 1].iface) = new[n + 1].values
    BY <1>1, <1>3, <1>5, SectionFound
  <2> QED BY <1>1, <2>1
<1>7. ASSUME NEW i \in Named(file)
      PROVE  i \in Named(new) /\ sectionNamed(new, i) = sectionNamed(file, i)
  <2>1. PICK k \in 1 .. n : file[k].iface = i
    BY NamedAt
  <2>2. sectionNamed(file, file[k].iface) = file[k].values
    BY SectionFound
  <2>3. k \in 1 .. Len(new) /\ new[k] = file[k]
    BY <1>1, <1>3
  <2>4. new[k].iface \in Named(new) /\ sectionNamed(new, new[k].iface) = new[k].values
    BY <1>1, <1>5, <2>3, SectionFound
  <2> QED BY <2>1, <2>2, <2>3, <2>4
<1>8. ASSUME NEW i \in Named(new) PROVE i \in Named(file) \cup {x.iface}
  <2>1. PICK k \in 1 .. Len(new) : new[k].iface = i
    BY <1>1, NamedAt
  <2> QED BY <1>1, <1>2, <1>4, <2>1
<1> QED BY <1>5, <1>6, <1>7, <1>8 DEF new

(* Without a command line the section decides.                               *)
LEMMA ResolveFills ==
    ASSUME NEW file, NEW i
    PROVE  Resolve(file, i, <<>>) = Filled(sectionNamed(file, i))
<1> DEFINE r == sectionNamed(file, i)
<1>1. \A s \in Setting : s \notin DOMAIN <<>>
  OBVIOUS
<1>2. Resolve(file, i, <<>>) = [s \in Setting |->
        CASE s \in DOMAIN <<>> -> <<>>[s]
          [] s \notin DOMAIN <<>> /\ s \in DOMAIN r -> r[s]
          [] OTHER -> Default[s]]
  BY DEF Resolve
<1> HIDE DEF r
<1>3. Resolve(file, i, <<>>) = Filled(r)
  BY <1>1, <1>2 DEF Filled
<1> QED BY <1>3 DEF r

(* What is left out of a section makes no difference to the agent.           *)
LEMMA WrittenRuns ==
    ASSUME NEW i, NEW r, Expressible(r)
    PROVE  /\ settleOverlayNet(i, Filled(withNet(i, encode(r)))) = settleOverlayNet(i, Filled(r))
           /\ Expressible(withNet(i, encode(r)))
<1> DEFINE q == encode(r)
           K == Known[i]
           Z == Zero["net"]
<1>1. "net" \in Setting /\ Default["net"] = Z
  BY ConfigAssumption DEF ConfigAssumption
<1>2. /\ DOMAIN q = {t \in DOMAIN r : r[t] # Zero[t]}
      /\ \A s \in DOMAIN q : q[s] = r[s] /\ q[s] # Zero[s]
  BY DEF encode
<1>3. \A s : s \in DOMAIN r /\ s \notin DOMAIN q => r[s] = Zero[s]
  BY <1>2
<1> HIDE DEF q
<1>4. Filled(q) = Filled(r)
  <2>1. \A s \in Setting : (IF s \in DOMAIN q THEN q[s] ELSE Default[s]) = (IF s \in DOMAIN r THEN r[s] ELSE Default[s])
    BY <1>2, <1>3 DEF Expressible
  <2> QED BY <2>1 DEF Filled
<1>5. CASE "net" \in DOMAIN q \/ K = Z
  <2>1. withNet(i, q) = q
    BY <1>5 DEF withNet
  <2>2. Expressible(q)
    BY <1>2 DEF Expressible
  <2> QED BY <1>4, <2>1, <2>2 DEF q
<1>6. CASE ~("net" \in DOMAIN q \/ K = Z)
  <2> DEFINE w == withNet(i, q)
  <2>1. w = [s \in DOMAIN q \cup {"net"} |-> IF s = "net" THEN K ELSE q[s]]
    BY <1>6 DEF withNet
  <2>2. /\ DOMAIN w = DOMAIN q \cup {"net"} /\ w["net"] = K
        /\ \A s \in DOMAIN q : w[s] = q[s]
    BY <1>6, <2>1
  <2> HIDE DEF w, K, Z
  <2>3. Expressible(w)
    BY <1>2, <1>6, <2>2 DEF Expressible, Z
  <2>4. Filled(w) = [Filled(q) EXCEPT !["net"] = K]
    <3>1. \A s \in Setting : Filled(w)[s] = [Filled(q) EXCEPT !["net"] = K][s]
      BY <1>1, <2>2 DEF Filled
    <3> QED BY <3>1 DEF Filled
  <2>5. Filled(q)["net"] = Z /\ Filled(w)["net"] = K
    BY <1>1, <1>6, <2>2 DEF Filled
  <2>6. settleOverlayNet(i, Filled(q)) = [Filled(q) EXCEPT !["net"] = K]
    BY <2>5 DEF settleOverlayNet, K, Z
  <2>7. settleOverlayNet(i, Filled(w)) = Filled(w)
    BY <1>6, <2>5 DEF settleOverlayNet, K, Z
  <2>8. settleOverlayNet(i, Filled(w)) = settleOverlayNet(i, Filled(r))
    BY <1>4, <2>4, <2>6, <2>7
  <2> QED BY <2>3, <2>8 DEF w, q
<1> QED BY <1>5, <1>6

(* Neither does leaving out what is the default anyway.                      *)
LEMMA RenderRuns ==
    ASSUME NEW i, NEW v, v = [s \in Setting |-> v[s]], Expressible(v)
    PROVE  /\ settleOverlayNet(i, Filled(render(i, v))) = settleOverlayNet(i, v)
           /\ Expressible(render(i, v))
<1> DEFINE w == [s \in {t \in Setting : v[t] # Default[t]} |-> v[s]]
<1>1. render(i, v) = withNet(i, encode(w))
  BY DEF render, sectionFor
<1>2. /\ DOMAIN w = {t \in Setting : v[t] # Default[t]}
      /\ \A s \in DOMAIN w : w[s] = v[s]
  OBVIOUS
<1> HIDE DEF w
<1>3. Filled(w) = v
  <2>1. \A s \in Setting : (IF s \in DOMAIN w THEN w[s] ELSE Default[s]) = v[s]
    BY <1>2
  <2> QED BY <2>1 DEF Filled
<1>4. Expressible(w)
  BY <1>2 DEF Expressible
<1> QED BY <1>1, <1>3, <1>4, WrittenRuns

(* What a command settles on can be written, whatever section it takes it    *)
(* from.                                                                     *)
LEMMA ResolvedExpressible ==
    ASSUME ConfigInv, AllExpressible, NEW name, NEW given \in Given \cup {<<>>}
    PROVE  LET v == Resolve(cfgFile, name, given)
           IN  v = [s \in Setting |-> v[s]] /\ Expressible(v)
<1> DEFINE v == Resolve(cfgFile, name, given)
           r == sectionNamed(cfgFile, name)
<1>1. v = [s \in Setting |->
              CASE s \in DOMAIN given -> given[s]
                [] s \notin DOMAIN given /\ s \in DOMAIN r -> r[s]
                [] OTHER -> Default[s]]
  BY DEF Resolve
<1>2. Expressible(given)
  <2>1. Expressible(<<>>)
    BY DEF Expressible
  <2> QED BY <2>1 DEF AllExpressible
<1>3. Expressible(r)
  <2>1. Expressible(<<>>)
    BY DEF Expressible
  <2>2. CASE name \in Named(cfgFile)
    <3>1. PICK x \in Range(cfgFile) : r = x.values
      BY <2>2 DEF sectionNamed, Named
    <3>2. PICK k \in 1 .. Len(cfgFile) : x = cfgFile[k]
      BY DEF Range, ConfigInv, ConfigTypeOK
    <3> QED BY <3>1, <3>2 DEF ConfigInv, FileSound
  <2>3. CASE name \notin Named(cfgFile)
    BY <2>1, <2>3 DEF sectionNamed
  <2> QED BY <2>2, <2>3
<1> HIDE DEF v, r
<1>4. \A s \in Setting : \/ s \in DOMAIN given /\ v[s] = given[s]
                         \/ s \in DOMAIN r /\ v[s] = r[s]
                         \/ v[s] = Default[s]
  BY <1>1
<1>5. v = [s \in Setting |-> v[s]] /\ DOMAIN v = Setting
  BY <1>1
<1>6. Expressible(v)
  BY <1>2, <1>3, <1>4, <1>5 DEF Expressible
<1> QED BY <1>5, <1>6 DEF v

(* The file as the package ships it or the operator wrote it, and no command *)
(* under way.                                                                *)
LEMMA ConfigInitInv ==
    ASSUME ConfigInit, AllExpressible
    PROVE  ConfigInv
<1>1. ConfigTypeOK
  BY ConfigAssumption DEF ConfigInit, ConfigTypeOK, ConfigAssumption, Parsed
<1>2. FileSound
  <2>1. \A k \in 1 .. Len(cfgFile) : cfgFile[k] \in Range(cfgFile)
    BY <1>1 DEF ConfigTypeOK, Range
  <2> QED BY <2>1, ConfigAssumption DEF ConfigInit, FileSound, ConfigAssumption, AllExpressible
<1>3. RenderedRight
  BY DEF ConfigInit, RenderedRight, Parsed
<1>4. AppendedOnce
  BY DEF ConfigInit, AppendedOnce, AllParse
<1> QED BY <1>1, <1>2, <1>3, <1>4 DEF ConfigInv

(* A command settles its settings and renders them: what it renders makes an *)
(* agent run with them.                                                      *)
LEMMA ParseArgsInv ==
    ASSUME ConfigInv, AllExpressible, NEW c \in Cmd, ParseArgs(c)
    PROVE  ConfigInv'
<1> USE DEF ConfigInv
<1>1. CASE ~Parses(cfgFile)
  <2>1. cpc' = [cpc EXCEPT ![c] = "failed"] /\ UNCHANGED <<cfgFile, args, iface, rendered, wants>>
    BY <1>1 DEF ParseArgs
  <2>2. ConfigTypeOK' /\ FileSound'
    BY <2>1 DEF ConfigTypeOK, FileSound
  <2>3. RenderedRight'
    BY <2>1 DEF ConfigTypeOK, RenderedRight, Parsed
  <2>4. AppendedOnce'
    BY <2>1 DEF ConfigTypeOK, AppendedOnce, Apart
  <2> QED BY <2>2, <2>3, <2>4
<1>2. CASE Parses(cfgFile)
  <2> DEFINE sel == selectSection(cfgFile, args[c].arg)
             i == IF sel.name = NoName THEN DefaultInterface ELSE sel.name
             v == Resolve(cfgFile, sel.name, args[c].given)
             r == render(i, v)
             w == settleOverlayNet(i, v)
  <2>1. /\ cpc' = [cpc EXCEPT ![c] = "parsed"] /\ iface' = [iface EXCEPT ![c] = i]
        /\ rendered' = [rendered EXCEPT ![c] = r] /\ wants' = [wants EXCEPT ![c] = w]
        /\ cpc[c] = "idle" /\ UNCHANGED <<cfgFile, args>>
    BY <1>2 DEF ParseArgs
  <2>2. i \in ConfigIface
    <3>1. args[c].arg \in ConfigIface \cup {NoName}
      BY DEF ConfigTypeOK
    <3>2. Len(cfgFile) = 1 => cfgFile[1].iface \in ConfigIface
      BY DEF FileSound
    <3>3. sel.name \in ConfigIface \cup {NoName}
      BY <3>1, <3>2 DEF selectSection
    <3> QED BY <3>3, ConfigAssumption DEF ConfigAssumption
  <2>3. v = [s \in Setting |-> v[s]] /\ Expressible(v)
    <3>1. args[c].given \in Given \cup {<<>>}
      BY DEF ConfigTypeOK
    <3> QED BY <3>1, ResolvedExpressible
  <2> HIDE DEF sel, i, v
  <2>4. settleOverlayNet(i, Filled(r)) = w /\ Expressible(r)
    BY <2>3, RenderRuns
  <2> HIDE DEF r, w
  <2>5. ConfigTypeOK' /\ FileSound'
    BY <2>1, <2>2 DEF ConfigTypeOK, FileSound, Parsed
  <2>6. /\ cpc'[c] = "parsed" /\ iface'[c] = i /\ rendered'[c] = r /\ wants'[c] = w
        /\ \A d \in Cmd \ {c} : /\ cpc'[d] = cpc[d] /\ iface'[d] = iface[d]
                                 /\ rendered'[d] = rendered[d] /\ wants'[d] = wants[d]
    BY <2>1 DEF ConfigTypeOK
  <2>7. RenderedRight'
    <3> SUFFICES ASSUME NEW d \in Cmd
                 PROVE  /\ cpc'[d] = "idle" => iface'[d] = NoName
                        /\ cpc'[d] \in Parsed =>
                              /\ iface'[d] \in ConfigIface /\ Expressible(rendered'[d])
                              /\ settleOverlayNet(iface'[d], Filled(rendered'[d])) = wants'[d]
      BY DEF RenderedRight, Expressible, Filled, settleOverlayNet
    <3>1. CASE d = c
      BY <2>2, <2>4, <2>6, <3>1
    <3>2. CASE d # c
      BY <2>6, <3>2 DEF RenderedRight
    <3> QED BY <3>1, <3>2
  <2>8. Apart' => Apart
    <3>1. iface[c] = NoName
      BY <2>1 DEF RenderedRight
    <3> QED BY <2>6, <3>1 DEF Apart
  <2>9. AppendedOnce'
    BY <2>1, <2>6, <2>8 DEF AppendedOnce
  <2> QED BY <2>5, <2>7, <2>9
<1> QED BY <1>1, <1>2

(* The second look at the file, and a write that fails: a command goes on    *)
(* only when its section is not there.                                       *)
LEMMA ReadExistingInv ==
    ASSUME ConfigInv, NEW c \in Cmd, ReadExisting(c) \/ WriteConfigFails(c)
    PROVE  ConfigInv'
<1> USE DEF ConfigInv, ReadExisting, WriteConfigFails
<1>1. /\ UNCHANGED <<cfgFile, args, iface, rendered, wants>>
      /\ cpc[c] \in {"parsed", "clear"} /\ cpc'[c] \in {"clear", "failed"}
      /\ cpc'[c] = "clear" => iface[c] \notin Named(cfgFile)
      /\ \A d \in Cmd \ {c} : cpc'[d] = cpc[d]
      /\ cpc' \in [Cmd -> {"idle", "failed"} \cup Parsed]
  BY DEF ConfigTypeOK, Parsed
<1> HIDE DEF ReadExisting, WriteConfigFails
<1>2. ConfigTypeOK' /\ FileSound'
  BY <1>1 DEF ConfigTypeOK, FileSound
<1>3. RenderedRight'
  BY <1>1 DEF RenderedRight, Parsed
<1>4. AppendedOnce'
  BY <1>1 DEF AppendedOnce, Apart
<1> QED BY <1>2, <1>3, <1>4

(* A section is appended: the others stay as they are, and it is found by    *)
(* its name.                                                                 *)
LEMMA AppendSectionInv ==
    ASSUME ConfigInv, NEW c \in Cmd, appendSection(c)
    PROVE  ConfigInv'
<1> USE DEF ConfigInv
<1> DEFINE x == Sect(iface[c], rendered[c])
           T == Range(cfgFile) \cup {x}
<1>1. /\ cpc[c] = "clear" /\ cpc'[c] = "done" /\ cfgFile' = Append(cfgFile, x)
      /\ UNCHANGED <<args, iface, rendered, wants>>
      /\ \A d \in Cmd \ {c} : cpc'[d] = cpc[d]
      /\ cpc' \in [Cmd -> {"idle", "failed"} \cup Parsed]
  BY DEF appendSection, ConfigTypeOK, Parsed
<1>2. x.iface = iface[c] /\ x.values = rendered[c]
  BY DEF Sect
<1>3. iface[c] \in ConfigIface /\ Expressible(rendered[c])
  BY <1>1 DEF RenderedRight, Parsed
<1> HIDE DEF x
<1>4. cfgFile \in Seq(T) /\ x \in T
  <2>1. cfgFile \in Seq(Range(cfgFile)) /\ Range(cfgFile) \subseteq T
    BY DEF ConfigTypeOK
  <2> QED BY <2>1, SeqMonotonic
<1> HIDE DEF T
<1> DEFINE n == Len(cfgFile)
<1>5. /\ n \in Nat /\ cfgFile' \in Seq(T) /\ Len(cfgFile') = n + 1 /\ cfgFile'[n + 1] = x
      /\ \A k \in 1 .. n : cfgFile'[k] = cfgFile[k]
  BY <1>1, <1>4
<1>6. ConfigTypeOK'
  <2>1. cfgFile' \in Seq(Range(cfgFile'))
    BY <1>5 DEF Range
  <2> QED BY <1>1, <2>1 DEF ConfigTypeOK
<1>7. FileSound'
  <2>1. \A k \in 1 .. n + 1 : k \in 1 .. n \/ k = n + 1
    BY <1>5
  <2>2. ASSUME NEW k \in 1 .. n + 1
        PROVE  cfgFile'[k].iface \in ConfigIface /\ Expressible(cfgFile'[k].values)
    BY <1>2, <1>3, <1>5, <2>1 DEF FileSound
  <2> QED BY <1>5, <2>2 DEF FileSound, Expressible
<1>8. RenderedRight'
  BY <1>1 DEF RenderedRight, Parsed, Expressible, Filled, settleOverlayNet
<1>9. AppendedOnce'
  <2> SUFFICES ASSUME Apart, AllParse
               PROVE  /\ Parses(cfgFile')
                      /\ \A d \in Cmd :
                            /\ cpc'[d] = "clear" => iface[d] \notin Named(cfgFile')
                            /\ cpc'[d] = "done" => /\ iface[d] \in Named(cfgFile')
                                                   /\ sectionNamed(cfgFile', iface[d]) = rendered[d]
    BY <1>1 DEF AppendedOnce, Apart, Parses, Named, sectionNamed
  <2>1. Parses(cfgFile) /\ x.iface \notin Named(cfgFile)
    BY <1>1, <1>2 DEF AppendedOnce
  <2>2. /\ Parses(cfgFile')
        /\ x.iface \in Named(cfgFile') /\ sectionNamed(cfgFile', x.iface) = x.values
        /\ Named(cfgFile') = Named(cfgFile) \cup {x.iface}
        /\ \A i \in Named(cfgFile) : sectionNamed(cfgFile', i) = sectionNamed(cfgFile, i)
    BY <1>1, <1>4, <2>1, SectionAdded
  <2>3. ASSUME NEW d \in Cmd \ {c} PROVE iface[d] # iface[c]
    BY <1>3, ConfigAssumption DEF Apart, ConfigAssumption
  <2> QED BY <1>1, <1>2, <2>2, <2>3 DEF AppendedOnce
<1> QED BY <1>6, <1>7, <1>8, <1>9

(* The inductive invariant, for any settings, files, command lines and       *)
(* number of commands, when what they set can be expressed in a section.     *)
THEOREM ConfigInvariant ==
    ASSUME AllExpressible
    PROVE  ConfigSpec => []ConfigInv
<1>1. ConfigInit => ConfigInv
  BY ConfigInitInv
<1>2. ConfigInv /\ [ConfigNext]_configVars => ConfigInv'
  <2> SUFFICES ASSUME ConfigInv, [ConfigNext]_configVars PROVE ConfigInv'
    OBVIOUS
  <2>1. CASE ConfigNext
    BY <2>1, ParseArgsInv, ReadExistingInv, AppendSectionInv DEF ConfigNext
  <2>2. CASE UNCHANGED configVars
    BY <2>2 DEF configVars, ConfigInv, ConfigTypeOK, FileSound, RenderedRight, AppendedOnce, Apart
  <2> QED BY <2>1, <2>2
<1> QED BY <1>1, <1>2, PTL DEF ConfigSpec

(* "config --init" writes what an agent needs to run as the command line     *)
(* said, whatever other commands add meanwhile; when what is set can be      *)
(* expressed in a section (a value that is empty but not the default cannot) *)
(* and the file could be read at first.                                      *)
THEOREM InitIsRoundTripTheorem ==
    ASSUME AllExpressible, AllParse
    PROVE  ConfigSpec => []InitIsRoundTrip
<1>1. ConfigInv => InitIsRoundTrip
  <2> SUFFICES ASSUME ConfigInv, Apart
               PROVE  /\ Parses(cfgFile)
                      /\ \A c \in Cmd : cpc[c] = "done" => Runs(cfgFile, iface[c], <<>>) = wants[c]
    BY DEF InitIsRoundTrip, Apart
  <2>1. AppendedOnce /\ RenderedRight
    BY DEF ConfigInv
  <2>2. ASSUME NEW c \in Cmd, cpc[c] = "done"
        PROVE  Runs(cfgFile, iface[c], <<>>) = wants[c]
    <3>1. sectionNamed(cfgFile, iface[c]) = rendered[c]
      BY <2>1, <2>2 DEF AppendedOnce
    <3>2. settleOverlayNet(iface[c], Filled(rendered[c])) = wants[c]
      BY <2>1, <2>2 DEF RenderedRight, Parsed
    <3> QED BY <3>1, <3>2, ResolveFills DEF Runs
  <2> QED BY <2>1, <2>2 DEF AppendedOnce
<1> QED BY <1>1, ConfigInvariant, PTL

(* "config" prints a file that makes every agent run as it does now; when    *)
(* what is set can be expressed in a section.                                *)
THEOREM DumpIsFaithfulTheorem ==
    ASSUME AllExpressible
    PROVE  ConfigSpec => []DumpIsFaithful
<1>1. ConfigInv => DumpIsFaithful
  <2> SUFFICES ASSUME ConfigInv, Parses(cfgFile), NEW i \in Named(dump(cfgFile))
               PROVE  Runs(dump(cfgFile), i, <<>>) = Runs(cfgFile, i, <<>>)
    BY DEF DumpIsFaithful
  <2> DEFINE n == Len(cfgFile)
             T == Range(cfgFile)
  <2>1. cfgFile \in Seq(T) /\ n \in Nat
    BY DEF ConfigInv, ConfigTypeOK
  <2> HIDE DEF T
  <2>2. CASE n > 1
    <3> DEFINE new == renderAll(cfgFile)
               sec(k) == Sect(cfgFile[k].iface, withNet(cfgFile[k].iface, encode(cfgFile[k].values)))
               U == {sec(k) : k \in 1 .. n}
    <3>1. dump(cfgFile) = new
      BY <2>2 DEF dump
    <3>2. new = [k \in 1 .. n |-> sec(k)]
      BY <2>1 DEF renderAll
    <3>3. /\ new \in Seq(U) /\ Len(new) = n
          /\ \A k \in 1 .. n : new[k] = sec(k)
      <4> HIDE DEF sec, new
      <4> QED BY <2>1, <3>2
    <3>4. \A k \in 1 .. n : /\ new[k].iface = cfgFile[k].iface
                            /\ new[k].values = withNet(cfgFile[k].iface, encode(cfgFile[k].values))
      <4> HIDE DEF new, U
      <4>1. \A k \in 1 .. n : /\ sec(k).iface = cfgFile[k].iface
                              /\ sec(k).values = withNet(cfgFile[k].iface, encode(cfgFile[k].values))
        BY DEF Sect
      <4> HIDE DEF sec
      <4> QED BY <3>3, <4>1
    <3> HIDE DEF new, U, sec
    <3>5. Parses(new)
      BY <3>3, <3>4 DEF Parses
    <3>6. PICK k \in 1 .. n : new[k].iface = i
      BY <3>1, <3>3, NamedAt
    <3>7. sectionNamed(new, i) = withNet(i, encode(cfgFile[k].values))
      BY <3>3, <3>4, <3>5, <3>6, SectionFound
    <3>8. sectionNamed(cfgFile, i) = cfgFile[k].values
      BY <2>1, <3>4, <3>6, SectionFound
    <3>9. Expressible(cfgFile[k].values)
      BY DEF ConfigInv, FileSound
    <3> QED BY <3>1, <3>7, <3>8, <3>9, WrittenRuns, ResolveFills DEF Runs
  <2>3. CASE ~(n > 1)
    <3> DEFINE name == selectSection(cfgFile, NoName).name
               j == IF name = NoName THEN DefaultInterface ELSE name
               v == Resolve(cfgFile, j, <<>>)
               x == Sect(j, render(j, v))
               new == <<x>>
    <3>1. dump(cfgFile) = new
      BY <2>3 DEF dump
    <3>2. x.iface = j /\ x.values = render(j, v)
      BY DEF Sect
    <3>3. v = [s \in Setting |-> v[s]] /\ Expressible(v)
      BY ResolvedExpressible
    <3> HIDE DEF x, v, j
    <3>4. new \in Seq({x}) /\ Len(new) = 1 /\ new[1] = x /\ Parses(new) /\ Named(new) = {x.iface}
      BY DEF Parses, Named, Range
    <3> HIDE DEF new
    <3>5. sectionNamed(new, j) = render(j, v)
      BY <3>2, <3>4, SectionFound
    <3>6. i = j
      BY <3>1, <3>2, <3>4
    <3>7. settleOverlayNet(j, Filled(render(j, v))) = settleOverlayNet(j, v)
      BY <3>3, RenderRuns
    <3>8. Runs(new, j, <<>>) = settleOverlayNet(j, v)
      BY <3>5, <3>7, ResolveFills DEF Runs
    <3> QED BY <3>1, <3>6, <3>8 DEF Runs, v
  <2> QED BY <2>2, <2>3
<1> QED BY <1>1, ConfigInvariant, PTL

-----------------------------------------------------------------------------
(* The state file, for any number of readers, saves, faults and retries.     *)

USE StateAssumption

(* Nothing of the invariant depends on anything but the variables.           *)
LEMMA StateStutter ==
    StateInv /\ UNCHANGED stateVars => StateInv'
BY DEF StateInv, StateTypeOK, ReadsAreAtomic, stateVars, names, contents, saver, readers,
       Version, Damaged, SaveStage

(* The steps of save keep the invariant.                                     *)
LEMMA SavingKeepsInv ==
    ASSUME StateInv, BeginSave \/ SaveGoesOn
    PROVE  StateInv'
<1> USE DEF StateInv, StateTypeOK, ReadsAreAtomic, Version, Damaged, SaveStage,
            SaveStep, names, contents, readers
<1>1. CASE BeginSave
  BY <1>1 DEF BeginSave
<1>2. CASE WriteState
  BY <1>2 DEF WriteState
<1>3. CASE SyncState
  BY <1>3 DEF SyncState
<1>4. CASE Replace
  BY <1>4 DEF Replace, Repoint
<1>5. CASE retryBusy
  BY <1>5 DEF retryBusy
<1>6. CASE EndSave
  BY <1>6 DEF EndSave
<1> QED BY <1>1, <1>2, <1>3, <1>4, <1>5, <1>6 DEF SaveGoesOn

(* Reading keeps it.                                                         *)
LEMMA ReadingKeepsInv ==
    ASSUME StateInv, NEW r \in Reader, OpenState(r) \/ ReadState(r) \/ EndRead(r)
    PROVE  StateInv'
<1> USE DEF StateInv, StateTypeOK, ReadsAreAtomic, Version, Damaged, SaveStage,
            names, contents, saver
<1>1. CASE OpenState(r)
  BY <1>1 DEF OpenState
<1>2. CASE ReadState(r)
  BY <1>2 DEF ReadState, Decoded
<1>3. CASE EndRead(r)
  BY <1>3 DEF EndRead
<1> QED BY <1>1, <1>2, <1>3

(* Deleting, failing, crashing and losing power keep it.                     *)
LEMMA FaultsKeepInv ==
    ASSUME StateInv, Forget \/ SaveCut \/ StateLost
    PROVE  StateInv'
<1> USE DEF StateInv, StateTypeOK, ReadsAreAtomic, Version, Damaged, SaveStage,
            names, contents, saver, readers
<1>1. CASE Forget
  BY <1>1 DEF Forget, Repoint
<1>2. CASE SaveCut
  BY <1>2 DEF SaveCut, StateFault
<1>3. CASE StateLost
  BY <1>3 DEF StateLost, StateFault
<1> QED BY <1>1, <1>2, <1>3

(* Whatever the name of the file leads to is whole and on the disk, for any  *)
(* interleaving of save, readers, Forget, crashes and power losses.          *)
THEOREM StateInvariant == StateSpec => []StateInv
<1>1. StateInit => StateInv
  BY DEF StateInit, StateInv, StateTypeOK, ReadsAreAtomic, Version, Damaged, SaveStage
<1>2. StateInv /\ [StateNext]_stateVars => StateInv'
  BY StateStutter, SavingKeepsInv, ReadingKeepsInv, FaultsKeepInv DEF StateNext
<1> QED BY <1>1, <1>2, PTL DEF StateSpec

(* No reader ever sees part of a version or one that was not in place while  *)
(* it read.                                                                  *)
THEOREM ReadsSeeOneVersion == StateSpec => []ReadsAreAtomic
<1>1. StateInv => ReadsAreAtomic
  BY DEF StateInv
<1> QED BY <1>1, StateInvariant, PTL

(* The decoded file and the decoded former file are the inodes themselves.   *)
LEMMA FileIsWhole ==
    StateInv => Decoded(stateFile) = stateFile /\ Decoded(before) = before
BY DEF StateInv, Decoded

(* A step that leaves the name of the file alone is no step of the register. *)
LEMMA NamesKept ==
    ASSUME StateInv, StateInv', UNCHANGED names
    PROVE  UNCHANGED Register!fileVars
<1>1. /\ Decoded(stateFile) = stateFile /\ Decoded(before) = before
      /\ Decoded(stateFile)' = stateFile' /\ Decoded(before)' = before'
  BY FileIsWhole DEF StateInv, Decoded
<1> QED BY <1>1 DEF names, Register!fileVars

(* Renaming, deleting and losing power are the steps of the register; all    *)
(* others leave it alone.                                                    *)
LEMMA StepsAreRegisterSteps ==
    ASSUME StateInv, StateInv', [StateNext]_stateVars
    PROVE  [Register!Next]_(Register!fileVars)
<1>1. /\ Decoded(stateFile) = stateFile /\ Decoded(before) = before
      /\ Decoded(stateFile)' = stateFile' /\ Decoded(before)' = before'
  BY FileIsWhole DEF StateInv, Decoded
<1>2. CASE Replace
  <2>1. stateFile' = version /\ before' = stateFile /\ highest' = version /\ version > highest
    BY <1>2 DEF Replace, Repoint, SaveStep, StateInv, StateTypeOK, Version
  <2>2. version \in Nat
    BY DEF StateInv, StateTypeOK, Version
  <2> QED BY <1>1, <2>1, <2>2 DEF Register!Next, Register!Replace
<1>3. CASE Forget
  BY <1>1, <1>3 DEF Forget, Repoint, Register!Next, Register!Delete
<1>4. CASE StateLost
  BY <1>1, <1>4 DEF StateLost, Register!Next, Register!Lose
<1>5. CASE \/ BeginSave \/ WriteState \/ SyncState \/ retryBusy \/ EndSave \/ SaveCut
           \/ \E r \in Reader : OpenState(r) \/ ReadState(r) \/ EndRead(r)
           \/ UNCHANGED stateVars
  <2>1. UNCHANGED names
    BY <1>5 DEF BeginSave, WriteState, SyncState, retryBusy, EndSave, SaveCut,
                OpenState, ReadState, EndRead, stateVars, names
  <2> QED BY <2>1, NamesKept
<1> QED BY <1>2, <1>3, <1>4, <1>5 DEF StateNext, SaveGoesOn

(* The state file, with its temporary files and renames, implements the      *)
(* register: a save takes effect in one step or not at all.                  *)
THEOREM StateFileIsRegister == StateSpec => ImplementsRegister
<1>1. StateInit => Register!Init
  BY DEF StateInit, Register!Init, Decoded
<1>2. StateInv /\ StateInv' /\ [StateNext]_stateVars => [Register!Next]_(Register!fileVars)
  BY StepsAreRegisterSteps
<1> QED BY <1>1, <1>2, StateInvariant, PTL DEF StateSpec, ImplementsRegister, Register!Spec

HIDE StateAssumption

-----------------------------------------------------------------------------
(* The devices, for any set of peers, addresses and routes of the host, and  *)
(* any number of starts, snapshots and faults.                               *)

USE DeviceAssumption

(* What some nodes advertise, all nodes do.                                  *)
LEMMA WantedIn ==
    ASSUME NEW ns \in SUBSET Node
    PROVE  Wanted(ns) \subseteq Wanted(Node)
BY DEF Wanted

(* What adding and deleting a route does to the destinations.                *)
LEMMA DstsAdd ==
    ASSUME NEW rs, NEW m
    PROVE  Dsts(rs \cup {m}) = Dsts(rs) \cup {m.dst}
BY DEF Dsts

(* ... and what deleting one does.                                           *)
LEMMA DstsDel ==
    ASSUME NEW rs, NEW d
    PROVE  Dsts({r \in rs : r.dst # d}) = Dsts(rs) \ {d}
BY DEF Dsts

(* The absence of an interface is one of the values of link.                 *)
LEMMA NoLinkType == NoLink \in LinkType
BY DEF NoLink, LinkType

(* So is a new interface.                                                    *)
LEMMA NewLinkType ==
    ASSUME NEW name \in {"wg"} \cup Utun
    PROVE  NewLink(name) \in LinkType
BY DEF NewLink, LinkType

(* Nothing of the invariant depends on anything but the variables.           *)
LEMMA DeviceStutter ==
    DeviceInv /\ UNCHANGED deviceVars => DeviceInv'
BY DEF DeviceInv, DeviceTypeOK, LinkType, DeviceLife, DownLeavesNothing, LinkIsOurs, SetUpSoFar, Present, Userspace,
       Netlink, Reach, deviceVars, linkVars, agentVars

(* The steps that make the interface.                                        *)
LEMMA CreateKeepsInv ==
    ASSUME DeviceInv,
           \/ platform \/ (\E ns \in SUBSET Node : SetUpInterface(ns))
           \/ createTUN \/ uapiListen \/ published \/ SetUpFails
    PROVE  DeviceInv'
<1> USE DEF DeviceInv, Present, Userspace, Netlink, DevStep, NoLink, NewLink, LinkAdd, agentVars, linkVars,
            Raised, Sized, Addressed, Configured, Platform, Utun
<1>1. CASE platform
  <2>1. DeviceTypeOK'
    BY <1>1, NewLinkType DEF platform, DeviceTypeOK
  <2>2. DeviceLife'
    BY <1>1 DEF platform, DeviceTypeOK, LinkType, DeviceLife, DownLeavesNothing
  <2>3. Present' => LinkIsOurs' /\ SetUpSoFar'
    BY <1>1 DEF platform, DeviceTypeOK, LinkType, DeviceLife, LinkIsOurs, SetUpSoFar, Dsts
  <2> QED BY <2>1, <2>2, <2>3
<1>2. ASSUME NEW ns \in SUBSET Node, SetUpInterface(ns)
      PROVE  DeviceInv'
  <2>1. DeviceTypeOK'
    BY <1>2, NewLinkType DEF SetUpInterface, DeviceTypeOK
  <2>2. DeviceLife'
    BY <1>2 DEF SetUpInterface, DeviceTypeOK, LinkType, DeviceLife, DownLeavesNothing
  <2>3. Present' => LinkIsOurs' /\ SetUpSoFar'
    BY <1>2 DEF SetUpInterface, DeviceTypeOK, LinkType, DeviceLife, LinkIsOurs, SetUpSoFar, Dsts
  <2> QED BY <2>1, <2>2, <2>3
<1>3. CASE createTUN
  <2>1. DeviceTypeOK'
    BY <1>3, NewLinkType DEF createTUN, tunName, DeviceTypeOK
  <2>2. DeviceLife'
    BY <1>3 DEF createTUN, tunName, DeviceTypeOK, LinkType, DeviceLife, DownLeavesNothing
  <2>3. Present' => LinkIsOurs' /\ SetUpSoFar'
    BY <1>3 DEF createTUN, tunName, DeviceTypeOK, LinkType, DeviceLife, LinkIsOurs, SetUpSoFar, Dsts
  <2> QED BY <2>1, <2>2, <2>3
<1>4. CASE uapiListen
  <2>1. DeviceTypeOK'
    BY <1>4 DEF uapiListen, DeviceTypeOK
  <2>2. DeviceLife'
    BY <1>4 DEF uapiListen, DeviceTypeOK, LinkType, DeviceLife, DownLeavesNothing
  <2>3. Present' => LinkIsOurs' /\ SetUpSoFar'
    BY <1>4 DEF uapiListen, DeviceTypeOK, LinkType, DeviceLife, LinkIsOurs, SetUpSoFar
  <2> QED BY <2>1, <2>2, <2>3
<1>5. CASE published
  <2>1. DeviceTypeOK'
    BY <1>5 DEF published, DeviceTypeOK
  <2>2. DeviceLife'
    BY <1>5 DEF published, DeviceTypeOK, LinkType, DeviceLife, DownLeavesNothing
  <2>3. Present' => LinkIsOurs' /\ SetUpSoFar'
    BY <1>5 DEF published, DeviceTypeOK, LinkType, DeviceLife, LinkIsOurs, SetUpSoFar
  <2> QED BY <2>1, <2>2, <2>3
<1>6. CASE SetUpFails
  <2>1. DeviceTypeOK'
    <3>1. \/ UNCHANGED <<link, dev, sock>>
          \/ link' = NoLink /\ dev' = "none" /\ sock' = FALSE
      BY <1>6 DEF SetUpFails, CreateFails
    <3>2. link' \in LinkType
      BY <3>1, NoLinkType DEF DeviceTypeOK
    <3> QED BY <1>6, <3>1, <3>2 DEF SetUpFails, DeviceTypeOK
  <2>2. DeviceLife'
    BY <1>6 DEF SetUpFails, CreateFails, DeviceTypeOK, LinkType, DeviceLife, DownLeavesNothing
  <2>3. Present' => LinkIsOurs' /\ SetUpSoFar'
    BY <1>6 DEF SetUpFails, CreateFails, DeviceTypeOK, LinkType, DeviceLife, LinkIsOurs, SetUpSoFar
  <2> QED BY <2>1, <2>2, <2>3
<1> QED BY <1>1, <1>2, <1>3, <1>4, <1>5, <1>6

(* The calls on the interface that SetUpInterface makes one after another.   *)
LEMMA LinkStepsKeepInv ==
    ASSUME DeviceInv,
           \/ ConfigureDevice \/ SetAddr \/ SetMTU \/ Up \/ removeStaleRoutes \/ SetUpReturns
           \/ \E d \in Wanted(Node) \cup OwnAddr : AddRoute(d) \/ DelRoute(d)
    PROVE  DeviceInv'
<1> USE DEF DeviceInv, Present, Userspace, Netlink, DevStep, OnLink, agentVars, linkVars,
            Raised, Sized, Addressed, Configured
<1>1. CASE ConfigureDevice
  <2>1. DeviceTypeOK'
    BY <1>1 DEF ConfigureDevice, DeviceTypeOK, LinkType
  <2>2. DeviceLife'
    BY <1>1 DEF ConfigureDevice, DeviceTypeOK, LinkType, DeviceLife, DownLeavesNothing
  <2>3. LinkIsOurs' /\ SetUpSoFar'
    BY <1>1 DEF ConfigureDevice, DeviceTypeOK, LinkType, LinkIsOurs, SetUpSoFar
  <2> QED BY <2>1, <2>2, <2>3
<1>2. CASE SetAddr
  <2>0. /\ link' = [link EXCEPT !.addrs = link.addrs \cup {own},
                               !.routes = link.routes \cup {Route(own, FALSE)}]
        /\ Dsts(link'.routes) = Dsts(link.routes) \cup {own}
    BY <1>2, DstsAdd DEF SetAddr, Route, DeviceTypeOK, LinkType
  <2>1. DeviceTypeOK'
    <3>1. Route(own, FALSE) \in RouteType
      BY DEF Route, RouteType, Dest, DeviceTypeOK
    <3>2. link' \in LinkType
      BY <2>0, <3>1 DEF DeviceTypeOK, LinkType
    <3> QED BY <1>2, <3>2 DEF SetAddr, DeviceTypeOK
  <2>2. DeviceLife'
    BY <1>2 DEF SetAddr, DeviceTypeOK, LinkType, DeviceLife, DownLeavesNothing
  <2>3. LinkIsOurs' /\ SetUpSoFar'
    <3>1. \A r \in link'.routes : r \in link.routes \/ r.dst = own
      BY <2>0 DEF Route, DeviceTypeOK, LinkType
    <3>2. LinkIsOurs'
      <4>1. /\ link'.set = link.set /\ link'.addrs = link.addrs \cup {own}
            /\ own \notin Elsewhere /\ UNCHANGED <<own, plat>>
        BY <1>2, <2>0 DEF SetAddr, DeviceTypeOK, LinkType
      <4>2. Present /\ LinkIsOurs
        BY <1>2 DEF SetAddr
      <4> QED BY <2>0, <3>1, <4>1, <4>2 DEF LinkIsOurs
    <3>3. own \in link'.addrs /\ own \in Dsts(link'.routes)
      BY <2>0 DEF DeviceTypeOK, LinkType
    <3>4. SetUpSoFar'
      BY <1>2, <2>0, <3>3 DEF SetAddr, DeviceTypeOK, LinkType, SetUpSoFar
    <3> QED BY <3>2, <3>4
  <2> QED BY <2>1, <2>2, <2>3
<1>3. CASE SetMTU
  <2>1. DeviceTypeOK'
    BY <1>3 DEF SetMTU, DeviceTypeOK, LinkType
  <2>2. DeviceLife'
    BY <1>3 DEF SetMTU, DeviceTypeOK, LinkType, DeviceLife, DownLeavesNothing
  <2>3. LinkIsOurs' /\ SetUpSoFar'
    BY <1>3 DEF SetMTU, DeviceTypeOK, LinkType, LinkIsOurs, SetUpSoFar
  <2> QED BY <2>1, <2>2, <2>3
<1>4. CASE Up
  <2>0. Wanted(nodes) \subseteq Dest
    BY WantedIn DEF DeviceTypeOK, Dest
  <2>1. DeviceTypeOK'
    BY <1>4, <2>0 DEF Up, DeviceTypeOK, LinkType
  <2>2. DeviceLife'
    BY <1>4 DEF Up, DeviceTypeOK, LinkType, DeviceLife, DownLeavesNothing
  <2>3. LinkIsOurs' /\ SetUpSoFar'
    BY <1>4 DEF Up, DeviceTypeOK, LinkType, LinkIsOurs, SetUpSoFar, Reach
  <2> QED BY <2>1, <2>2, <2>3
<1>5. CASE removeStaleRoutes
  <2>1. /\ Routes \subseteq Dsts(link.routes)
        /\ Dsts(link.routes) \subseteq Routes \cup {own}
    BY <1>5 DEF removeStaleRoutes, Routes, netlinkRoutes, staticRoutes, managedRoutes, Dsts,
                LinkIsOurs, DeviceTypeOK, LinkType, RouteType, Platform
  <2>2. Dsts(link.routes) \subseteq Dest
    BY DEF DeviceTypeOK, LinkType, RouteType, Dsts
  <2>3. DeviceTypeOK'
    BY <1>5, <2>1, <2>2 DEF removeStaleRoutes, DeviceTypeOK
  <2>4. DeviceLife'
    BY <1>5 DEF removeStaleRoutes, DeviceTypeOK, LinkType, DeviceLife, DownLeavesNothing
  <2>5. LinkIsOurs' /\ SetUpSoFar'
    BY <1>5, <2>1 DEF removeStaleRoutes, DeviceTypeOK, LinkType, LinkIsOurs, SetUpSoFar, Reach
  <2> QED BY <2>3, <2>4, <2>5
<1>6. CASE SetUpReturns
  <2>1. DeviceTypeOK'
    BY <1>6 DEF SetUpReturns, DeviceTypeOK
  <2>2. DeviceLife'
    BY <1>6 DEF SetUpReturns, DeviceTypeOK, LinkType, DeviceLife, DownLeavesNothing
  <2>3. Present' => LinkIsOurs' /\ SetUpSoFar'
    BY <1>6 DEF SetUpReturns, DeviceTypeOK, LinkType, LinkIsOurs, SetUpSoFar, Reach
  <2> QED BY <2>1, <2>2, <2>3
<1>7. ASSUME NEW d \in Wanted(Node) \cup OwnAddr, AddRoute(d)
      PROVE  DeviceInv'
  <2>1. /\ link' = [link EXCEPT !.routes = sendRoute(link.routes, routeMessage(d))]
        /\ d \in Wanted(nodes)
    BY <1>7, WantedIn DEF AddRoute, SetUpSoFar, DeviceTypeOK
  <2>2. /\ link'.routes = sendRoute(link.routes, routeMessage(d))
        /\ link'.routes \subseteq link.routes \cup {Route(d, TRUE)}
        /\ Dsts(link.routes) \subseteq Dsts(link'.routes)
        /\ Dsts(link'.routes) \subseteq Dsts(link.routes) \cup {d}
        /\ d \notin Elsewhere \/ plat = "windows" => d \in Dsts(link'.routes)
        /\ d \in Elsewhere /\ plat # "windows" => link'.routes = link.routes
    <3>1. link'.routes = sendRoute(link.routes, routeMessage(d))
      BY <2>1 DEF DeviceTypeOK, LinkType
    <3>2. Dsts(link.routes \cup {Route(d, TRUE)}) = Dsts(link.routes) \cup {d}
      BY DstsAdd DEF Route
    <3>3. Route(d, TRUE).dst = d
      BY DEF Route
    <3>4. CASE d \in Dsts(link.routes) \/ (d \in Elsewhere /\ plat # "windows")
      <4>1. link'.routes = link.routes
        BY <3>1, <3>3, <3>4 DEF sendRoute, routeMessage
      <4> QED BY <3>1, <3>4, <4>1
    <3>5. CASE ~(d \in Dsts(link.routes) \/ (d \in Elsewhere /\ plat # "windows"))
      <4>1. link'.routes = link.routes \cup {Route(d, TRUE)}
        BY <3>1, <3>3, <3>5 DEF sendRoute, routeMessage
      <4> QED BY <3>1, <3>2, <3>5, <4>1
    <3> QED BY <3>4, <3>5
  <2>3. DeviceTypeOK'
    <3>1. Route(d, TRUE) \in RouteType
      BY DEF Route, RouteType, Dest
    <3>2. link' \in LinkType
      BY <2>1, <2>2, <3>1 DEF DeviceTypeOK, LinkType
    <3> QED BY <1>7, <3>2 DEF AddRoute, DeviceTypeOK
  <2>4. DeviceLife'
    BY <1>7, <2>1 DEF AddRoute, DeviceTypeOK, LinkType, DeviceLife, DownLeavesNothing
  <2>5. LinkIsOurs'
    <3>1. \A r \in link'.routes : r \in link.routes \/ r.static
      BY <2>2 DEF Route
    <3>2. link'.set = link.set
      BY <2>1 DEF DeviceTypeOK, LinkType
    <3> QED BY <1>7, <2>2, <3>1, <3>2 DEF AddRoute, LinkIsOurs
  <2>6. SetUpSoFar'
    <3>1. UNCHANGED <<link.key, link.peers, link.addrs, link.set>>
      BY <2>1 DEF DeviceTypeOK, LinkType
    <3> QED BY <1>7, <2>2, <3>1 DEF AddRoute, SetUpSoFar, Reach
  <2> QED BY <2>3, <2>4, <2>5, <2>6
<1>8. ASSUME NEW d \in Wanted(Node) \cup OwnAddr, DelRoute(d)
      PROVE  DeviceInv'
  <2>1. /\ link' = [link EXCEPT !.routes = {r \in link.routes : r.dst # d}]
        /\ link'.routes = {r \in link.routes : r.dst # d}
        /\ Dsts(link'.routes) = Dsts(link.routes) \ {d}
    BY <1>8, DstsDel DEF DelRoute, DeviceTypeOK, LinkType
  <2>2. DeviceTypeOK'
    BY <1>8, <2>1 DEF DelRoute, DeviceTypeOK, LinkType
  <2>3. DeviceLife'
    BY <1>8, <2>1 DEF DelRoute, DeviceTypeOK, LinkType, DeviceLife, DownLeavesNothing
  <2>4. LinkIsOurs'
    BY <1>8, <2>1 DEF DelRoute, DeviceTypeOK, LinkType, LinkIsOurs
  <2>5. SetUpSoFar'
    BY <1>8, <2>1 DEF DelRoute, DeviceTypeOK, LinkType, SetUpSoFar, Reach
  <2> QED BY <2>2, <2>3, <2>4, <2>5
<1> QED BY <1>1, <1>2, <1>3, <1>4, <1>5, <1>6, <1>7, <1>8

(* What goes wrong, and taking the interface down.                           *)
LEMMA TeardownKeepsInv ==
    ASSUME DeviceInv,
           \/ StepFails \/ StopAgent \/ DownInterface \/ DownFails \/ NextSnapshot
           \/ AgentEnds \/ LinkVanishes \/ removeKernel \/ OtherTun
    PROVE  DeviceInv'
<1> USE DEF DeviceInv, Present, Userspace, Netlink, DevStep, NoLink, agentVars, linkVars,
            Raised, Sized, Addressed, Configured, Utun
<1>1. CASE StepFails \/ StopAgent \/ NextSnapshot
  <2>1. /\ UNCHANGED <<linkVars, agentVars, nodes>> /\ alive
        /\ todo' \in {{}, todo}
        /\ \/ dpc \in {"configure"} \cup Configured /\ dpc' = "down"
           \/ dpc = "idle" /\ dpc' = "stop"
           \/ dpc \in {"ok", "downed"} /\ dpc' = "idle"
    BY <1>1 DEF StepFails, StopAgent, NextSnapshot
  <2>2. DeviceTypeOK'
    BY <2>1 DEF DeviceTypeOK
  <2>3. DeviceLife'
    BY <2>1 DEF DeviceTypeOK, LinkType, DeviceLife, DownLeavesNothing
  <2>4. Present' => LinkIsOurs' /\ SetUpSoFar'
    BY <2>1 DEF DeviceTypeOK, LinkType, LinkIsOurs, SetUpSoFar
  <2> QED BY <2>2, <2>3, <2>4
<1>2. CASE DownInterface
  <2>1. DeviceTypeOK'
    <3>1. \/ UNCHANGED <<link, dev, sock>>
          \/ link' = NoLink /\ dev' = "none" /\ sock' = FALSE
      BY <1>2 DEF DownInterface, Delete
    <3>2. link' \in LinkType
      BY <3>1, NoLinkType DEF DeviceTypeOK
    <3> QED BY <1>2, <3>1, <3>2 DEF DownInterface, DeviceTypeOK
  <2>2. DeviceLife'
    BY <1>2 DEF DownInterface, Delete, DeviceTypeOK, LinkType, DeviceLife, DownLeavesNothing
  <2>3. ~Present'
    BY <1>2 DEF DownInterface, Delete, DeviceTypeOK, LinkType, DeviceLife
  <2> QED BY <2>1, <2>2, <2>3
<1>3. CASE DownFails
  <2>1. DeviceTypeOK'
    <3>1. \/ UNCHANGED <<link, dev, sock>>
          \/ link' = NoLink /\ dev' = "none" /\ sock' = FALSE
      BY <1>3 DEF DownFails
    <3>2. link' \in LinkType
      BY <3>1, NoLinkType DEF DeviceTypeOK
    <3> QED BY <1>3, <3>1, <3>2 DEF DownFails, DeviceTypeOK
  <2>2. DeviceLife'
    BY <1>3 DEF DownFails, DeviceTypeOK, LinkType, DeviceLife, DownLeavesNothing
  <2>3. Present' => LinkIsOurs' /\ SetUpSoFar'
    BY <1>3 DEF DownFails, DeviceTypeOK, LinkType, LinkIsOurs, SetUpSoFar
  <2> QED BY <2>1, <2>2, <2>3
<1>4. CASE AgentEnds
  <2>1. DeviceTypeOK'
    BY <1>4, NoLinkType DEF AgentEnds, DeviceTypeOK
  <2>2. DeviceLife'
    BY <1>4 DEF AgentEnds, DeviceTypeOK, LinkType, DeviceLife, DownLeavesNothing
  <2>3. Present' => LinkIsOurs' /\ SetUpSoFar'
    BY <1>4 DEF AgentEnds, DeviceTypeOK, LinkType, LinkIsOurs, SetUpSoFar
  <2> QED BY <2>1, <2>2, <2>3
<1>5. CASE LinkVanishes
  <2>1. DeviceTypeOK'
    BY <1>5, NoLinkType DEF LinkVanishes, DeviceTypeOK
  <2>2. DeviceLife'
    BY <1>5 DEF LinkVanishes, DeviceTypeOK, LinkType, DeviceLife, DownLeavesNothing
  <2>3. ~Present'
    BY <1>5 DEF LinkVanishes
  <2> QED BY <2>1, <2>2, <2>3
<1>6. CASE removeKernel
  <2>1. DeviceTypeOK'
    BY <1>6, NoLinkType DEF removeKernel, DeviceTypeOK
  <2>2. DeviceLife'
    BY <1>6 DEF removeKernel, DeviceTypeOK, LinkType, DeviceLife, DownLeavesNothing
  <2>3. ~Present'
    BY <1>6 DEF removeKernel
  <2> QED BY <2>1, <2>2, <2>3
<1>7. CASE OtherTun
  BY <1>7 DEF OtherTun, DeviceTypeOK, LinkType, DeviceLife, DownLeavesNothing, LinkIsOurs, SetUpSoFar, Reach
<1> QED BY <1>1, <1>2, <1>3, <1>4, <1>5, <1>6, <1>7

(* The inductive invariant: at every point, also after any failure, what the *)
(* steps taken so far promise of the interface is so.                        *)
THEOREM DeviceInvariant == DeviceSpec => []DeviceInv
<1>1. DeviceInit => DeviceInv
  <2> SUFFICES ASSUME DeviceInit PROVE DeviceInv
    OBVIOUS
  <2>1. DeviceTypeOK
    BY NoLinkType DEF DeviceInit, DeviceTypeOK
  <2>2. DeviceLife
    BY DEF DeviceInit, DeviceLife, DownLeavesNothing, NoLink, Present, Userspace
  <2> QED BY <2>1, <2>2 DEF DeviceInit, DeviceInv, NoLink, Present
<1>2. DeviceInv /\ [DeviceNext]_deviceVars => DeviceInv'
  BY DeviceStutter, CreateKeepsInv, LinkStepsKeepInv, TeardownKeepsInv DEF DeviceNext
<1> QED BY <1>1, <1>2, PTL DEF DeviceSpec

(* SetUpInterface that returns without an error has brought the key, the     *)
(* peers and the routes of the interface, whatever was on it, exactly in     *)
(* line with the snapshot; the address is among those it has, and the only   *)
(* one where the device is the agent's own.                                  *)
THEOREM SetUpExact == DeviceSpec => []SetUpIsExact
<1>1. DeviceInv => SetUpIsExact
  <2> SUFFICES ASSUME DeviceInv, dpc = "ok", Present
               PROVE  /\ link.key = starts /\ link.peers = nodes
                      /\ Dsts(link.routes) = {own} \cup Reach(nodes)
                      /\ link.set = {"mtu", "up"}
                      /\ own \in link.addrs /\ (Userspace => link.addrs = {own})
    BY DEF SetUpIsExact
  <2> USE DEF Raised, Sized, Addressed, Configured
  <2>1. LinkIsOurs /\ SetUpSoFar /\ link.set \subseteq {"mtu", "up"}
    BY DEF DeviceInv, DeviceTypeOK, LinkType
  <2>2. {own} \cup Reach(nodes) \subseteq Dsts(link.routes)
    BY <2>1 DEF SetUpSoFar
  <2>3. Dsts(link.routes) \subseteq {own} \cup Reach(nodes)
    BY <2>1 DEF SetUpSoFar, LinkIsOurs, Reach
  <2>4. own \in link.addrs /\ (Userspace => link.addrs = {own})
    BY <2>1 DEF SetUpSoFar, LinkIsOurs
  <2> QED BY <2>1, <2>2, <2>3, <2>4 DEF SetUpSoFar
<1> QED BY <1>1, DeviceInvariant, PTL

(* No way through userspaceDevice.Create leaves half of a device.            *)
THEOREM NoHalfDevices == DeviceSpec => []NoHalfDevice
<1>1. DeviceInv => NoHalfDevice
  BY DEF DeviceInv, DeviceLife, NoHalfDevice
<1> QED BY <1>1, DeviceInvariant, PTL

(* DownInterface that succeeds leaves neither interface, device nor socket.  *)
THEOREM DownIsComplete == DeviceSpec => []DownLeavesNothing
<1>1. DeviceInv => DownLeavesNothing
  BY DEF DeviceInv, DeviceLife
<1> QED BY <1>1, DeviceInvariant, PTL

(* Status finds the interface of a running device by its record.             *)
THEOREM StatusIsRight == DeviceSpec => []StatusFindsOwn
<1>1. DeviceInv => StatusFindsOwn
  BY DEF DeviceInv, DeviceLife, StatusFindsOwn, lookup
<1> QED BY <1>1, DeviceInvariant, PTL

-----------------------------------------------------------------------------
(* The addresses of the overlay network.  First powers of two, quotients and *)
(* remainders.                                                               *)

(* g holds the powers of two up to n.                                        *)
Powers(g, n) == g[0] = 1 /\ \A k \in 1 .. n : g[k] = 2 * g[k - 1]

(* Two lists of powers agree as far as both go.                              *)
LEMMA PowersAgree ==
    ASSUME NEW n \in Nat, NEW f, NEW g, Powers(f, n), Powers(g, n)
    PROVE  f[n] = g[n]
<1> DEFINE S == {k \in Nat : f[k] = g[k]}
<1>1. 0 \in S
  BY DEF Powers
<1>2. ASSUME NEW k \in 0 .. n - 1, k \in S PROVE k + 1 \in S
  <2>1. k + 1 \in 1 .. n /\ (k + 1) - 1 = k /\ k + 1 \in Nat
    OBVIOUS
  <2>2. f[k + 1] = 2 * f[k] /\ g[k + 1] = 2 * g[k]
    BY <2>1 DEF Powers
  <2> QED BY <1>2, <2>1, <2>2
<1> HIDE DEF S
<1>3. n \in S
  BY <1>1, <1>2, UpTo
<1> QED BY <1>3 DEF S

(* pow2 is the function its recursion describes.                             *)
LEMMA Pow2Unfolds ==
    /\ pow2[0] = 1
    /\ \A n \in Nat : pow2[n + 1] = 2 * pow2[n] /\ pow2[n] \in Nat \ {0}
<1> DEFINE Good(n, g) == g \in [0 .. n -> Nat \ {0}] /\ Powers(g, n)
           pick == [n \in Nat |-> CHOOSE g : Good(n, g)]
           f == [n \in Nat |-> pick[n][n]]
<1>1. ASSUME NEW n \in Nat PROVE Good(n, pick[n])
  <2> DEFINE X == Nat \ {0}
             F == [q \in (1 .. n) \X X |-> 2 * q[2]]
  <2>1. F \in [(1 .. n) \X X -> X]
    OBVIOUS
  <2>2. 1 \in X
    OBVIOUS
  <2>3. \A k \in 1 .. n : \A x \in X : F[<<k, x>>] = 2 * x
    OBVIOUS
  <2> HIDE DEF F
  <2>4. PICK g \in [0 .. n -> X] : Iterates(g, n, 1, F)
    BY <2>1, <2>2, StepsExist
  <2>5. \A k \in 1 .. n : g[k - 1] \in X
    OBVIOUS
  <2>6. Powers(g, n)
    BY <2>3, <2>4, <2>5 DEF Powers, Iterates
  <2>7. \E h : Good(n, h)
    BY <2>6
  <2> QED BY <2>7
<1>2. \A n \in Nat : n \in 0 .. n /\ f[n] = pick[n][n]
  OBVIOUS
<1>3. f[0] = 1
  BY <1>1, <1>2 DEF Powers
<1> HIDE DEF pick
<1>4. ASSUME NEW n \in Nat PROVE f[n] \in Nat \ {0} /\ f[n + 1] = 2 * f[n]
  <2> DEFINE g == pick[n + 1]
  <2>1. n + 1 \in Nat /\ n + 1 \in 1 .. n + 1 /\ (n + 1) - 1 = n /\ \A k \in 1 .. n : k \in 1 .. n + 1
    OBVIOUS
  <2>2. Good(n + 1, g) /\ Good(n, pick[n])
    BY <1>1, <2>1
  <2>3. Powers(g, n)
    BY <2>1, <2>2 DEF Powers
  <2>4. g[n] = pick[n][n]
    BY <2>2, <2>3, PowersAgree
  <2>5. g[n + 1] = 2 * g[n]
    BY <2>1, <2>2 DEF Powers
  <2>6. pick[n][n] \in Nat \ {0}
    BY <1>2, <2>2
  <2> QED BY <1>2, <2>1, <2>4, <2>5, <2>6
<1> DEFINE Once(h) == [n \in Nat |-> IF n = 0 THEN 1 ELSE 2 * h[n - 1]]
<1>5. f = Once(f)
  <2>1. ASSUME NEW n \in Nat PROVE f[n] = IF n = 0 THEN 1 ELSE 2 * f[n - 1]
    <3>1. CASE n = 0
      BY <1>3, <3>1
    <3>2. CASE n # 0
      <4>1. n - 1 \in Nat /\ (n - 1) + 1 = n
        BY <3>2
      <4> QED BY <1>4, <3>2, <4>1
    <3> QED BY <3>1, <3>2
  <2>2. f = [n \in Nat |-> f[n]]
    OBVIOUS
  <2> HIDE DEF f
  <2> QED BY <2>1, <2>2
<1>6. pow2 = CHOOSE h : h = Once(h)
  BY DEF pow2
<1>7. pow2 = Once(pow2)
  <2> HIDE DEF f, Once
  <2> QED BY <1>5, <1>6
<1>8. \A n \in Nat : pow2[n] = IF n = 0 THEN 1 ELSE 2 * pow2[n - 1]
  BY <1>7
<1>9. pow2[0] = 1
  BY <1>8
<1>10. \A n \in Nat : pow2[n + 1] = 2 * pow2[n]
  <2> TAKE n \in Nat
  <2>1. n + 1 \in Nat /\ n + 1 # 0 /\ (n + 1) - 1 = n
    OBVIOUS
  <2> QED BY <1>8, <2>1
<1>11. ASSUME NEW n \in Nat PROVE pow2[n] \in Nat \ {0}
  <2> DEFINE S == {k \in Nat : pow2[k] \in Nat \ {0}}
  <2>1. 0 \in S
    BY <1>9
  <2>2. ASSUME NEW k \in 0 .. n - 1, k \in S PROVE k + 1 \in S
    <3>1. k \in Nat /\ pow2[k + 1] = 2 * pow2[k] /\ pow2[k] \in Nat \ {0}
      BY <1>10, <2>2
    <3> QED BY <3>1
  <2> HIDE DEF S
  <2>3. n \in S
    BY <2>1, <2>2, UpTo
  <2> QED BY <2>3 DEF S
<1> QED BY <1>9, <1>10, <1>11

(* 2^(m + n) = 2^m 2^n.                                                      *)
LEMMA Pow2Sum ==
    ASSUME NEW m \in Nat, NEW n \in Nat
    PROVE  pow2[m + n] = pow2[m] * pow2[n]
<1> DEFINE S == {k \in Nat : pow2[m + k] = pow2[m] * pow2[k]}
<1>1. 0 \in S
  BY Pow2Unfolds
<1>2. ASSUME NEW k \in 0 .. n - 1, k \in S PROVE k + 1 \in S
  <2>1. /\ m + k \in Nat /\ k \in Nat /\ m + (k + 1) = (m + k) + 1
        /\ pow2[m + k] = pow2[m] * pow2[k]
    BY <1>2
  <2>2. /\ pow2[(m + k) + 1] = 2 * pow2[m + k] /\ pow2[k + 1] = 2 * pow2[k]
        /\ pow2[m] \in Nat /\ pow2[k] \in Nat
    BY <2>1, Pow2Unfolds
  <2>3. pow2[m + (k + 1)] = pow2[m] * pow2[k + 1]
    BY <2>1, <2>2
  <2> QED BY <2>1, <2>3
<1> HIDE DEF S
<1>3. n \in S
  BY <1>1, <1>2, UpTo
<1> QED BY <1>3 DEF S

(* A smaller power of two divides a larger one.                              *)
LEMMA Pow2Splits ==
    ASSUME NEW m \in Nat, NEW n \in 0 .. m
    PROVE  m - n \in Nat /\ pow2[m] = pow2[n] * pow2[m - n] /\ pow2[n] <= pow2[m]
<1>1. m - n \in Nat /\ n + (m - n) = m /\ n \in Nat
  OBVIOUS
<1>2. pow2[m] = pow2[n] * pow2[m - n]
  BY <1>1, Pow2Sum
<1>3. pow2[n] \in Nat \ {0} /\ pow2[m - n] \in Nat \ {0}
  BY <1>1, Pow2Unfolds
<1>4. pow2[n] <= pow2[n] * pow2[m - n]
  BY <1>3
<1> QED BY <1>1, <1>2, <1>4

(* Quotient and remainder.                                                   *)
LEMMA Division ==
    ASSUME NEW a \in Nat, NEW k \in Nat \ {0}
    PROVE  /\ a \div k \in Nat /\ a % k \in Nat /\ a % k < k
           /\ a = k * (a \div k) + (a % k)
  OBVIOUS

(* They are the only ones.                                                   *)
LEMMA Quotient ==
    ASSUME NEW k \in Nat \ {0}, NEW q \in Nat, NEW r \in Nat, r < k
    PROVE  (k * q + r) \div k = q /\ (k * q + r) % k = r
  OBVIOUS

-----------------------------------------------------------------------------
(* Bits. *)

(* What stands above bit k does not show in the bits below.                  *)
LEMMA LowBits ==
    ASSUME NEW k \in Nat, NEW i \in 0 .. k - 1, NEW M \in Nat, NEW h \in Nat
    PROVE  Bit(pow2[k] * M + h, i) <=> Bit(h, i)
<1> DEFINE I == pow2[i]
           J == pow2[k - i - 1]
           q == h \div I
           r == h % I
<1>1. i \in Nat /\ k - i \in Nat /\ k - i - 1 \in Nat /\ (k - i - 1) + 1 = k - i /\ i \in 0 .. k
  OBVIOUS
<1>2. I \in Nat \ {0} /\ J \in Nat \ {0} /\ pow2[k - i] = 2 * J
  BY <1>1, Pow2Unfolds
<1>3. pow2[k] = I * (2 * J)
  BY <1>1, <1>2, Pow2Splits
<1>4. q \in Nat /\ r \in Nat /\ r < I /\ h = I * q + r
  BY <1>2, Division
<1> HIDE DEF I, J, q, r
<1>5. pow2[k] * M + h = I * (2 * (J * M) + q) + r
  BY <1>2, <1>3, <1>4
<1>6. 2 * (J * M) + q \in Nat /\ J * M \in Nat
  BY <1>2, <1>4
<1>7. (pow2[k] * M + h) \div I = 2 * (J * M) + q
  BY <1>2, <1>4, <1>5, <1>6, Quotient
<1>8. (2 * (J * M) + q) % 2 = q % 2
  <2> DEFINE x == J * M
  <2>1. x \in Nat
    BY <1>6
  <2> HIDE DEF x
  <2>2. (2 * x + q) % 2 = q % 2
    BY <1>4, <2>1
  <2> QED BY <2>2 DEF x
<1> QED BY <1>7, <1>8 DEF Bit, I, q

(* What stands below bit k does not show in the bits from k on.              *)
LEMMA HighBits ==
    ASSUME NEW k \in Nat, NEW i \in Nat, i >= k, NEW M \in Nat, NEW h \in Nat, h < pow2[k]
    PROVE  (Bit(pow2[k] * M + h, i) <=> Bit(pow2[k] * M, i)) /\ ~Bit(h, i)
<1> DEFINE K == pow2[k]
           J == pow2[i - k]
           q == M \div J
           r == M % J
<1>1. i - k \in Nat /\ k \in 0 .. i
  OBVIOUS
<1>2. K \in Nat \ {0} /\ J \in Nat \ {0} /\ pow2[i] = K * J /\ pow2[i] \in Nat \ {0} /\ K <= pow2[i]
  BY <1>1, Pow2Unfolds, Pow2Splits
<1>3. q \in Nat /\ r \in Nat /\ r < J /\ M = J * q + r
  BY <1>2, Division
<1>4. h < K
  OBVIOUS
<1> HIDE DEF K, J, q, r
<1>5. ASSUME NEW l \in Nat, l < K PROVE (K * M + l) \div pow2[i] = q
  <2>1. K * r + l \in Nat /\ K * M + l = pow2[i] * q + (K * r + l)
    BY <1>2, <1>3
  <2>2. K * r + l < K * J
    <3>1. r + 1 <= J
      BY <1>2, <1>3
    <3>2. K * (r + 1) <= K * J
      BY <1>2, <1>3, <3>1
    <3>3. K * (r + 1) = K * r + K
      BY <1>2, <1>3
    <3>4. K * r \in Nat /\ K * J \in Nat
      BY <1>2, <1>3
    <3> QED BY <1>2, <1>5, <3>2, <3>3, <3>4
  <2>3. pow2[i] \in Nat \ {0} /\ K * r + l < pow2[i]
    BY <1>2, <2>2
  <2> DEFINE low == K * r + l
             P == pow2[i]
  <2>4. P \in Nat \ {0} /\ low \in Nat /\ low < P /\ K * M + l = P * q + low
    BY <2>1, <2>3
  <2> HIDE DEF low, P
  <2>5. (P * q + low) \div P = q
    BY <1>3, <2>4, Quotient
  <2>6. (K * M + l) \div P = q
    BY <2>4, <2>5
  <2> QED BY <2>6 DEF P
<1>6. K * M + 0 = K * M /\ 0 < K
  BY <1>2
<1>7. (K * M + h) \div pow2[i] = q /\ (K * M) \div pow2[i] = q
  BY <1>4, <1>5, <1>6
<1>8. h \div pow2[i] = 0
  <2>1. h = pow2[i] * 0 + h /\ h < pow2[i]
    BY <1>2, <1>4
  <2> QED BY <1>2, <2>1, Quotient
<1> QED BY <1>7, <1>8 DEF Bit, K

(* Words with the same bits are the same.                                    *)
LEMMA SameBits ==
    ASSUME NEW w \in Nat, NEW x \in 0 .. pow2[w] - 1, NEW y \in 0 .. pow2[w] - 1,
           \A i \in 0 .. w - 1 : Bit(x, i) <=> Bit(y, i)
    PROVE  x = y
<1> DEFINE P(k) == \A a, b \in 0 .. pow2[k] - 1 :
                       (\A i \in 0 .. k - 1 : Bit(a, i) <=> Bit(b, i)) => a = b
           S == {k \in Nat : P(k)}
<1>1. 0 \in S
  BY Pow2Unfolds
<1>2. ASSUME NEW k \in 0 .. w - 1, k \in S PROVE k + 1 \in S
  <2>1. k \in Nat /\ P(k)
    BY <1>2
  <2> DEFINE K == pow2[k]
  <2>2. K \in Nat \ {0} /\ pow2[k + 1] = 2 * K
    BY <2>1, Pow2Unfolds
  <2>3. ASSUME NEW a \in 0 .. pow2[k + 1] - 1
        PROVE  /\ a % K \in 0 .. K - 1 /\ a \div K \in {0, 1} /\ a = K * (a \div K) + (a % K)
               /\ \A i \in 0 .. k - 1 : Bit(a % K, i) <=> Bit(a, i)
               /\ Bit(a, k) <=> a \div K = 1
    <3> DEFINE q == a \div K
               r == a % K
    <3>1. q \in Nat /\ r \in Nat /\ r < K /\ a = K * q + r /\ a < 2 * K
      <4>1. a \in Nat /\ a < 2 * K
        BY <2>2
      <4> QED BY <2>2, <4>1, Division
    <3> HIDE DEF q, r, K
    <3>2. q < 2
      <4> SUFFICES ASSUME q >= 2 PROVE FALSE
        BY <3>1
      <4>1. K * q >= K * 2
        BY <2>2, <3>1
      <4>2. K * q \in Nat /\ K * 2 = 2 * K
        BY <2>2, <3>1
      <4> QED BY <2>2, <3>1, <4>1, <4>2
    <3>3. \A i \in 0 .. k - 1 : Bit(K * q + r, i) <=> Bit(r, i)
      BY <2>1, <3>1, LowBits DEF K
    <3>4. q \in {0, 1} /\ r \in 0 .. K - 1
      BY <2>2, <3>1, <3>2
    <3>5. Bit(a, k) <=> q = 1
      <4>1. q % 2 = 1 <=> q = 1
        BY <3>4
      <4> QED BY <4>1 DEF Bit, K, q
    <3> QED BY <3>1, <3>3, <3>4, <3>5 DEF q, r
  <2>4. P(k + 1)
    <3> SUFFICES ASSUME NEW a \in 0 .. pow2[k + 1] - 1, NEW b \in 0 .. pow2[k + 1] - 1,
                        \A i \in 0 .. k : Bit(a, i) <=> Bit(b, i)
                 PROVE  a = b
      BY <2>1
    <3>1. k \in 0 .. k /\ \A i \in 0 .. k - 1 : i \in 0 .. k
      BY <2>1
    <3>2. \A i \in 0 .. k - 1 : Bit(a % K, i) <=> Bit(b % K, i)
      BY <2>3, <3>1
    <3>3. a % K = b % K
      BY <2>1, <2>3, <3>2
    <3>4. a \div K = b \div K
      BY <2>3, <3>1
    <3> QED BY <2>3, <3>3, <3>4
  <2> HIDE DEF P
  <2> QED BY <2>1, <2>4
<1>3. w \in S
  <2> HIDE DEF S
  <2>1. \A k \in 0 .. w - 1 : k \in S => k + 1 \in S
    BY <1>2
  <2>2. 0 .. w \subseteq S
    BY <1>1, <2>1, UpTo
  <2> QED BY <2>2
<1>4. P(w)
  BY <1>3
<1> QED BY <1>4

(* So a number or'ed into the free bits of another is added to it.           *)
LEMMA OrIsSum ==
    ASSUME NEW w \in Nat, NEW k \in 0 .. w, NEW M \in Nat, NEW h \in Nat,
           h < pow2[k], pow2[k] * M + h < pow2[w]
    PROVE  Or(pow2[k] * M, h, w) = pow2[k] * M + h
<1> DEFINE x == pow2[k] * M
           Good(z) == \A i \in 0 .. w - 1 : Bit(z, i) <=> Bit(x, i) \/ Bit(h, i)
<1>1. k \in Nat /\ pow2[k] \in Nat \ {0} /\ pow2[w] \in Nat \ {0} /\ x \in Nat
  <2>1. k \in Nat /\ pow2[k] \in Nat \ {0} /\ pow2[w] \in Nat \ {0}
    BY Pow2Unfolds
  <2> QED BY <2>1
<1>2. x + h \in 0 .. pow2[w] - 1
  BY <1>1
<1>3. ASSUME NEW i \in 0 .. w - 1 PROVE Bit(x + h, i) <=> Bit(x, i) \/ Bit(h, i)
  <2>1. CASE i < k
    <3>1. i \in 0 .. k - 1
      BY <1>1, <2>1
    <3>2. Bit(x + h, i) <=> Bit(h, i)
      BY <1>1, <3>1, LowBits
    <3>3. Bit(x + 0, i) <=> Bit(0, i)
      BY <1>1, <3>1, LowBits
    <3>4. x + 0 = x /\ ~Bit(0, i)
      <4>1. pow2[i] \in Nat \ {0}
        BY Pow2Unfolds
      <4>2. 0 \div pow2[i] = 0
        <5>1. pow2[i] * 0 + 0 = 0
          BY <4>1
        <5> QED BY <4>1, <5>1, Quotient
      <4> QED BY <1>1, <4>2 DEF Bit
    <3> QED BY <3>2, <3>3, <3>4
  <2>2. CASE i >= k
    <3>1. i \in Nat /\ i >= k /\ k \in Nat
      BY <1>1, <2>2
    <3>2. (Bit(pow2[k] * M + h, i) <=> Bit(pow2[k] * M, i)) /\ ~Bit(h, i)
      BY <3>1, HighBits
    <3> QED BY <3>2
  <2> QED BY <1>1, <2>1, <2>2
<1>4. Good(x + h)
  BY <1>3
<1>5. Or(x, h, w) \in 0 .. pow2[w] - 1 /\ Good(Or(x, h, w))
  <2> HIDE DEF x
  <2> QED BY <1>2, <1>4 DEF Or
<1>6. \A i \in 0 .. w - 1 : Bit(Or(x, h, w), i) <=> Bit(x + h, i)
  BY <1>4, <1>5
<1> HIDE DEF x, Good
<1>7. Or(x, h, w) = x + h
  BY <1>2, <1>5, <1>6, SameBits
<1> QED BY <1>7 DEF x

-----------------------------------------------------------------------------
(* Slots and addresses. *)

(* The host bits of a network, its masked address, and the room above that.  *)
LEMMA NetworkHasRoom ==
    ASSUME NEW p \in Networks
    PROVE  /\ BitLen(p) \in Nat /\ HostBits(p) \in 0 .. BitLen(p)
           /\ p.is4 \in BOOLEAN /\ p.addr \in Nat
           /\ \E M \in Nat : /\ Masked(p) = pow2[HostBits(p)] * M
                             /\ pow2[HostBits(p)] * (M + 1) <= pow2[BitLen(p)]
<1>1. /\ Width4 \in Nat /\ Word \in Nat /\ 2 * Word \in Nat
      /\ Base6 \subseteq 0 .. pow2[2 * Word] - 1
  BY OverlayAssumption DEF OverlayAssumption
<1>2. /\ p.is4 \in BOOLEAN /\ BitLen(p) \in Nat /\ p.bits \in 0 .. BitLen(p)
      /\ p.addr \in 0 .. pow2[BitLen(p)] - 1
  BY <1>1 DEF Networks, BitLen
<1>3. HostBits(p) \in 0 .. BitLen(p)
  BY <1>2 DEF HostBits
<1> DEFINE k == HostBits(p)
           K == pow2[k]
           J == pow2[BitLen(p) - k]
           M == p.addr \div K
           r == p.addr % K
<1>4. /\ K \in Nat \ {0} /\ J \in Nat \ {0} /\ pow2[BitLen(p)] = K * J
      /\ pow2[BitLen(p)] \in Nat \ {0}
  <2> DEFINE b == BitLen(p)
  <2>1. b \in Nat /\ k \in 0 .. b
    BY <1>2, <1>3
  <2> HIDE DEF b, k
  <2>2. b - k \in Nat /\ pow2[b] = pow2[k] * pow2[b - k]
    BY <2>1, Pow2Splits
  <2>3. pow2[k] \in Nat \ {0} /\ pow2[b - k] \in Nat \ {0} /\ pow2[b] \in Nat \ {0}
    BY <2>1, <2>2, Pow2Unfolds
  <2> QED BY <2>2, <2>3 DEF b
<1>5. p.addr \in Nat /\ p.addr < K * J
  BY <1>2, <1>4
<1>6. M \in Nat /\ r \in Nat /\ r < K /\ p.addr = K * M + r
  BY <1>4, <1>5, Division
<1>7. Masked(p) = p.addr - r
  BY DEF Masked
<1> HIDE DEF K, J, M, r
<1>8. Masked(p) = K * M
  BY <1>4, <1>6, <1>7
<1>9. M < J
  <2> SUFFICES ASSUME M >= J PROVE FALSE
    BY <1>4, <1>6
  <2>1. K * M >= K * J /\ K * M \in Nat /\ K * J \in Nat
    BY <1>4, <1>6
  <2> QED BY <1>5, <1>6, <2>1
<1>10. K * (M + 1) <= K * J
  <2>1. M + 1 <= J
    BY <1>4, <1>6, <1>9
  <2> QED BY <1>4, <1>6, <2>1
<1> QED BY <1>2, <1>3, <1>4, <1>5, <1>6, <1>8, <1>10 DEF K

(* MaxHost leaves out the network address and the IPv4 broadcast address.    *)
LEMMA MaxHostFits ==
    ASSUME NEW p \in Networks
    PROVE  /\ MaxHost(p) \in Nat
           /\ MaxHost(p) < pow2[HostBits(p)] /\ MaxHost(p) < pow2[Word]
           /\ p.is4 => MaxHost(p) = 0 \/ MaxHost(p) < pow2[HostBits(p)] - 1
           /\ p.is4 => pow2[HostBits(p)] <= pow2[Width4]
<1>1. Width4 \in Nat \ {0} /\ Word \in Nat /\ Width4 < Word
  BY OverlayAssumption DEF OverlayAssumption
<1>2. HostBits(p) \in 0 .. BitLen(p) /\ BitLen(p) \in Nat
  BY NetworkHasRoom
<1> DEFINE k == HostBits(p)
           K == pow2[k]
           W == pow2[Word]
<1>3. K \in Nat \ {0} /\ W \in Nat \ {0} /\ k \in Nat
  BY <1>1, <1>2, Pow2Unfolds
<1>4. W >= 2
  <2>1. Word - 1 \in Nat /\ (Word - 1) + 1 = Word
    BY <1>1
  <2>2. pow2[Word - 1] \in Nat \ {0} /\ W = 2 * pow2[Word - 1]
    BY <2>1, Pow2Unfolds
  <2> QED BY <2>2
<1>5. p.is4 => K <= pow2[Width4] /\ k < Word
  <2> SUFFICES ASSUME p.is4 PROVE K <= pow2[Width4] /\ k < Word
    OBVIOUS
  <2>1. k \in 0 .. Width4
    BY <1>2 DEF BitLen
  <2> QED BY <1>1, <2>1, Pow2Splits
<1>6. CASE k >= Word
  <2>1. W <= K
    <3>1. Word \in 0 .. k
      BY <1>1, <1>3, <1>6
    <3> QED BY <1>3, <3>1, Pow2Splits
  <2>2. MaxHost(p) = W - 2 /\ ~p.is4
    BY <1>1, <1>3, <1>5, <1>6 DEF MaxHost
  <2> QED BY <1>3, <1>4, <1>5, <2>1, <2>2
<1>7. CASE k < Word
  <2>1. K < W
    <3>1. Word - k \in Nat /\ Word - k - 1 \in Nat /\ (Word - k - 1) + 1 = Word - k /\ k \in 0 .. Word
      BY <1>1, <1>3, <1>7
    <3>2. W = K * pow2[Word - k] /\ pow2[Word - k] = 2 * pow2[Word - k - 1] /\ pow2[Word - k - 1] \in Nat \ {0}
      BY <1>1, <3>1, Pow2Splits, Pow2Unfolds
    <3> DEFINE j == pow2[Word - k - 1]
    <3>3. j \in Nat \ {0} /\ W = K * (2 * j)
      BY <3>2
    <3> HIDE DEF j, K, W
    <3>4. K * (2 * j) >= K * 2
      BY <1>3, <3>3
    <3> QED BY <1>3, <3>3, <3>4
  <2> DEFINE top == Wrap(Wrap(K) + W - 1)
  <2>2. Wrap(K) = K
    <3>1. W * 0 + K = K
      BY <1>3
    <3>2. (W * 0 + K) % W = K
      <4> HIDE DEF K, W
      <4> QED BY <1>3, <2>1, Quotient
    <3> QED BY <3>1, <3>2 DEF Wrap
  <2>3. top = K - 1
    <3>1. K + W - 1 = W * 1 + (K - 1) /\ K - 1 \in Nat /\ K - 1 < W
      BY <1>3, <2>1
    <3>2. (W * 1 + (K - 1)) % W = K - 1
      <4> HIDE DEF K, W
      <4> QED BY <1>3, <3>1, Quotient
    <3>3. (K + W - 1) % W = K - 1
      BY <3>1, <3>2
    <3> QED BY <2>2, <3>3 DEF Wrap
  <2>4. ~(k >= Word)
    BY <1>1, <1>3, <1>7
  <2>5. MaxHost(p) = IF p.is4 /\ top > 0 THEN top - 1 ELSE top
    BY <2>4 DEF MaxHost
  <2>6. MaxHost(p) = IF p.is4 /\ K - 1 > 0 THEN K - 2 ELSE K - 1
    BY <1>3, <2>3, <2>5
  <2> HIDE DEF K, W
  <2>7. /\ MaxHost(p) \in Nat /\ MaxHost(p) < K /\ MaxHost(p) < W
        /\ p.is4 => MaxHost(p) = 0 \/ MaxHost(p) < K - 1
    BY <1>3, <2>1, <2>6
  <2> QED BY <1>5, <2>7 DEF K, W
<1> QED BY <1>1, <1>3, <1>6, <1>7

(* The address of a slot is that many above the network's.                   *)
LEMMA AddrIsSum ==
    ASSUME NEW p \in Networks, NEW h \in 1 .. MaxHost(p)
    PROVE  Addr(p, h) = Masked(p) + h
<1>1. Width4 \in Nat \ {0} /\ Word \in Nat /\ Width4 < Word
  BY OverlayAssumption DEF OverlayAssumption
<1>2. HostBits(p) \in 0 .. BitLen(p) /\ BitLen(p) \in Nat /\ p.is4 \in BOOLEAN
  BY NetworkHasRoom
<1> DEFINE k == HostBits(p)
           K == pow2[k]
           W == pow2[Word]
<1>3. K \in Nat \ {0} /\ W \in Nat \ {0} /\ k \in Nat
  BY <1>1, <1>2, Pow2Unfolds
<1>4. PICK M \in Nat : Masked(p) = K * M /\ K * (M + 1) <= pow2[BitLen(p)]
  BY NetworkHasRoom
<1>5. MaxHost(p) \in Nat /\ MaxHost(p) < K /\ MaxHost(p) < W /\ (p.is4 => K <= pow2[Width4])
  BY MaxHostFits
<1>6. h \in Nat /\ h # 0 /\ ~(h > MaxHost(p)) /\ h < K /\ h < W
  BY <1>3, <1>5
<1>7. CASE p.is4
  <2>1. BitLen(p) = Width4 /\ k \in 0 .. Width4 /\ pow2[Width4] \in Nat \ {0}
    BY <1>1, <1>2, <1>7, Pow2Unfolds DEF BitLen
  <2>2. h % pow2[Width4] = h
    <3> DEFINE V == pow2[Width4]
    <3>1. V \in Nat \ {0} /\ h < V /\ V * 0 + h = h
      BY <1>3, <1>5, <1>6, <1>7, <2>1
    <3>2. (V * 0 + h) % V = h
      <4> HIDE DEF V
      <4> QED BY <1>6, <3>1, Quotient
    <3> QED BY <3>1, <3>2
  <2>3. K * M + h < pow2[Width4]
    <3> HIDE DEF K
    <3>1. K * (M + 1) = K * M + K /\ K * M \in Nat
      BY <1>3
    <3> QED BY <1>3, <1>4, <1>6, <2>1, <3>1
  <2>4. Or(K * M, h, Width4) = K * M + h
    BY <1>1, <1>6, <2>1, <2>3, OrIsSum
  <2>5. Addr(p, h) = Or(Masked(p), h % pow2[Width4], Width4)
    BY <1>6, <1>7 DEF Addr
  <2> QED BY <1>4, <2>2, <2>4, <2>5
<1>8. CASE ~p.is4
  <2> DEFINE low == Masked(p) % W
  <2>1. Addr(p, h) = (Masked(p) - low) + Or(low, h, Word)
    BY <1>6, <1>8 DEF Addr
  <2>2. Masked(p) \in Nat
    <3> HIDE DEF K
    <3> QED BY <1>3, <1>4
  <2>3. low \in Nat /\ low < W
    <3> HIDE DEF W
    <3> QED BY <1>3, <2>2, Division
  <2>4. Or(low, h, Word) = low + h
    <3>1. CASE k >= Word
      <4> DEFINE J == pow2[k - Word]
      <4>1. k - Word \in Nat /\ Word \in 0 .. k
        BY <1>1, <1>3, <3>1
      <4>2. J \in Nat \ {0} /\ K = W * J
        BY <1>3, <4>1, Pow2Unfolds, Pow2Splits
      <4>3. low = 0
        <5> HIDE DEF J, K, W
        <5>1. K * M = W * (J * M) + 0 /\ J * M \in Nat
          BY <1>3, <4>2
        <5>2. (W * (J * M) + 0) % W = 0
          BY <1>3, <5>1, Quotient
        <5> QED BY <1>4, <5>1, <5>2
      <4>4. W * 0 = 0 /\ W * 0 + h < W /\ Word \in 0 .. Word
        BY <1>1, <1>3, <1>6
      <4>5. Or(W * 0, h, Word) = W * 0 + h
        BY <1>1, <1>6, <4>4, OrIsSum
      <4> HIDE DEF low
      <4> QED BY <4>3, <4>4, <4>5
    <3>2. CASE k < Word
      <4> DEFINE J == pow2[Word - k]
                 q == M \div J
                 r == M % J
      <4>1. Word - k \in Nat /\ k \in 0 .. Word
        BY <1>1, <1>3, <3>2
      <4>2. J \in Nat \ {0} /\ W = K * J
        BY <1>1, <4>1, Pow2Unfolds, Pow2Splits
      <4>3. q \in Nat /\ r \in Nat /\ r < J /\ M = J * q + r
        <5> HIDE DEF J
        <5> QED BY <4>2, Division
      <4> HIDE DEF J, q, r, W
      <4>4. K * r + K <= W /\ K * r \in Nat
        <5> HIDE DEF K
        <5>1. r + 1 <= J
          BY <4>2, <4>3
        <5>2. K * (r + 1) <= K * J
          BY <1>3, <4>2, <4>3, <5>1
        <5>3. K * (r + 1) = K * r + K /\ K * r \in Nat
          BY <1>3, <4>3
        <5> QED BY <4>2, <5>2, <5>3
      <4>5. low = K * r
        <5> DEFINE l == K * r
        <5> HIDE DEF K
        <5>1. K * M = W * q + l
          BY <1>3, <4>2, <4>3
        <5>2. l \in Nat /\ l < W
          BY <1>3, <4>4
        <5> HIDE DEF l
        <5>3. (W * q + l) % W = l
          BY <1>3, <4>3, <5>2, Quotient
        <5> QED BY <1>4, <5>1, <5>3 DEF l
      <4>6. K * r + h < W
        <5> HIDE DEF K
        <5> QED BY <1>3, <1>6, <4>4
      <4>7. Or(K * r, h, Word) = K * r + h
        BY <1>1, <1>6, <4>1, <4>3, <4>6, OrIsSum DEF W
      <4> HIDE DEF low
      <4> QED BY <4>5, <4>7
    <3> QED BY <1>1, <1>3, <3>1, <3>2
  <2> HIDE DEF low
  <2>5. (Masked(p) - low) + (low + h) = Masked(p) + h
    BY <1>6, <2>2, <2>3
  <2> QED BY <2>1, <2>4, <2>5
<1> QED BY <1>2, <1>7, <1>8

(* Of every network, the slots from 1 to MaxHost have addresses, all of them *)
(* different, inside it, and neither the network's own address nor, for      *)
(* IPv4, its broadcast address; no other slot has one; and one that          *)
(* checkOverlayNet accepts has room for two nodes (overlay.go).              *)
THEOREM SlotsHaveAddressesTheorem == OverlayInit => SlotsHaveAddresses
<1> SUFFICES ASSUME overlayNet \in Networks PROVE SlotsHaveAddresses
  BY DEF OverlayInit
<1> DEFINE p == overlayNet
           K == pow2[HostBits(p)]
           top == MaxHost(p)
           base == Masked(p)
           Slots == {h \in 0 .. pow2[Word] - 1 : Addr(p, h) # NoAddr}
           Used == {Addr(p, h) : h \in Slots}
<1>1. Word \in Nat /\ 2 * Word \in Nat /\ Width4 \in Nat /\ Width4 < Word
  BY OverlayAssumption DEF OverlayAssumption
<1>2. HostBits(p) \in Nat /\ BitLen(p) \in 0 .. 2 * Word
  <2>1. BitLen(p) \in {Width4, 2 * Word}
    BY DEF BitLen
  <2>2. BitLen(p) \in Nat /\ HostBits(p) \in 0 .. BitLen(p)
    BY NetworkHasRoom
  <2> QED BY <1>1, <2>1, <2>2
<1>3. K \in Nat \ {0} /\ pow2[Word] \in Nat \ {0}
  BY <1>1, <1>2, Pow2Unfolds
<1>4. /\ top \in Nat /\ top < K /\ top < pow2[Word]
      /\ p.is4 => top = 0 \/ top < K - 1
  BY MaxHostFits
<1>5. PICK M \in Nat : base = K * M /\ K * (M + 1) <= pow2[BitLen(p)]
  BY NetworkHasRoom
<1>6. pow2[BitLen(p)] <= NoAddr /\ pow2[BitLen(p)] \in Nat /\ NoAddr \in Nat
  <2> DEFINE b == BitLen(p)
             w == 2 * Word
  <2>1. w \in Nat /\ b \in 0 .. w
    BY <1>1, <1>2
  <2> HIDE DEF b, w
  <2>2. pow2[b] <= pow2[w] /\ pow2[b] \in Nat /\ pow2[w] \in Nat
    <3>1. pow2[b] <= pow2[w]
      BY <2>1, Pow2Splits
    <3>2. b \in Nat
      BY <2>1
    <3> QED BY <2>1, <3>1, <3>2, Pow2Unfolds
  <2> QED BY <2>2 DEF NoAddr, b, w
<1>7. \A h \in 1 .. top : Addr(p, h) = base + h
  BY AddrIsSum
<1>8. \A h : h = 0 \/ h > top => Addr(p, h) = NoAddr
  BY DEF Addr
<1> HIDE DEF p, K, top, base
<1>9. base \in Nat /\ base + K <= NoAddr
  <2>1. K * (M + 1) = K * M + K /\ K * M \in Nat
    BY <1>3
  <2> QED BY <1>3, <1>5, <1>6, <2>1
<1>10. \A h \in 1 .. top : base + h < NoAddr
  BY <1>3, <1>4, <1>6, <1>9
<1>11. Slots = 1 .. top
  <2>1. ASSUME NEW h \in Slots PROVE h \in 1 .. top
    <3>1. h \in Nat /\ h # 0 /\ ~(h > top)
      BY <1>3, <1>8
    <3> QED BY <1>4, <3>1
  <2>2. ASSUME NEW h \in 1 .. top PROVE h \in Slots
    <3>1. h \in 0 .. pow2[Word] - 1
      BY <1>3, <1>4
    <3>2. Addr(p, h) # NoAddr
      BY <1>6, <1>7, <1>9, <1>10
    <3> QED BY <3>1, <3>2
  <2> QED BY <2>1, <2>2
<1>12. Used = {base + h : h \in 1 .. top}
  BY <1>7, <1>11
<1> HIDE DEF Slots, Used
<1>13. Cardinality(Used) = Cardinality(Slots)
  <2> DEFINE f == [h \in Slots |-> base + h]
  <2>1. IsFiniteSet(Slots)
    BY <1>4, <1>11, FS_Interval
  <2>2. f \in Bijection(Slots, Used)
    <3>1. f \in Surjection(Slots, Used)
      BY <1>11, <1>12 DEF Surjection
    <3>2. f \in Injection(Slots, Used)
      <4>1. \A g, h \in Slots : base + g = base + h => g = h
        BY <1>4, <1>9, <1>11
      <4> QED BY <1>11, <1>12, <4>1 DEF Injection, IsInjective
    <3> QED BY <3>1, <3>2 DEF Bijection
  <2> HIDE DEF f
  <2>3. ExistsBijection(Slots, Used)
    BY <2>2 DEF ExistsBijection
  <2> QED BY <2>1, <2>3, FS_Bijection
<1>14. \A a \in Used : a > base /\ a < base + K
  BY <1>3, <1>4, <1>9, <1>12
<1>15. p.is4 => base + K - 1 \notin Used
  BY <1>3, <1>4, <1>9, <1>12
<1>16. checkOverlayNet(p) => {1, 2} \subseteq Slots
  <2> SUFFICES ASSUME top >= 2 PROVE {1, 2} \subseteq Slots
    BY DEF checkOverlayNet, top
  <2> QED BY <1>4, <1>11
<1> QED BY <1>11, <1>13, <1>14, <1>15, <1>16 DEF SlotsHaveAddresses, p, K, top, base, Slots, Used
=============================================================================
