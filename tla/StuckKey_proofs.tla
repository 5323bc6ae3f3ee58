-------------------------- MODULE StuckKey_proofs ---------------------------
(***************************************************************************)
(* Proofs that no key stays down for ever: Fexware.NoStuckKey, for every   *)
(* board whose keymaps let go of what they press in every layer alike.     *)
(*                                                                         *)
(* First an argument about who lets go of a key, apart from the firmware:  *)
(* every place that holds a key, and every press still to come, has a      *)
(* release of its own that comes after it.  A press or release on its way  *)
(* is a pair whose first element says how far from the end of the stream   *)
(* it is; a release that is only going to be sent is a pair with a 0.      *)
(***************************************************************************)
EXTENDS Fexware_proofs, FiniteSetTheorems

(* Places that hold, presses on their way, releases on their way, and      *)
(* releases to be sent.                                                    *)
Covered(A, P, R, H) ==
  \E f \in [A -> R \cup H], g \in [P -> R \cup H] :
    /\ \A x, y \in A : f[x] = f[y] => x = y
    /\ \A x, y \in P : g[x] = g[y] => x = y
    /\ \A x \in A, y \in P : f[x] # g[y]
    /\ \A x \in P : g[x][1] < x[1]

(* The stream has become n longer. *)
Shifted(S, n) == {<<x[1] + n, x[2]>> : x \in S}

OnItsWay == (Nat \ {0}) \X Nat

(* With nothing left to let go, nothing is held. *)
LEMMA NothingLeft == ASSUME NEW A, NEW P, Covered(A, P, {}, {})  PROVE A = {}
BY DEF Covered

(* Fewer places and presses are covered, and by more releases. *)
LEMMA CoveredWeaker ==
  ASSUME NEW A, NEW P, NEW R, NEW H, NEW A2, NEW P2, NEW H2,
         Covered(A, P, R, H), A2 \subseteq A, P2 \subseteq P, H \subseteq H2
  PROVE  Covered(A2, P2, R, H2)
<1>1. PICK f \in [A -> R \cup H], g \in [P -> R \cup H] :
        /\ \A x, y \in A : f[x] = f[y] => x = y
        /\ \A x, y \in P : g[x] = g[y] => x = y
        /\ \A x \in A, y \in P : f[x] # g[y]
        /\ \A x \in P : g[x][1] < x[1]
  BY DEF Covered
<1>. DEFINE f2 == [z \in A2 |-> f[z]]
            g2 == [z \in P2 |-> g[z]]
<1>2. f2 \in [A2 -> R \cup H2] /\ g2 \in [P2 -> R \cup H2]
  BY <1>1
<1>3. (\A z \in A2 : f2[z] = f[z]) /\ (\A z \in P2 : g2[z] = g[z])
  OBVIOUS
<1>. HIDE DEF f2, g2
<1>. QED  BY <1>1, <1>2, <1>3 DEF Covered

(* The next press makes a place hold, or is dropped: its release is that   *)
(* of the place now.                                                       *)
LEMMA PressTaken ==
  ASSUME NEW A, NEW P, NEW R, NEW H, NEW x \in P, NEW a, NEW A2,
         Covered(A, P, R, H), A2 \subseteq A \cup {a}
  PROVE  Covered(A2, P \ {x}, R, H)
<1>1. PICK f \in [A -> R \cup H], g \in [P -> R \cup H] :
        /\ \A u, v \in A : f[u] = f[v] => u = v
        /\ \A u, v \in P : g[u] = g[v] => u = v
        /\ \A u \in A, v \in P : f[u] # g[v]
        /\ \A u \in P : g[u][1] < u[1]
  BY DEF Covered
<1>. DEFINE f2 == [z \in A2 |-> IF z \in A THEN f[z] ELSE g[x]]
            g2 == [z \in P \ {x} |-> g[z]]
<1>2. f2 \in [A2 -> R \cup H] /\ g2 \in [P \ {x} -> R \cup H]
  BY <1>1
<1>3. \A z \in A2 : f2[z] = IF z \in A THEN f[z] ELSE g[x]
  OBVIOUS
<1>4. \A z \in P \ {x} : g2[z] = g[z]
  OBVIOUS
<1>5. \A z \in A2 : z \in A \/ z = a
  OBVIOUS
<1>. HIDE DEF f2, g2
<1>6. \A u, v \in A2 : f2[u] = f2[v] => u = v
  BY <1>1, <1>3, <1>5
<1>7. ASSUME NEW u \in A2, NEW v \in P \ {x}  PROVE f2[u] # g2[v]
  <2>1. g2[v] = g[v] /\ v \in P /\ v # x
    BY <1>4
  <2>2. CASE u \in A
    BY <1>1, <1>3, <2>1, <2>2
  <2>3. CASE u \notin A
    <3>1. f2[u] = g[x]
      BY <1>3, <2>3
    <3>. QED  BY <1>1, <2>1, <3>1
  <2>. QED  BY <2>2, <2>3
<1>8. \A u, v \in P \ {x} : g2[u] = g2[v] => u = v
  BY <1>1, <1>4
<1>9. \A u \in P \ {x} : g2[u][1] < u[1]
  BY <1>1, <1>4
<1>. QED  BY Zenon, <1>2, <1>6, <1>7, <1>8, <1>9 DEF Covered

(* The next release, with no press before it, makes some place let go, or  *)
(* finds none that holds: the place it was meant for inherits the release  *)
(* of the one that has.                                                    *)
LEMMA ReleaseTaken ==
  ASSUME NEW A, NEW P, NEW R, NEW H, NEW y \in R, NEW a, a \in A \/ A = {},
         Covered(A, P, R, H), P \subseteq OnItsWay, R \subseteq OnItsWay,
         \A x \in P : x[1] <= y[1], \A z \in H : z[1] = 0
  PROVE  Covered(A \ {a}, P, R \ {y}, H)
<1>1. PICK f \in [A -> R \cup H], g \in [P -> R \cup H] :
        /\ \A u, v \in A : f[u] = f[v] => u = v
        /\ \A u, v \in P : g[u] = g[v] => u = v
        /\ \A u \in A, v \in P : f[u] # g[v]
        /\ \A u \in P : g[u][1] < u[1]
  BY DEF Covered
<1>2. y \notin H /\ y[1] \in Nat
  BY DEF OnItsWay
<1>3. \A u \in P : g[u] # y
  BY <1>1, <1>2 DEF OnItsWay
<1>4. g \in [P -> (R \ {y}) \cup H]
  BY <1>1, <1>3
<1>. DEFINE f2 == [z \in A \ {a} |-> IF f[z] = y THEN f[a] ELSE f[z]]
<1>5. \A z \in A \ {a} : f2[z] = IF f[z] = y THEN f[a] ELSE f[z]
  OBVIOUS
<1>6. \A z \in A \ {a} : f2[z] \in (R \ {y}) \cup H
  BY <1>1, <1>5
<1>7. f2 \in [A \ {a} -> (R \ {y}) \cup H]
  BY <1>6
<1>. HIDE DEF f2
<1>8. \A u, v \in A \ {a} : f2[u] = f2[v] => u = v
  BY <1>1, <1>5
<1>9. \A u \in A \ {a}, v \in P : f2[u] # g[v]
  BY <1>1, <1>5
<1>. QED  BY <1>1, <1>4, <1>7, <1>8, <1>9 DEF Covered

(* Places that are equally far from some place are the same. *)
LEMMA SamePlace ==
  ASSUME NEW x \in OnItsWay, NEW y \in OnItsWay, NEW n \in Nat, x[2] = y[2],
         x[1] + n = y[1] + n \/ x[1] - n = y[1] - n
  PROVE  x = y
<1>1. x[1] \in Nat /\ y[1] \in Nat
  BY DEF OnItsWay
<1>2. x[1] = y[1]
  BY <1>1
<1>. QED  BY <1>2 DEF OnItsWay

(* A place in the shifted stream is one place of the old. *)
LEMMA ShiftedPlace ==
  ASSUME NEW S, S \subseteq OnItsWay, NEW n \in Nat
  PROVE  /\ \A z \in Shifted(S, n) : z[1] \in Nat /\ z[1] > n /\ <<z[1] - n, z[2]>> \in S
         /\ \A x \in S : <<x[1] + n, x[2]>> \in Shifted(S, n)
         /\ Shifted(S, n) \subseteq OnItsWay
<1>1. ASSUME NEW z \in Shifted(S, n)
      PROVE  z[1] \in Nat /\ z[1] > n /\ <<z[1] - n, z[2]>> \in S /\ z \in OnItsWay
  <2>1. PICK x \in S : z = <<x[1] + n, x[2]>>
    BY DEF Shifted
  <2>2. x[1] \in Nat /\ x[1] > 0 /\ x[2] \in Nat /\ x = <<x[1], x[2]>>
    BY DEF OnItsWay
  <2>3. z[1] = x[1] + n /\ z[2] = x[2]
    BY <2>1
  <2>4. z[1] - n = x[1]
    BY <2>2, <2>3
  <2>. QED  BY <2>1, <2>2, <2>3, <2>4 DEF OnItsWay
<1>2. \A x \in S : <<x[1] + n, x[2]>> \in Shifted(S, n)
  BY DEF Shifted
<1>. QED  BY <1>1, <1>2

(* A list of messages whose presses are let go of in the list, or by       *)
(* releases that are to be sent later on, may be put behind the stream.    *)
LEMMA DoAppended ==
  ASSUME NEW A, NEW P, NEW R, NEW H, Covered(A, P, R, H),
         P \subseteq OnItsWay, R \subseteq OnItsWay, \A z \in H : z[1] = 0,
         NEW n \in Nat, NEW P1, NEW R1, NEW H1, Covered({}, P1, R1, H1),
         P1 \subseteq OnItsWay, R1 \subseteq OnItsWay, \A z \in H1 : z[1] = 0,
         \A z \in P1 \cup R1 : z[1] <= n,
         NEW H2, H \subseteq H2, \A z \in H2 : z[1] = 0,
         NEW h \in [H1 -> H2], \A u, v \in H1 : h[u] = h[v] => u = v,
         \A u \in H1 : h[u] \notin H
  PROVE  Covered(A, Shifted(P, n) \cup P1, Shifted(R, n) \cup R1, H2)
<1>1. PICK f \in [A -> R \cup H], g \in [P -> R \cup H] :
        /\ \A u, v \in A : f[u] = f[v] => u = v
        /\ \A u, v \in P : g[u] = g[v] => u = v
        /\ \A u \in A, v \in P : f[u] # g[v]
        /\ \A u \in P : g[u][1] < u[1]
  BY DEF Covered
<1>2. PICK g1 \in [P1 -> R1 \cup H1] :
        /\ \A u, v \in P1 : g1[u] = g1[v] => u = v
        /\ \A u \in P1 : g1[u][1] < u[1]
  BY DEF Covered
<1>. DEFINE T2 == Shifted(R, n) \cup R1 \cup H2
            Old(y) == IF y \in R THEN <<y[1] + n, y[2]>> ELSE y
            New(y) == IF y \in R1 THEN y ELSE h[y]
            Back(x) == <<x[1] - n, x[2]>>
            f2 == [z \in A |-> Old(f[z])]
            g2 == [z \in Shifted(P, n) \cup P1 |-> IF z \in P1 THEN New(g1[z]) ELSE Old(g[Back(z)])]
<1>3. \A y \in R \cup H : /\ Old(y) \in Shifted(R, n) \cup H
                          /\ y \in R <=> Old(y)[1] > n
                          /\ y \in R => Old(y)[1] = y[1] + n
                          /\ y \notin R => Old(y) = y
  <2>1. \A y \in R : y[1] \in Nat /\ y[1] > 0 /\ Old(y) \in Shifted(R, n) /\ Old(y)[1] = y[1] + n /\ Old(y)[1] > n
    BY ShiftedPlace DEF OnItsWay
  <2>2. \A y \in H : y \notin R /\ Old(y) = y /\ ~ (Old(y)[1] > n)
    BY DEF OnItsWay
  <2>. QED  BY <2>1, <2>2
<1>4. \A y, z \in R \cup H : Old(y) = Old(z) => y = z
  <2>1. \A y, z \in R : Old(y) = Old(z) => y = z
    <3>. SUFFICES ASSUME NEW y \in R, NEW z \in R, Old(y) = Old(z)  PROVE y = z
      OBVIOUS
    <3>1. y[1] + n = z[1] + n /\ y[2] = z[2]
      OBVIOUS
    <3>. QED  BY <3>1, SamePlace
  <2>. QED  BY <1>3, <2>1
<1>5. \A y \in R1 \cup H1 : /\ New(y) \in R1 \cup H2 /\ New(y) \notin H
                            /\ New(y) \notin Shifted(R, n)
                            /\ y \in R1 => New(y) = y
                            /\ y \notin R1 => New(y)[1] = 0
  <2>1. \A z \in Shifted(R, n) : z[1] \in Nat /\ z[1] > n
    BY ShiftedPlace
  <2>2. \A y \in R1 : New(y) = y /\ y[1] # 0 /\ ~ (y[1] > n)
    BY DEF OnItsWay
  <2>3. \A y \in H1 : y \notin R1 /\ New(y) = h[y] /\ New(y) \in H2 /\ New(y)[1] = 0 /\ New(y) \notin H
    BY <2>2
  <2>4. \A y \in H1 : New(y) \notin Shifted(R, n)
    BY <2>1, <2>3
  <2>. QED  BY <2>1, <2>2, <2>3, <2>4
<1>6. \A y, z \in R1 \cup H1 : New(y) = New(z) => y = z
  BY <1>5 DEF OnItsWay
<1>7. \A z \in Shifted(P, n) : z \notin P1 /\ Back(z) \in P /\ z[1] = Back(z)[1] + n
  BY ShiftedPlace DEF OnItsWay
<1>8. \A x, z \in Shifted(P, n) : Back(x) = Back(z) => x = z
  <2>. SUFFICES ASSUME NEW x \in Shifted(P, n), NEW z \in Shifted(P, n), Back(x) = Back(z)  PROVE x = z
    OBVIOUS
  <2>1. x \in OnItsWay /\ z \in OnItsWay
    BY ShiftedPlace
  <2>2. x[1] - n = z[1] - n /\ x[2] = z[2]
    OBVIOUS
  <2>. QED  BY <2>1, <2>2, SamePlace
<1>. HIDE DEF Old, New, Back
<1>9. (\A z \in A : f2[z] = Old(f[z])) /\ f2 \in [A -> T2]
  BY <1>1, <1>3
<1>10. /\ \A z \in P1 : g2[z] = New(g1[z])
       /\ \A z \in Shifted(P, n) : g2[z] = Old(g[Back(z)])
  BY <1>7
<1>11. g2 \in [Shifted(P, n) \cup P1 -> T2]
  <2>1. \A z \in Shifted(P, n) \cup P1 : g2[z] \in T2
    BY <1>1, <1>2, <1>3, <1>5, <1>7, <1>10
  <2>. QED  BY <2>1
<1>. HIDE DEF f2, g2
<1>12. \A u, v \in A : f2[u] = f2[v] => u = v
  BY <1>1, <1>4, <1>9
<1>13. \A u, v \in Shifted(P, n) \cup P1 : g2[u] = g2[v] => u = v
  <2>1. \A u, v \in P1 : g2[u] = g2[v] => u = v
    BY <1>2, <1>6, <1>10
  <2>2. \A u, v \in Shifted(P, n) : g2[u] = g2[v] => u = v
    BY <1>1, <1>4, <1>7, <1>8, <1>10
  <2>3. \A u \in P1, v \in Shifted(P, n) : g2[u] # g2[v]
    BY <1>1, <1>2, <1>3, <1>5, <1>7, <1>10
  <2>. QED  BY <2>1, <2>2, <2>3
<1>14. \A u \in A, v \in Shifted(P, n) \cup P1 : f2[u] # g2[v]
  <2>1. \A u \in A, v \in Shifted(P, n) : f2[u] # g2[v]
    BY <1>1, <1>4, <1>7, <1>9, <1>10
  <2>2. \A u \in A, v \in P1 : f2[u] # g2[v]
    BY <1>1, <1>2, <1>3, <1>5, <1>9, <1>10
  <2>. QED  BY <2>1, <2>2
<1>15. \A z \in P1 : g2[z][1] < z[1]
  <2>. SUFFICES ASSUME NEW z \in P1 PROVE g2[z][1] < z[1]
    OBVIOUS
  <2>1. z[1] \in Nat /\ z[1] > 0 /\ g1[z] \in R1 \cup H1 /\ g1[z][1] < z[1] /\ g2[z] = New(g1[z])
    BY <1>2, <1>10 DEF OnItsWay
  <2>. QED  BY <1>5, <2>1
<1>16. \A z \in Shifted(P, n) : g2[z][1] < z[1]
  <2>. SUFFICES ASSUME NEW z \in Shifted(P, n) PROVE g2[z][1] < z[1]
    OBVIOUS
  <2>1. /\ Back(z) \in P /\ Back(z)[1] \in Nat /\ Back(z)[1] > 0 /\ z[1] = Back(z)[1] + n
        /\ g[Back(z)] \in R \cup H /\ g[Back(z)][1] < Back(z)[1] /\ g2[z] = Old(g[Back(z)])
    BY <1>1, <1>7, <1>10 DEF OnItsWay
  <2>2. g[Back(z)] \in R => g[Back(z)][1] \in Nat
    BY DEF OnItsWay
  <2>. QED  BY <1>3, <2>1, <2>2
<1>. QED  BY <1>9, <1>11, <1>12, <1>13, <1>14, <1>15, <1>16 DEF Covered

(* Releases that were to be sent are put behind the stream. *)
LEMMA UndoAppended ==
  ASSUME NEW A, NEW P, NEW R, NEW H, Covered(A, P, R, H),
         P \subseteq OnItsWay, R \subseteq OnItsWay, \A z \in H : z[1] = 0,
         NEW n \in Nat, NEW R1, R1 \subseteq OnItsWay, \A z \in R1 : z[1] <= n,
         NEW H1, NEW H2, H \subseteq H1 \cup H2, \A z \in H2 : z[1] = 0,
         NEW h \in [H1 -> R1], \A u, v \in H1 : h[u] = h[v] => u = v
  PROVE  Covered(A, Shifted(P, n), Shifted(R, n) \cup R1, H2)
<1>1. PICK f \in [A -> R \cup H], g \in [P -> R \cup H] :
        /\ \A u, v \in A : f[u] = f[v] => u = v
        /\ \A u, v \in P : g[u] = g[v] => u = v
        /\ \A u \in A, v \in P : f[u] # g[v]
        /\ \A u \in P : g[u][1] < u[1]
  BY DEF Covered
<1>. DEFINE T2 == Shifted(R, n) \cup R1 \cup H2
            Now(y) == IF y \in R THEN <<y[1] + n, y[2]>> ELSE IF y \in H2 THEN y ELSE h[y]
            Back(x) == <<x[1] - n, x[2]>>
            f2 == [z \in A |-> Now(f[z])]
            g2 == [z \in Shifted(P, n) |-> Now(g[Back(z)])]
<1>2. \A y \in R : /\ y \notin H2 /\ y[1] \in Nat
                   /\ Now(y) \in Shifted(R, n) /\ Now(y)[1] = y[1] + n /\ Now(y)[1] > n
  BY ShiftedPlace DEF OnItsWay
<1>3. \A y \in H : y \notin R /\ (y \notin H2 => y \in H1 /\ Now(y) \in R1)
                   /\ (y \in H2 => Now(y) = y) /\ Now(y)[1] <= n /\ Now(y) \in R1 \cup H2
  BY DEF OnItsWay
<1>4. \A y \in R \cup H : Now(y) \in T2
  BY <1>2, <1>3
<1>5. \A y, z \in R \cup H : Now(y) = Now(z) => y = z
  <2>1. \A y, z \in R : Now(y) = Now(z) => y = z
    <3>. SUFFICES ASSUME NEW y \in R, NEW z \in R, Now(y) = Now(z)  PROVE y = z
      OBVIOUS
    <3>1. y[1] + n = z[1] + n /\ y[2] = z[2]
      OBVIOUS
    <3>. QED  BY <3>1, SamePlace
  <2>2. \A y \in R, z \in H : Now(y) # Now(z)
    <3>1. \A y \in R : Now(y)[1] \in Nat /\ Now(y)[1] > n
      <4>. SUFFICES ASSUME NEW y \in R PROVE Now(y)[1] \in Nat /\ Now(y)[1] > n
        OBVIOUS
      <4>1. y[1] \in Nat /\ Now(y)[1] = y[1] + n /\ Now(y)[1] > n
        BY <1>2
      <4>. HIDE DEF Now
      <4>. QED  BY <4>1
    <3>2. \A z \in H : Now(z)[1] <= n
      BY <1>3
    <3>. HIDE DEF Now
    <3>3. \A y \in R, z \in H : Now(y)[1] # Now(z)[1]
      BY <3>1, <3>2
    <3>. QED  BY <3>3
  <2>3. \A y, z \in H : Now(y) = Now(z) => y = z
    <3>1. \A y \in H, z \in H : y \in H2 /\ z \notin H2 => Now(y) # Now(z)
      BY <1>3 DEF OnItsWay
    <3>2. \A y \in H : y \notin H2 => Now(y) = h[y] /\ y \in H1
      BY <1>3
    <3>. QED  BY <1>3, <3>1, <3>2
  <2>. QED  BY <2>1, <2>2, <2>3
<1>6. \A z \in Shifted(P, n) : Back(z) \in P /\ z[1] = Back(z)[1] + n
  BY ShiftedPlace DEF OnItsWay
<1>7. \A x, z \in Shifted(P, n) : Back(x) = Back(z) => x = z
  <2>. SUFFICES ASSUME NEW x \in Shifted(P, n), NEW z \in Shifted(P, n), Back(x) = Back(z)  PROVE x = z
    OBVIOUS
  <2>1. x \in OnItsWay /\ z \in OnItsWay
    BY ShiftedPlace
  <2>2. x[1] - n = z[1] - n /\ x[2] = z[2]
    OBVIOUS
  <2>. QED  BY <2>1, <2>2, SamePlace
<1>. HIDE DEF Now, Back
<1>8. (\A z \in A : f2[z] = Now(f[z])) /\ f2 \in [A -> T2]
  BY <1>1, <1>4
<1>9. (\A z \in Shifted(P, n) : g2[z] = Now(g[Back(z)])) /\ g2 \in [Shifted(P, n) -> T2]
  BY <1>1, <1>4, <1>6
<1>. HIDE DEF f2, g2
<1>10. \A u, v \in A : f2[u] = f2[v] => u = v
  BY <1>1, <1>5, <1>8
<1>11. \A u, v \in Shifted(P, n) : g2[u] = g2[v] => u = v
  BY <1>1, <1>5, <1>6, <1>7, <1>9
<1>12. \A u \in A, v \in Shifted(P, n) : f2[u] # g2[v]
  BY <1>1, <1>5, <1>6, <1>8, <1>9
<1>13. \A z \in Shifted(P, n) : g2[z][1] < z[1]
  <2>. SUFFICES ASSUME NEW z \in Shifted(P, n) PROVE g2[z][1] < z[1]
    OBVIOUS
  <2>1. /\ Back(z) \in P /\ Back(z)[1] \in Nat /\ Back(z)[1] > 0 /\ z[1] = Back(z)[1] + n
        /\ g[Back(z)] \in R \cup H /\ g[Back(z)][1] < Back(z)[1] /\ g2[z] = Now(g[Back(z)])
    BY <1>1, <1>6, <1>9 DEF OnItsWay
  <2>2. g[Back(z)] \in H => Now(g[Back(z)])[1] \in Nat /\ Now(g[Back(z)])[1] <= n
    BY <1>3 DEF OnItsWay
  <2>. QED  BY <1>2, <2>1, <2>2
<1>. QED  BY <1>8, <1>9, <1>10, <1>11, <1>12, <1>13 DEF Covered
-----------------------------------------------------------------------------
(* The codes message m presses (`down') or releases (`up'), in order; the  *)
(* mouse buttons count as codes from 256 on.                               *)
KeyType    == [down |-> "PRESS", up |-> "RELEASE"]
ButtonType == [down |-> "MOUSE_CLICK", up |-> "MOUSE_RELEASE"]

Codes(way, m) ==
  IF m.type = KeyType[way] THEN m.codes
  ELSE IF m.type = ButtonType[way] THEN <<256 + m.mouse_click>> ELSE <<>>

Numbers == Seq(Nat)

(* A message in the queue, or the rest of the one being applied. *)
StreamMessage ==
  QueueMessage \cup [type : {"NONE", "PRESS", "RELEASE", "MOUSE_SCROLL_LEFT_RIGHT"},
                     codes : CodeList]

(* A place. *)
Spot(d, e) == <<d, e>>

(* A message alone, and one put in front of a stream. *)
One(m)      == <<m>>
Front(m, s) == One(m) \o s

(* Where stream s presses or releases t: how far from its end, and from    *)
(* the end of the codes of that message.                                   *)
Places(way, s, t) ==
  {x \in (1 .. Len(s)) \X Nat :
     LET c == Codes(way, s[Len(s) + 1 - x[1]]) IN x[2] < Len(c) /\ c[Len(c) - x[2]] = t}

LEMMA CodesType ==
  ASSUME NEW m \in StreamMessage, NEW way \in {"down", "up"}
  PROVE  Codes(way, m) \in Numbers
<1>1. m.type = KeyType[way] => m.codes \in Seq(Nat)
  <2>1. CASE m \in KeyEvent \/ m \in StreamMessage \ QueueMessage
    <3>1. m.codes \in Seq(Code) /\ Code \subseteq Nat
      BY <2>1 DEF StreamMessage, KeyEvent, CodeList, Code
    <3>. QED  BY <3>1, SeqMonotonic
  <2>2. CASE m \in ButtonEvent \cup LayerEvent \cup PlainEvent
    BY <2>2 DEF ButtonEvent, LayerEvent, PlainEvent, MotionType, KeyType
  <2>. QED  BY <2>1, <2>2 DEF StreamMessage, QueueMessage
<1>2. m.type = ButtonType[way] => 256 + m.mouse_click \in Nat
  <2>1. CASE m \in ButtonEvent
    BY <2>1 DEF ButtonEvent, Bit
  <2>2. CASE m \in KeyEvent \cup LayerEvent \cup PlainEvent
    BY <2>2 DEF KeyEvent, LayerEvent, PlainEvent, MotionType, ButtonType
  <2>3. CASE m \in StreamMessage \ QueueMessage
    BY <2>3 DEF StreamMessage, ButtonType
  <2>. QED  BY <2>1, <2>2, <2>3 DEF StreamMessage, QueueMessage
<1>3. m.type = ButtonType[way] => <<256 + m.mouse_click>> \in Seq(Nat)
  BY <1>2
<1>. QED  BY <1>1, <1>3 DEF Codes, Numbers

(* They are places in the stream. *)
LEMMA PlacesOnWay ==
  ASSUME NEW way, NEW s \in Seq(StreamMessage), NEW t
  PROVE  Places(way, s, t) \subseteq OnItsWay /\ \A x \in Places(way, s, t) : x[1] <= Len(s)
BY DEF Places, OnItsWay

(* What is put behind a stream pushes its places away from the end. *)
LEMMA PlacesConcat ==
  ASSUME NEW way, NEW s \in Seq(StreamMessage), NEW u \in Seq(StreamMessage), NEW t
  PROVE  Places(way, s \o u, t) = Shifted(Places(way, s, t), Len(u)) \cup Places(way, u, t)
<1>1. /\ Len(s) \in Nat /\ Len(u) \in Nat
      /\ s \o u \in Seq(StreamMessage) /\ Len(s \o u) = Len(s) + Len(u)
      /\ \A i \in 1 .. Len(s) + Len(u) : (s \o u)[i] = IF i <= Len(s) THEN s[i] ELSE u[i - Len(s)]
  BY ConcatProperties
<1>. DEFINE At(w, d) == w[Len(w) + 1 - d]
<1>2. \A d \in 1 .. Len(u) : At(s \o u, d) = At(u, d)
  <2>. TAKE d \in 1 .. Len(u)
  <2>1. /\ Len(s) + Len(u) + 1 - d \in 1 .. Len(s) + Len(u)
        /\ ~ (Len(s) + Len(u) + 1 - d <= Len(s))
        /\ Len(s) + Len(u) + 1 - d - Len(s) = Len(u) + 1 - d
    BY <1>1
  <2>. QED  BY <1>1, <2>1
<1>3. \A d \in 1 .. Len(s) : At(s \o u, d + Len(u)) = At(s, d)
  <2>. TAKE d \in 1 .. Len(s)
  <2>1. /\ Len(s) + Len(u) + 1 - (d + Len(u)) \in 1 .. Len(s) + Len(u)
        /\ Len(s) + Len(u) + 1 - (d + Len(u)) <= Len(s)
        /\ Len(s) + Len(u) + 1 - (d + Len(u)) = Len(s) + 1 - d
    BY <1>1
  <2>. QED  BY <1>1, <2>1
<1>. DEFINE Hit(w, d, e) == e < Len(Codes(way, At(w, d))) /\ Codes(way, At(w, d))[Len(Codes(way, At(w, d))) - e] = t
<1>4. \A w : Places(way, w, t) = {x \in (1 .. Len(w)) \X Nat : Hit(w, x[1], x[2])}
  BY Zenon DEF Places
<1>5. /\ \A d \in 1 .. Len(u), e \in Nat : Hit(s \o u, d, e) <=> Hit(u, d, e)
      /\ \A d \in 1 .. Len(s), e \in Nat : Hit(s \o u, d + Len(u), e) <=> Hit(s, d, e)
  BY <1>2, <1>3, Zenon
<1>. HIDE DEF Hit
<1>6. ASSUME NEW x \in Places(way, s \o u, t)
      PROVE  x \in Shifted(Places(way, s, t), Len(u)) \cup Places(way, u, t)
  <2>1. x \in (1 .. Len(s) + Len(u)) \X Nat /\ Hit(s \o u, x[1], x[2])
    <3>1. x \in {y \in (1 .. Len(s \o u)) \X Nat : Hit(s \o u, y[1], y[2])}
      BY <1>4, Zenon
    <3>2. Len(s \o u) = Len(s) + Len(u)
      BY <1>1, Zenon
    <3>. QED  BY <3>1, <3>2, Zenon
  <2>2. CASE x[1] <= Len(u)
    <3>1. x[1] \in 1 .. Len(u) /\ x[2] \in Nat
      BY <1>1, <2>1, <2>2
    <3>. QED  BY <1>4, <1>5, <2>1, <3>1
  <2>3. CASE ~ (x[1] <= Len(u))
    <3>1. x[1] - Len(u) \in 1 .. Len(s) /\ x[1] = (x[1] - Len(u)) + Len(u) /\ x[2] \in Nat
      BY <1>1, <2>1, <2>3
    <3>2. Hit(s, x[1] - Len(u), x[2])
      BY <1>5, <2>1, <3>1
    <3>. DEFINE z == <<x[1] - Len(u), x[2]>>
    <3>3. z \in (1 .. Len(s)) \X Nat /\ Hit(s, z[1], z[2])
      BY <3>1, <3>2
    <3>4. z \in Places(way, s, t)
      BY <1>4, <3>3
    <3>5. x = <<z[1] + Len(u), z[2]>>
      BY <2>1, <3>1
    <3>. QED  BY <3>4, <3>5 DEF Shifted
  <2>. QED  BY <2>2, <2>3
<1>7. Places(way, u, t) \subseteq Places(way, s \o u, t)
  <2>. SUFFICES ASSUME NEW x \in Places(way, u, t)  PROVE x \in Places(way, s \o u, t)
    OBVIOUS
  <2>1. x \in (1 .. Len(u)) \X Nat /\ Hit(u, x[1], x[2])
    BY <1>4
  <2>2. x \in (1 .. Len(s \o u)) \X Nat /\ Hit(s \o u, x[1], x[2])
    BY <1>1, <1>5, <2>1
  <2>. QED  BY <1>4, <2>2
<1>8. Shifted(Places(way, s, t), Len(u)) \subseteq Places(way, s \o u, t)
  <2>. SUFFICES ASSUME NEW z \in Places(way, s, t)  PROVE <<z[1] + Len(u), z[2]>> \in Places(way, s \o u, t)
    BY DEF Shifted
  <2>1. z \in (1 .. Len(s)) \X Nat /\ Hit(s, z[1], z[2])
    BY <1>4
  <2>. DEFINE x == <<z[1] + Len(u), z[2]>>
  <2>2. z[1] + Len(u) \in 1 .. Len(s \o u) /\ z[2] \in Nat /\ Hit(s \o u, z[1] + Len(u), z[2])
    BY <1>1, <1>5, <2>1
  <2>3. x \in (1 .. Len(s \o u)) \X Nat /\ Hit(s \o u, x[1], x[2])
    BY <2>2
  <2>. QED  BY <1>4, <2>3
<1>. QED  BY <1>6, <1>7, <1>8

(* A message without codes presses and releases nothing. *)
LEMMA PlacesOfCodeless ==
  ASSUME NEW way, NEW m, Codes(way, m) = <<>>, NEW t
  PROVE  Places(way, One(m), t) = {}
<1>1. Len(One(m)) = 1 /\ \A d \in 1 .. 1 : One(m)[1 + 1 - d] = m
  BY DEF One
<1>. QED  BY <1>1 DEF Places

(* The next code of a message has the last of its places. *)
LEMMA FirstPlace ==
  ASSUME NEW way, NEW m, NEW t, Codes(way, m) \in Numbers, Codes(way, m) # <<>>,
         NEW n, n = Len(Codes(way, m)) - 1
  PROVE  Spot(1, n) \in Places(way, One(m), t) <=> Codes(way, m)[1] = t
<1>. DEFINE c == Codes(way, m)
<1>1. n \in Nat /\ n < Len(c) /\ Len(c) - n = 1
  BY LenProperties DEF Numbers
<1>2. Len(One(m)) = 1 /\ \A d \in 1 .. 1 : d = 1 /\ One(m)[1 + 1 - d] = m
  BY DEF One
<1>3. Places(way, One(m), t) = {x \in (1 .. 1) \X Nat : x[2] < Len(c) /\ c[Len(c) - x[2]] = t}
  BY <1>2 DEF Places
<1>. HIDE DEF c
<1>4. Spot(1, n) \in (1 .. 1) \X Nat /\ Spot(1, n)[2] = n
  BY <1>1 DEF Spot
<1>5. Spot(1, n) \in Places(way, One(m), t) <=> c[1] = t
  BY <1>1, <1>3, <1>4
<1>. QED  BY <1>5 DEF c

(* It goes with the code. *)
LEMMA PlacesOfNext ==
  ASSUME NEW way, NEW m, NEW m2, NEW t,
         Codes(way, m) \in Numbers, Codes(way, m) # <<>>, Codes(way, m2) = Tail(Codes(way, m)),
         NEW n, n = Len(Codes(way, m)) - 1
  PROVE  /\ n \in Nat
         /\ Places(way, One(m2), t) = Places(way, One(m), t) \ {Spot(1, n)}
<1>. DEFINE c == Codes(way, m)
<1>1. /\ n \in Nat /\ Len(c) = n + 1 /\ Len(Tail(c)) = n /\ Head(c) = c[1]
      /\ \A i \in 1 .. n : Tail(c)[i] = c[i + 1]
      /\ Codes(way, m2) = Tail(c)
  BY HeadTailProperties, LenProperties DEF Numbers
<1>2. /\ Len(One(m)) = 1 /\ Len(One(m2)) = 1
      /\ \A d \in 1 .. 1 : d = 1 /\ One(m)[1 + 1 - d] = m /\ One(m2)[1 + 1 - d] = m2
  BY DEF One
<1>3. Places(way, One(m), t) = {x \in (1 .. 1) \X Nat : x[2] < Len(c) /\ c[Len(c) - x[2]] = t}
  BY <1>2 DEF Places
<1>. HIDE DEF c
<1>4. Places(way, One(m2), t) = {x \in (1 .. 1) \X Nat : x[2] < n /\ Tail(c)[n - x[2]] = t}
  <2>1. Places(way, One(m2), t) = {x \in (1 .. 1) \X Nat :
          x[2] < Len(Codes(way, m2)) /\ Codes(way, m2)[Len(Codes(way, m2)) - x[2]] = t}
    BY <1>2 DEF Places
  <2>. QED  BY <1>1, <2>1
<1>5. \A e \in Nat : e < n => e < Len(c) /\ n - e \in 1 .. n /\ Tail(c)[n - e] = c[Len(c) - e]
  <2>. TAKE e \in Nat
  <2>. HAVE e < n
  <2>1. n - e \in 1 .. n /\ (n - e) + 1 = Len(c) - e /\ e < Len(c)
    BY <1>1
  <2>. QED  BY <1>1, <2>1
<1>6. \A e \in Nat : e < Len(c) <=> e < n \/ e = n
  BY <1>1
<1>7. Places(way, One(m2), t) = Places(way, One(m), t) \ {Spot(1, n)}
  <2>1. \A x \in (1 .. 1) \X Nat : x = Spot(1, n) <=> x[2] = n
    BY <1>1 DEF Spot
  <2>2. \A x \in (1 .. 1) \X Nat : x[2] < n => x[2] # n
    BY <1>1
  <2>. QED  BY <1>3, <1>4, <1>5, <1>6, <2>1, <2>2
<1>. QED  BY <1>1, <1>7 DEF c

(* A message put in front of a stream. *)
LEMMA PlacesOfFront ==
  ASSUME NEW way, NEW m \in StreamMessage, NEW s \in Seq(StreamMessage), NEW t
  PROVE  Places(way, Front(m, s), t) = Shifted(Places(way, One(m), t), Len(s)) \cup Places(way, s, t)
<1>1. One(m) \in Seq(StreamMessage)
  BY DEF One
<1>. QED  BY <1>1, PlacesConcat DEF Front

(* A message without codes in front of a stream changes nothing. *)
LEMMA CodelessFront ==
  ASSUME NEW way, NEW m \in StreamMessage, NEW s \in Seq(StreamMessage), NEW t, Codes(way, m) = <<>>
  PROVE  Places(way, Front(m, s), t) = Places(way, s, t)
<1>1. Places(way, One(m), t) = {}
  BY PlacesOfCodeless
<1>2. Shifted({}, Len(s)) = {}
  BY DEF Shifted
<1>3. Places(way, Front(m, s), t) = Shifted(Places(way, One(m), t), Len(s)) \cup Places(way, s, t)
  BY PlacesOfFront
<1>. QED  BY <1>1, <1>2, <1>3

(* The next code of the message in front is the first of the stream. *)
LEMMA NextOfFront ==
  ASSUME NEW way, NEW m \in StreamMessage, NEW m2 \in StreamMessage, NEW s \in Seq(StreamMessage), NEW t,
         Codes(way, m) \in Numbers, Codes(way, m) # <<>>, Codes(way, m2) = Tail(Codes(way, m)),
         NEW e, e = Len(Codes(way, m)) - 1, NEW x, x = Spot(1 + Len(s), e)
  PROVE  /\ Places(way, Front(m2, s), t) = Places(way, Front(m, s), t) \ {x}
         /\ x \in Places(way, Front(m, s), t) <=> Codes(way, m)[1] = t
<1>. DEFINE A == Places(way, One(m), t)
            B == Places(way, s, t)
<1>1. Len(s) \in Nat /\ x = Spot(1 + Len(s), e) /\ e \in Nat
  BY LenProperties DEF Numbers
<1>2. /\ Places(way, One(m2), t) = A \ {Spot(1, e)}
      /\ Spot(1, e) \in A <=> Codes(way, m)[1] = t
  <2>1. Places(way, One(m2), t) = Places(way, One(m), t) \ {Spot(1, e)}
    BY PlacesOfNext
  <2>2. Spot(1, e) \in Places(way, One(m), t) <=> Codes(way, m)[1] = t
    BY FirstPlace
  <2>. QED  BY <2>1, <2>2
<1>3. /\ Places(way, Front(m, s), t) = Shifted(A, Len(s)) \cup B
      /\ Places(way, Front(m2, s), t) = Shifted(A \ {Spot(1, e)}, Len(s)) \cup B
  <2>1. Places(way, Front(m, s), t) = Shifted(Places(way, One(m), t), Len(s)) \cup Places(way, s, t)
    BY PlacesOfFront
  <2>2. Places(way, Front(m2, s), t) = Shifted(Places(way, One(m2), t), Len(s)) \cup Places(way, s, t)
    BY PlacesOfFront
  <2>. QED  BY <1>2, <2>1, <2>2
<1>4. A \subseteq OnItsWay /\ x \notin B
  <2>1. A \subseteq OnItsWay /\ \A z \in B : z[1] <= Len(s)
    <3>1. One(m) \in Seq(StreamMessage)
      BY DEF One
    <3>. QED  BY <3>1, PlacesOnWay
  <2>2. ~ (x[1] <= Len(s))
    BY <1>1 DEF Spot
  <2>. QED  BY <2>1, <2>2
<1>. HIDE DEF A, B
<1>5. \A z \in A : <<z[1] + Len(s), z[2]>> = x <=> z = Spot(1, e)
  <2>. TAKE z \in A
  <2>1. z \in OnItsWay /\ Spot(1, e) \in OnItsWay
    BY <1>1, <1>4 DEF OnItsWay, Spot
  <2>2. ASSUME <<z[1] + Len(s), z[2]>> = x  PROVE z = Spot(1, e)
    <3>1. z[1] + Len(s) = Spot(1, e)[1] + Len(s) /\ z[2] = Spot(1, e)[2]
      BY <1>1, <2>2 DEF Spot
    <3>. QED  BY <1>1, <2>1, <3>1, SamePlace
  <2>3. z = Spot(1, e) => <<z[1] + Len(s), z[2]>> = x
    BY <1>1 DEF Spot
  <2>. QED  BY <2>2, <2>3
<1>6. Shifted(A \ {Spot(1, e)}, Len(s)) = Shifted(A, Len(s)) \ {x}
  BY <1>5 DEF Shifted
<1>7. x \in Shifted(A, Len(s)) <=> Spot(1, e) \in A
  BY <1>5 DEF Shifted
<1>8. (Shifted(A, Len(s)) \ {x}) \cup B = (Shifted(A, Len(s)) \cup B) \ {x}
  BY <1>4
<1>. QED  BY <1>2, <1>3, <1>4, <1>6, <1>7, <1>8 DEF A, B

-----------------------------------------------------------------------------
(* What a step of the sender or of the receiver does to the stream, and to *)
(* the places that hold.                                                   *)
LEMMA NothingCovered == ASSUME NEW R, NEW H  PROVE Covered({}, {}, R, H)
<1>. DEFINE f == [x \in {} |-> x]
<1>1. f \in [{} -> R \cup H]
  OBVIOUS
<1>. HIDE DEF f
<1>. QED  BY <1>1 DEF Covered

LEMMA OneCode ==
  ASSUME NEW c \in Nat, NEW way, NEW m, Codes(way, m) = <<c>>, NEW m2, Codes(way, m2) = <<>>
  PROVE  /\ Codes(way, m) \in Numbers /\ Codes(way, m) # <<>> /\ Codes(way, m)[1] = c
         /\ Codes(way, m2) = Tail(Codes(way, m))
<1>1. <<c>> \in Seq(Nat) /\ <<c>> # <<>> /\ <<c>>[1] = c /\ Len(<<c>>) = 1
  OBVIOUS
<1>2. Tail(<<c>>) \in Seq(Nat) /\ Len(Tail(<<c>>)) = 0
  BY <1>1, HeadTailProperties
<1>3. Tail(<<c>>) = <<>>
  BY <1>2, EmptySeq
<1>. QED  BY <1>1, <1>3 DEF Numbers

(* The head of a queue is in front of what else is on its way. *)
LEMMA QueueFront ==
  ASSUME NEW q \in Seq(StreamMessage), q # <<>>, NEW u \in Seq(StreamMessage)
  PROVE  /\ q \o u = Front(Head(q), Tail(q) \o u)
         /\ Head(q) \in StreamMessage /\ Tail(q) \o u \in Seq(StreamMessage)
<1>1. Head(q) \in StreamMessage /\ Tail(q) \in Seq(StreamMessage)
  BY HeadTailProperties
<1>2. q = One(Head(q)) \o Tail(q)
  BY HeadTailProperties DEF One
<1>3. One(Head(q)) \in Seq(StreamMessage)
  BY <1>1 DEF One
<1>4. (One(Head(q)) \o Tail(q)) \o u = One(Head(q)) \o (Tail(q) \o u)
  BY <1>1, <1>3, ConcatAssociative
<1>5. Tail(q) \o u \in Seq(StreamMessage)
  BY <1>1, ConcatProperties
<1>. QED  BY <1>1, <1>2, <1>4, <1>5 DEF Front

(* The receiver gets nothing to press or release from a message. *)
LEMMA IdleStep ==
  ASSUME NEW m \in StreamMessage, NEW m2 \in StreamMessage, NEW s \in Seq(StreamMessage), NEW t,
         NEW way, Codes(way, m2) = Codes(way, m)
  PROVE  Places(way, Front(m2, s), t) = Places(way, Front(m, s), t)
<1>1. Places(way, One(m2), t) = Places(way, One(m), t)
  <2>1. /\ Len(One(m)) = 1 /\ Len(One(m2)) = 1
        /\ \A d \in 1 .. 1 : One(m)[1 + 1 - d] = m /\ One(m2)[1 + 1 - d] = m2
    BY DEF One
  <2>. QED  BY <2>1 DEF Places
<1>2. Places(way, Front(m, s), t) = Shifted(Places(way, One(m), t), Len(s)) \cup Places(way, s, t)
  BY PlacesOfFront
<1>3. Places(way, Front(m2, s), t) = Shifted(Places(way, One(m2), t), Len(s)) \cup Places(way, s, t)
  BY PlacesOfFront
<1>. QED  BY <1>1, <1>2, <1>3

(* The receiver presses the next code c of a message, or drops it. *)
LEMMA PressStep ==
  ASSUME NEW m \in StreamMessage, NEW m2 \in StreamMessage, NEW s \in Seq(StreamMessage), NEW t,
         Codes("down", m) \in Numbers, Codes("down", m) # <<>>,
         Codes("down", m2) = Tail(Codes("down", m)), Codes("up", m2) = Codes("up", m),
         NEW A, NEW H, Covered(A, Places("down", Front(m, s), t), Places("up", Front(m, s), t), H),
         NEW A2, Codes("down", m)[1] = t => \E a : A2 \subseteq A \cup {a},
         Codes("down", m)[1] # t => A2 \subseteq A
  PROVE  Covered(A2, Places("down", Front(m2, s), t), Places("up", Front(m2, s), t), H)
<1>1. Places("up", Front(m2, s), t) = Places("up", Front(m, s), t)
  BY IdleStep
<1>2. PICK e : e = Len(Codes("down", m)) - 1
  OBVIOUS
<1>3. PICK x : x = Spot(1 + Len(s), e)
  OBVIOUS
<1>4. /\ Places("down", Front(m2, s), t) = Places("down", Front(m, s), t) \ {x}
      /\ x \in Places("down", Front(m, s), t) <=> Codes("down", m)[1] = t
  BY <1>2, <1>3, NextOfFront
<1>. DEFINE P == Places("down", Front(m, s), t)
            R == Places("up", Front(m, s), t)
<1>5. CASE Codes("down", m)[1] = t
  <2>1. PICK a : A2 \subseteq A \cup {a}
    BY <1>5
  <2>2. x \in P /\ Covered(A, P, R, H)
    BY <1>4, <1>5
  <2>. HIDE DEF P, R
  <2>3. Covered(A2, P \ {x}, R, H)
    BY <2>1, <2>2, PressTaken
  <2>. QED  BY <1>1, <1>4, <2>3 DEF P, R
<1>6. CASE Codes("down", m)[1] # t
  <2>1. Covered(A, P, R, H) /\ A2 \subseteq A
    BY <1>6
  <2>2. P \ {x} \subseteq P /\ H \subseteq H
    OBVIOUS
  <2>. HIDE DEF P, R
  <2>3. Covered(A2, P \ {x}, R, H)
    BY <2>1, <2>2, CoveredWeaker
  <2>. QED  BY <1>1, <1>4, <2>3 DEF P, R
<1>. QED  BY <1>5, <1>6

(* The receiver releases the next code of a message where it finds it. *)
LEMMA ReleaseStep ==
  ASSUME NEW m \in StreamMessage, NEW m2 \in StreamMessage, NEW s \in Seq(StreamMessage), NEW t,
         Codes("up", m) \in Numbers, Codes("up", m) # <<>>,
         Codes("up", m2) = Tail(Codes("up", m)), Codes("down", m2) = Codes("down", m),
         NEW A, NEW H, Covered(A, Places("down", Front(m, s), t), Places("up", Front(m, s), t), H),
         \A z \in H : z[1] = 0,
         NEW A2, Codes("up", m)[1] = t => \E a : A2 = A \ {a} /\ (a \in A \/ A = {}),
         Codes("up", m)[1] # t => A2 = A
  PROVE  Covered(A2, Places("down", Front(m2, s), t), Places("up", Front(m2, s), t), H)
<1>1. Places("down", Front(m2, s), t) = Places("down", Front(m, s), t)
  BY IdleStep
<1>2. PICK e : e = Len(Codes("up", m)) - 1
  OBVIOUS
<1>3. PICK x : x = Spot(1 + Len(s), e)
  OBVIOUS
<1>4. /\ Places("up", Front(m2, s), t) = Places("up", Front(m, s), t) \ {x}
      /\ x \in Places("up", Front(m, s), t) <=> Codes("up", m)[1] = t
  BY <1>2, <1>3, NextOfFront
<1>. DEFINE P == Places("down", Front(m, s), t)
            R == Places("up", Front(m, s), t)
<1>5. CASE Codes("up", m)[1] = t
  <2>0. PICK a : A2 = A \ {a} /\ (a \in A \/ A = {})
    BY <1>5
  <2>1. x \in R /\ Covered(A, P, R, H)
    BY <1>4, <1>5
  <2>2. One(m) \in Seq(StreamMessage) /\ Len(One(m)) = 1
    BY DEF One
  <2>3. Front(m, s) \in Seq(StreamMessage) /\ Len(Front(m, s)) = 1 + Len(s)
    BY <2>2, ConcatProperties DEF Front
  <2>4. P \subseteq OnItsWay /\ R \subseteq OnItsWay /\ \A z \in P : z[1] <= 1 + Len(s)
    BY <2>3, PlacesOnWay
  <2>5. \A z \in P : z[1] <= x[1]
    BY <1>3, <2>4 DEF Spot
  <2>. HIDE DEF P, R
  <2>6. Covered(A \ {a}, P, R \ {x}, H)
    BY <2>0, <2>1, <2>4, <2>5, ReleaseTaken
  <2>. QED  BY <1>1, <1>4, <2>0, <2>6 DEF P, R
<1>6. CASE Codes("up", m)[1] # t
  <2>1. R \ {x} = R
    BY <1>4, <1>6
  <2>. QED  BY <1>1, <1>4, <1>6, <2>1
<1>. QED  BY <1>5, <1>6

(* What the sender puts behind the stream. *)
LEMMA PlacesBehind ==
  ASSUME NEW m \in StreamMessage, NEW s \in Seq(StreamMessage), NEW u \in Seq(StreamMessage),
         NEW way, NEW t
  PROVE  Places(way, Front(m, s \o u), t)
           = Shifted(Places(way, Front(m, s), t), Len(u)) \cup Places(way, u, t)
<1>1. One(m) \in Seq(StreamMessage)
  BY DEF One
<1>2. Front(m, s) \in Seq(StreamMessage)
  BY <1>1, ConcatProperties DEF Front
<1>3. Front(m, s \o u) = Front(m, s) \o u
  BY <1>1, ConcatAssociative DEF Front
<1>4. Places(way, Front(m, s) \o u, t)
        = Shifted(Places(way, Front(m, s), t), Len(u)) \cup Places(way, u, t)
  BY <1>2, PlacesConcat
<1>. QED  BY <1>3, <1>4

-----------------------------------------------------------------------------
(* Presses that are let go of one by one: by what is sent later on, or by  *)
(* the message behind them.                                                *)
LEMMA LetGoLater ==
  ASSUME NEW X, X \subseteq OnItsWay, NEW R
  PROVE  Covered({}, X, R, {0} \X X)
<1>. DEFINE f == [x \in {} |-> x]
            g == [x \in X |-> <<0, x>>]
<1>1. f \in [{} -> R \cup ({0} \X X)] /\ g \in [X -> R \cup ({0} \X X)]
  OBVIOUS
<1>2. \A x \in X : g[x] = <<0, x>> /\ g[x][1] = 0 /\ g[x][2] = x
  OBVIOUS
<1>3. \A x \in X : 0 < x[1]
  BY DEF OnItsWay
<1>. HIDE DEF f, g
<1>4. \A x, y \in X : g[x] = g[y] => x = y
  BY <1>2
<1>5. \A x \in X : g[x][1] < x[1]
  BY <1>2, <1>3
<1>. QED  BY <1>1, <1>4, <1>5 DEF Covered

LEMMA LetGoNext ==
  ASSUME NEW X, X \subseteq OnItsWay, NEW H
  PROVE  Covered({}, Shifted(X, 1), X, H)
<1>. DEFINE P == Shifted(X, 1)
            f == [x \in {} |-> x]
            g == [x \in P |-> <<x[1] - 1, x[2]>>]
<1>1. \A x \in P : x[1] \in Nat /\ x[1] > 1 /\ <<x[1] - 1, x[2]>> \in X /\ x \in OnItsWay
  BY ShiftedPlace
<1>2. f \in [{} -> X \cup H] /\ g \in [P -> X \cup H]
  BY <1>1
<1>3. \A x \in P : g[x] = <<x[1] - 1, x[2]>>
  OBVIOUS
<1>. HIDE DEF f, g, P
<1>4. \A x, y \in P : g[x] = g[y] => x = y
  <2>. SUFFICES ASSUME NEW x \in P, NEW y \in P, g[x] = g[y]  PROVE x = y
    OBVIOUS
  <2>1. x[1] - 1 = y[1] - 1 /\ x[2] = y[2]
    BY <1>3
  <2>. QED  BY <1>1, <2>1, SamePlace
<1>5. \A x \in P : g[x][1] < x[1]
  BY <1>1, <1>3
<1>. QED  BY <1>2, <1>4, <1>5 DEF Covered, P

(* Messages with the same codes press and release in the same places. *)
LEMMA SamePlaces ==
  ASSUME NEW w1, NEW w2, NEW m, NEW m2, Codes(w1, m) = Codes(w2, m2), NEW t
  PROVE  Places(w1, One(m), t) = Places(w2, One(m2), t)
<1>1. /\ Len(One(m)) = 1 /\ Len(One(m2)) = 1
      /\ \A d \in 1 .. 1 : One(m)[1 + 1 - d] = m /\ One(m2)[1 + 1 - d] = m2
  BY DEF One
<1>. QED  BY <1>1 DEF Places
-----------------------------------------------------------------------------

(* Keys, modifiers and, from 256 on, mouse buttons. *)
Thing == 1 .. 263

(* The places of the reports that hold t. *)
Held(t) ==
  IF t > 255 THEN {z \in {0} : t - 256 \in mouse_buttons}
  ELSE IF t \in ModifierCode THEN {z \in {0} : ModifierBit(t) \in modifer}
  ELSE {s \in Hid!Slot : keycode[s] = t}

(* All that is on its way to the reports. *)
Queued == eventQueue \o sends
Stream == Front(msg, Queued)

-----------------------------------------------------------------------------
LayerOf(l)   == IF l \in DOMAIN Layers THEN Layers[l] ELSE Key!EmptyLayer
Do(l, k, op) == Key!LayerEnqueue(LayerOf(l), k, op, "DO")
Undo(k, op)  == Key!LayerEnqueue(LayerOf(BootLayer), k, op, "UNDO")

(* What the UNDO of a binding releases. *)
Owed(k, op, t) == {0} \X Places("up", Undo(k, op), t)

(* A key lets go: its UNDO is the same in every layer and presses nothing, *)
(* and each press of its DO has a release of its own, later in the DO or   *)
(* in the UNDO.                                                            *)
LetsGo ==
  \A l \in LayerIds, k \in Key!KeyNumber, op \in {"PRESS", "HOLD"} :
    /\ Key!LayerEnqueue(LayerOf(l), k, op, "UNDO") = Undo(k, op)
    /\ \A t \in Thing :
         /\ Places("down", Undo(k, op), t) = {}
         /\ Covered({}, Places("down", Do(l, k, op), t), Places("up", Do(l, k, op), t), Owed(k, op, t))

(* The operation a key that is down has done, unless its timer runs. *)
HeldOp == IF Key!HoldKeymaps THEN "HOLD" ELSE "PRESS"

(* The position the scan has just left is the one the calls are for. *)
Caller == keyPos - 1
Calls(bae) == calls # <<>> /\ Head(calls).bae = bae

(* The UNDO of operation op at position p is still to come. *)
Active(p, op) ==
  \/ /\ p \in Key!Down /\ timeouts[p] = -1 /\ op = HeldOp
     /\ ~ (Calls("DO") /\ p = Caller)
  \/ Calls("UNDO") /\ p = Caller /\ op = Head(calls).op

(* The releases of t still to be sent by those. *)
Holders(t) ==
  {z \in {0} \X (Key!Position \X {"PRESS", "HOLD"} \X OnItsWay) :
     /\ Active(z[2][1], z[2][2])
     /\ z[2][3] \in Places("up", Undo(keys[z[2][1]], z[2][2]), t)}

(* Every place that holds, and every press on its way, has a release of    *)
(* its own.                                                                *)
Matched ==
  \A t \in Thing :
    Covered(Held(t), Places("down", Stream, t), Places("up", Stream, t), Holders(t))

(* The calls for a position: the DO of a key that stays down, the DO and   *)
(* the UNDO of a tap, or an UNDO.                                          *)
CallsShape ==
  calls # <<>> =>
    /\ Caller \in Key!Position
    /\ Head(calls).key = keys[Caller] /\ Head(calls).op \in {"PRESS", "HOLD"}
    /\ \/ Head(calls).bae = "UNDO" /\ Tail(calls) = <<>>
       \/ /\ Head(calls).bae = "DO" /\ Tail(calls) = <<>>
          /\ Head(calls).op = HeldOp /\ Caller \in Key!Down /\ timeouts[Caller] = -1
       \/ /\ Head(calls).bae = "DO" /\ Tail(calls) # <<>> /\ Tail(Tail(calls)) = <<>>
          /\ Head(Tail(calls)) = [Head(calls) EXCEPT !.bae = "UNDO"]

FormShape ==
  /\ hidPc # "apply" => msg = Hid!NoMsg
  /\ \A s \in Hid!Slot : keycode[s] \notin ModifierCode

(* Until a message is lost, or a press is written over the modifiers or    *)
(* buttons.                                                                *)
Intact == ~ lost /\ ~ overrun

StuckInv == CallsShape /\ FormShape /\ (Intact => Matched)

-----------------------------------------------------------------------------
(* The messages of the tasks are messages of the stream. *)
LEMMA StreamTypes ==
  /\ Hid!Applied \subseteq StreamMessage
  /\ Seq(Hid!QueueMessage) \subseteq Seq(StreamMessage)
  /\ Seq(Key!QueueMessage) \subseteq Seq(StreamMessage)
<1>1. Hid!QueueMessage = QueueMessage /\ Key!QueueMessage = QueueMessage
  BY DEF Hid!QueueMessage, Hid!KeyEvent, Hid!ButtonEvent, Hid!LayerEvent, Hid!PlainEvent, Hid!CodeList,
         Hid!Code, Hid!Bit, Hid!MotionType, Key!QueueMessage, Key!KeyEvent, Key!ButtonEvent, Key!LayerEvent,
         Key!PlainEvent, Key!CodeList, Key!Code, Key!Bit, Key!MotionType, QueueMessage, KeyEvent,
         ButtonEvent, LayerEvent, PlainEvent, CodeList, Code, Bit, MotionType
<1>2. Hid!Applied \subseteq StreamMessage
  BY DEF Hid!Applied, Hid!CodeList, Hid!Code, StreamMessage, CodeList, Code
<1>3. Seq(QueueMessage) \subseteq Seq(StreamMessage)
  BY SeqMonotonic DEF StreamMessage
<1>. QED  BY <1>1, <1>2, <1>3

(* The parts of the stream are streams. *)
LEMMA StreamParts ==
  ASSUME Hid!TypeOK, Key!TypeOK
  PROVE  /\ msg \in StreamMessage /\ eventQueue \in Seq(StreamMessage)
         /\ sends \in Seq(StreamMessage) /\ Queued \in Seq(StreamMessage)
<1>1. msg \in StreamMessage /\ eventQueue \in Seq(StreamMessage) /\ sends \in Seq(StreamMessage)
  BY StreamTypes DEF Hid!TypeOK, Key!TypeOK
<1>. QED  BY <1>1, ConcatProperties DEF Queued

(* No message, no codes. *)
LEMMA NoMsgCodeless == \A way \in {"down", "up"} : Codes(way, Hid!NoMsg) = <<>>
BY DEF Codes, Hid!NoMsg, KeyType, ButtonType

LEMMA HoldersAreZero == \A t : \A z \in Holders(t) : z[1] = 0
BY DEF Holders

(* The usb-hid task leaves the releases to come as they are. *)
LEMMA HoldersUnchanged == ASSUME UNCHANGED keyVars, NEW t  PROVE Holders(t)' = Holders(t)
BY DEF keyVars, Holders, Active, Calls, Caller, Key!Down

(* The usb-hid task takes a message from the queue. *)
LEMMA DequeueMatched ==
  ASSUME Hid!TypeOK, Key!TypeOK, Hid!TypeOK', FormShape, Matched, Hid!HidDequeue, UNCHANGED keyVars
  PROVE  Matched'
<1>. DEFINE m == Head(eventQueue)
            s == Tail(eventQueue) \o sends
<1>1. /\ msg = Hid!NoMsg /\ eventQueue # <<>> /\ eventQueue' = Tail(eventQueue) /\ sends' = sends
      /\ UNCHANGED <<keycode, modifer>>
  BY DEF FormShape, keyVars, Hid!HidDequeue, Hid!Take, Hid!TakeReboot, Hid!TakeRebootBootloader, Hid!TakeMotion,
         Hid!TakeClick, Hid!TakeRelease, Hid!TakeLayerSwitch, Hid!TakeDelay, Hid!TakeKeys, Hid!TakeSidewaysScroll,
         Hid!formVars, Hid!hidVars
<1>2. /\ Queued = Front(m, s) /\ Queued' = s /\ m \in StreamMessage /\ s \in Seq(StreamMessage)
      /\ msg \in StreamMessage /\ msg' \in StreamMessage /\ Queued \in Seq(StreamMessage)
  <2>1. eventQueue \in Seq(StreamMessage) /\ sends \in Seq(StreamMessage)
    BY StreamParts
  <2>2. Queued = Front(m, s) /\ m \in StreamMessage /\ s \in Seq(StreamMessage)
    BY <1>1, <2>1, QueueFront DEF Queued
  <2>3. Queued' = s
    BY <1>1 DEF Queued
  <2>4. msg' \in StreamMessage
    BY StreamTypes DEF Hid!TypeOK
  <2>. QED  BY <2>2, <2>3, <2>4, StreamParts
<1>. HIDE DEF m, s
<1>3. \A way \in {"down", "up"}, t \in Thing : Places(way, Stream, t) = Places(way, Front(m, s), t)
  <2>. TAKE way \in {"down", "up"}, t \in Thing
  <2>1. Codes(way, msg) = <<>>
    BY <1>1, NoMsgCodeless
  <2>2. Places(way, Front(msg, Queued), t) = Places(way, Queued, t)
    BY <1>2, <2>1, CodelessFront
  <2>. QED  BY <1>2, <2>2 DEF Stream
<1>4. Stream' = Front(msg', s)
  BY <1>2 DEF Stream
<1>5. \A t \in Thing : /\ Covered(Held(t), Places("down", Front(m, s), t), Places("up", Front(m, s), t), Holders(t))
                       /\ Holders(t)' = Holders(t)
  BY <1>3, HoldersUnchanged DEF Matched
<1>6. CASE Hid!TakeKeys
  <2>1. msg' = m /\ mouse_buttons' = mouse_buttons
    BY <1>6 DEF Hid!TakeKeys, Hid!formVars, m
  <2>2. \A t \in Thing : Held(t)' = Held(t)
    BY <1>1, <2>1 DEF Held
  <2>. QED  BY <1>4, <1>5, <2>1, <2>2 DEF Matched
<1>7. CASE Hid!TakeReboot \/ Hid!TakeRebootBootloader \/ Hid!TakeMotion \/ Hid!TakeLayerSwitch
           \/ Hid!TakeDelay \/ Hid!TakeSidewaysScroll
  <2>1. /\ mouse_buttons' = mouse_buttons
        /\ msg' = msg \/ msg' = [type |-> "MOUSE_SCROLL_LEFT_RIGHT", codes |-> <<>>]
        /\ m.type \in {"REBOOT", "REBOOT_BOOTLOADER", "LAYER_SWITCH", "DELAY"} \cup Hid!MotionType
    BY <1>7 DEF Hid!TakeReboot, Hid!TakeRebootBootloader, Hid!TakeMotion, Hid!TakeLayerSwitch, Hid!TakeDelay,
                Hid!TakeSidewaysScroll, Hid!formVars, Hid!hidVars, Hid!Take, Hid!MotionType, m
  <2>2. \A way \in {"down", "up"} : Codes(way, m) = <<>> /\ Codes(way, msg') = <<>>
    <3>1. \A way \in {"down", "up"} : Codes(way, m) = <<>>
      BY <2>1 DEF Codes, KeyType, ButtonType, Hid!MotionType
    <3>2. \A way \in {"down", "up"} : Codes(way, msg') = <<>>
      BY <1>1, <2>1, NoMsgCodeless DEF Codes, KeyType, ButtonType
    <3>. QED  BY <3>1, <3>2
  <2>3. \A t \in Thing : Held(t)' = Held(t)
    BY <1>1, <2>1 DEF Held
  <2>4. \A way \in {"down", "up"}, t \in Thing : Places(way, Stream', t) = Places(way, Front(m, s), t)
    <3>. TAKE way \in {"down", "up"}, t \in Thing
    <3>1. Codes(way, msg') = Codes(way, m)
      BY <2>2
    <3>2. Places(way, Front(msg', s), t) = Places(way, Front(m, s), t)
      BY <1>2, <3>1, IdleStep
    <3>. QED  BY <1>4, <3>2
  <2>. QED  BY <1>5, <2>3, <2>4 DEF Matched
<1>8. CASE Hid!TakeClick
  <2>. DEFINE b == m.mouse_click
  <2>1. m.type = "MOUSE_CLICK" /\ mouse_buttons' = mouse_buttons \cup {b} /\ msg' = msg
    BY <1>8 DEF Hid!TakeClick, Hid!Take, m
  <2>2. b \in 0 .. 7
    BY <1>2, <2>1 DEF StreamMessage, QueueMessage, KeyEvent, ButtonEvent, LayerEvent, PlainEvent, MotionType, Bit
  <2>. HIDE DEF b
  <2>3. /\ Codes("down", m) = <<256 + b>> /\ Codes("up", m) = <<>>
        /\ Codes("down", msg') = <<>> /\ Codes("up", msg') = <<>>
    BY <1>1, <2>1, NoMsgCodeless DEF Codes, KeyType, ButtonType, b
  <2>4. /\ Codes("down", m) \in Numbers /\ Codes("down", m) # <<>> /\ Codes("down", m)[1] = 256 + b
        /\ Codes("down", msg') = Tail(Codes("down", m)) /\ Codes("up", msg') = Codes("up", m)
    <3>1. 256 + b \in Nat
      BY <2>2
    <3>. QED  BY <2>3, <3>1, OneCode
  <2>. SUFFICES ASSUME NEW t \in Thing
                PROVE  Covered(Held(t)', Places("down", Front(msg', s), t), Places("up", Front(msg', s), t), Holders(t))
    BY <1>4, <1>5 DEF Matched
  <2>5. 256 + b = t => \E a : Held(t)' \subseteq Held(t) \cup {a}
    <3>1. 256 + b = t => t > 255
      BY <2>2
    <3>2. 256 + b = t => Held(t)' \subseteq Held(t) \cup {0}
      BY <3>1 DEF Held
    <3>. QED  BY <3>2
  <2>6. 256 + b # t => Held(t)' \subseteq Held(t)
    <3>1. 256 + b # t => t - 256 # b
      BY <2>2 DEF Thing
    <3>. QED  BY <1>1, <2>1, <3>1 DEF Held
  <2>. DEFINE m2 == msg'
              A  == Held(t)
              A2 == Held(t)'
              H  == Holders(t)
  <2>7. /\ m \in StreamMessage /\ m2 \in StreamMessage /\ s \in Seq(StreamMessage)
        /\ Codes("down", m) \in Numbers /\ Codes("down", m) # <<>>
        /\ Codes("down", m2) = Tail(Codes("down", m)) /\ Codes("up", m2) = Codes("up", m)
        /\ Covered(A, Places("down", Front(m, s), t), Places("up", Front(m, s), t), H)
        /\ Codes("down", m)[1] = t => \E a : A2 \subseteq A \cup {a}
        /\ Codes("down", m)[1] # t => A2 \subseteq A
    BY <1>2, <1>5, <2>4, <2>5, <2>6
  <2>. HIDE DEF m2, A, A2, H
  <2>8. Covered(A2, Places("down", Front(m2, s), t), Places("up", Front(m2, s), t), H)
    BY <2>7, PressStep
  <2>. QED  BY <2>8 DEF m2, A2, H
<1>9. CASE Hid!TakeRelease
  <2>. DEFINE b == m.mouse_click
  <2>1. m.type = "MOUSE_RELEASE" /\ mouse_buttons' = mouse_buttons \ {b} /\ msg' = msg
    BY <1>9 DEF Hid!TakeRelease, Hid!Take, m
  <2>2. b \in 0 .. 7
    BY <1>2, <2>1 DEF StreamMessage, QueueMessage, KeyEvent, ButtonEvent, LayerEvent, PlainEvent, MotionType, Bit
  <2>. HIDE DEF b
  <2>3. /\ Codes("up", m) = <<256 + b>> /\ Codes("down", m) = <<>>
        /\ Codes("down", msg') = <<>> /\ Codes("up", msg') = <<>>
    BY <1>1, <2>1, NoMsgCodeless DEF Codes, KeyType, ButtonType, b
  <2>4. /\ Codes("up", m) \in Numbers /\ Codes("up", m) # <<>> /\ Codes("up", m)[1] = 256 + b
        /\ Codes("up", msg') = Tail(Codes("up", m)) /\ Codes("down", msg') = Codes("down", m)
    <3>1. 256 + b \in Nat
      BY <2>2
    <3>. QED  BY <2>3, <3>1, OneCode
  <2>. SUFFICES ASSUME NEW t \in Thing
                PROVE  Covered(Held(t)', Places("down", Front(msg', s), t), Places("up", Front(msg', s), t), Holders(t))
    BY <1>4, <1>5 DEF Matched
  <2>5. 256 + b = t => \E a : Held(t)' = Held(t) \ {a} /\ (a \in Held(t) \/ Held(t) = {})
    <3>1. 256 + b = t => t > 255 /\ t - 256 = b
      BY <2>2
    <3>2. 256 + b = t => Held(t)' = Held(t) \ {0} /\ (0 \in Held(t) \/ Held(t) = {})
      BY <2>1, <3>1 DEF Held
    <3>. QED  BY <3>2
  <2>6. 256 + b # t => Held(t)' = Held(t)
    <3>1. 256 + b # t => t - 256 # b
      BY <2>2 DEF Thing
    <3>. QED  BY <1>1, <2>1, <3>1 DEF Held
  <2>. DEFINE m2 == msg'
              A  == Held(t)
              A2 == Held(t)'
              H  == Holders(t)
  <2>7. /\ m \in StreamMessage /\ m2 \in StreamMessage /\ s \in Seq(StreamMessage)
        /\ Codes("up", m) \in Numbers /\ Codes("up", m) # <<>>
        /\ Codes("up", m2) = Tail(Codes("up", m)) /\ Codes("down", m2) = Codes("down", m)
        /\ Covered(A, Places("down", Front(m, s), t), Places("up", Front(m, s), t), H)
        /\ Codes("up", m)[1] = t => \E a : A2 = A \ {a} /\ (a \in A \/ A = {})
        /\ Codes("up", m)[1] # t => A2 = A
        /\ \A z \in H : z[1] = 0
    BY <1>2, <1>5, <2>4, <2>5, <2>6, HoldersAreZero
  <2>. HIDE DEF m2, A, A2, H
  <2>8. Covered(A2, Places("down", Front(m2, s), t), Places("up", Front(m2, s), t), H)
    BY <2>7, ReleaseStep
  <2>. QED  BY <2>8 DEF m2, A2, H
<1>. QED  BY <1>6, <1>7, <1>8, <1>9 DEF Hid!HidDequeue
(* The codes of a message being applied. *)
LEMMA AppliedCodes ==
  ASSUME NEW m \in Hid!Applied, m.codes # <<>>
  PROVE  /\ Head(m.codes) \in 0 .. 255 /\ m.codes[1] = Head(m.codes) /\ m.codes \in Numbers
<1>1. m.codes \in Seq(0 .. 255)
  BY DEF Hid!Applied, Hid!CodeList, Hid!Code
<1>2. Seq(0 .. 255) \subseteq Seq(Nat)
  <2>1. 0 .. 255 \subseteq Nat
    OBVIOUS
  <2>. QED  BY <2>1, SeqMonotonic
<1>3. Head(m.codes) \in 0 .. 255 /\ m.codes[1] = Head(m.codes)
  BY <1>1, HeadTailProperties
<1>. QED  BY <1>1, <1>2, <1>3 DEF Numbers

(* A press from the message being applied. *)
LEMMA PressMatched ==
  ASSUME Hid!TypeOK, Key!TypeOK, Hid!TypeOK', Matched, UNCHANGED keyVars, ~ Overruns,
         Hid!PressModifier \/ Hid!PressKey \/ Hid!PressSpills
  PROVE  Matched'
<1>1. /\ Hid!ApplyNext("PRESS") /\ msg.type = "PRESS" /\ msg.codes # <<>> /\ mouse_buttons' = mouse_buttons
      /\ msg' = [msg EXCEPT !.codes = Tail(@)] /\ eventQueue' = eventQueue /\ sends' = sends
  BY DEF Hid!PressModifier, Hid!PressKey, Hid!PressSpills, Hid!ApplyNext, Overruns, keyVars, Hid!TypeOK
<1>2. /\ msg \in StreamMessage /\ msg' \in StreamMessage /\ Queued \in Seq(StreamMessage) /\ Queued' = Queued
  <2>1. msg' \in StreamMessage
    BY StreamTypes DEF Hid!TypeOK
  <2>. QED  BY <1>1, <2>1, StreamParts DEF Queued
<1>3. msg \in Hid!Applied /\ msg' \in Hid!Applied
  BY DEF Hid!TypeOK
<1>. DEFINE c == Head(msg.codes)
<1>4. /\ Codes("down", msg) = msg.codes /\ Codes("up", msg) = <<>>
      /\ Codes("down", msg') = Tail(msg.codes) /\ Codes("up", msg') = <<>>
  <2>1. msg'.type = "PRESS" /\ msg'.codes = Tail(msg.codes)
    BY <1>1, <1>3 DEF Hid!Applied
  <2>. QED  BY <1>1, <2>1 DEF Codes, KeyType, ButtonType
<1>5. /\ Codes("down", msg) \in Numbers /\ Codes("down", msg) # <<>> /\ Codes("down", msg)[1] = c
      /\ Codes("down", msg') = Tail(Codes("down", msg)) /\ Codes("up", msg') = Codes("up", msg)
  BY <1>1, <1>3, <1>4, AppliedCodes
<1>6. c \in 0 .. 255
  BY <1>1, <1>3, AppliedCodes
<1>. HIDE DEF c
<1>7. Stream' = Front(msg', Queued)
  BY <1>2 DEF Stream
<1>8. ASSUME NEW t \in Thing
      PROVE  /\ c = t => \E a : Held(t)' \subseteq Held(t) \cup {a}
             /\ c # t => Held(t)' \subseteq Held(t)
  <2>1. CASE Hid!PressModifier
    <3>1. keycode' = keycode /\ modifer' = modifer \cup {ModifierBit(c)} /\ c \in ModifierCode
      BY <2>1 DEF Hid!PressModifier, Hid!NextCode, Hid!ModifierCode, Hid!ModifierBit, ModifierCode, ModifierBit, c
    <3>2. c = t => Held(t)' \subseteq Held(t) \cup {0}
      BY <1>1, <3>1 DEF Held, ModifierCode
    <3>3. c # t /\ t \in ModifierCode => ModifierBit(t) # ModifierBit(c)
      BY <3>1 DEF ModifierBit, ModifierCode
    <3>4. c # t => Held(t)' \subseteq Held(t)
      BY <1>1, <3>1, <3>3 DEF Held
    <3>. QED  BY <3>2, <3>4
  <2>2. CASE Hid!PressKey
    <3>1. /\ modifer' = modifer /\ c \notin ModifierCode
          /\ \E x \in Hid!Slot : keycode[x] = 0 /\ keycode' = [keycode EXCEPT ![x] = c]
      BY <2>2 DEF Hid!PressKey, Hid!NextCode, Hid!FirstSlot, Hid!ModifierCode, ModifierCode, c
    <3>2. PICK x \in Hid!Slot : keycode[x] = 0 /\ keycode' = [keycode EXCEPT ![x] = c]
      BY <3>1
    <3>3. keycode \in [Hid!Slot -> Hid!Code]
      BY DEF Hid!TypeOK
    <3>4. c = t => Held(t)' \subseteq Held(t) \cup {x}
      BY <1>1, <1>6, <3>1, <3>2, <3>3 DEF Held
    <3>5. t # 0
      BY DEF Thing
    <3>6. c # t => Held(t)' \subseteq Held(t)
      BY <1>1, <3>1, <3>2, <3>3, <3>5 DEF Held
    <3>. QED  BY <3>4, <3>6
  <2>3. CASE Hid!PressSpills
    <3>1. spill = "padding"
      BY <2>3 DEF Overruns
    <3>2. modifer' = modifer /\ keycode' = keycode
      BY <2>3, <3>1 DEF Hid!PressSpills
    <3>3. Held(t)' = Held(t)
      BY <1>1, <3>2 DEF Held
    <3>. QED  BY <3>3
  <2>. QED  BY <2>1, <2>2, <2>3
<1>. SUFFICES ASSUME NEW t \in Thing
              PROVE  Covered(Held(t)', Places("down", Front(msg', Queued), t), Places("up", Front(msg', Queued), t), Holders(t))
  BY <1>7, HoldersUnchanged DEF Matched
<1>. DEFINE m == msg
            m2 == msg'
            s == Queued
            A  == Held(t)
            A2 == Held(t)'
            H  == Holders(t)
<1>9. /\ m \in StreamMessage /\ m2 \in StreamMessage /\ s \in Seq(StreamMessage)
      /\ Codes("down", m) \in Numbers /\ Codes("down", m) # <<>>
      /\ Codes("down", m2) = Tail(Codes("down", m)) /\ Codes("up", m2) = Codes("up", m)
      /\ Covered(A, Places("down", Front(m, s), t), Places("up", Front(m, s), t), H)
      /\ Codes("down", m)[1] = t => \E a : A2 \subseteq A \cup {a}
      /\ Codes("down", m)[1] # t => A2 \subseteq A
  BY <1>2, <1>5, <1>8 DEF Matched, Stream
<1>. HIDE DEF m, m2, s, A, A2, H
<1>10. Covered(A2, Places("down", Front(m2, s), t), Places("up", Front(m2, s), t), H)
  BY <1>9, PressStep
<1>. QED  BY <1>10 DEF m2, s, A2, H

(* A release from the message being applied. *)
LEMMA ReleaseMatched ==
  ASSUME Hid!TypeOK, Key!TypeOK, Hid!TypeOK', Matched, UNCHANGED keyVars,
         Hid!ReleaseModifier \/ Hid!ReleaseKey \/ Hid!ReleaseNothing
  PROVE  Matched'
<1>1. /\ Hid!ApplyNext("RELEASE") /\ msg.type = "RELEASE" /\ msg.codes # <<>> /\ mouse_buttons' = mouse_buttons
      /\ msg' = [msg EXCEPT !.codes = Tail(@)] /\ eventQueue' = eventQueue /\ sends' = sends
  BY DEF Hid!ReleaseModifier, Hid!ReleaseKey, Hid!ReleaseNothing, Hid!ApplyNext, Hid!formVars, keyVars
<1>2. /\ msg \in StreamMessage /\ msg' \in StreamMessage /\ Queued \in Seq(StreamMessage) /\ Queued' = Queued
  <2>1. msg' \in StreamMessage
    BY StreamTypes DEF Hid!TypeOK
  <2>. QED  BY <1>1, <2>1, StreamParts DEF Queued
<1>3. msg \in Hid!Applied /\ msg' \in Hid!Applied
  BY DEF Hid!TypeOK
<1>. DEFINE c == Head(msg.codes)
<1>4. /\ Codes("up", msg) = msg.codes /\ Codes("down", msg) = <<>>
      /\ Codes("up", msg') = Tail(msg.codes) /\ Codes("down", msg') = <<>>
  <2>1. msg'.type = "RELEASE" /\ msg'.codes = Tail(msg.codes)
    BY <1>1, <1>3 DEF Hid!Applied
  <2>. QED  BY <1>1, <2>1 DEF Codes, KeyType, ButtonType
<1>5. /\ Codes("up", msg) \in Numbers /\ Codes("up", msg) # <<>> /\ Codes("up", msg)[1] = c
      /\ Codes("up", msg') = Tail(Codes("up", msg)) /\ Codes("down", msg') = Codes("down", msg)
  BY <1>1, <1>3, <1>4, AppliedCodes
<1>6. c \in 0 .. 255
  BY <1>1, <1>3, AppliedCodes
<1>. HIDE DEF c
<1>7. Stream' = Front(msg', Queued)
  BY <1>2 DEF Stream
<1>8. ASSUME NEW t \in Thing
      PROVE  /\ c = t => \E a : Held(t)' = Held(t) \ {a} /\ (a \in Held(t) \/ Held(t) = {})
             /\ c # t => Held(t)' = Held(t)
  <2>1. CASE Hid!ReleaseModifier
    <3>1. keycode' = keycode /\ modifer' = modifer \ {ModifierBit(c)} /\ c \in ModifierCode
      BY <2>1 DEF Hid!ReleaseModifier, Hid!NextCode, Hid!ModifierCode, Hid!ModifierBit, ModifierCode, ModifierBit, c
    <3>2. c = t => Held(t)' = Held(t) \ {0} /\ (0 \in Held(t) \/ Held(t) = {})
      BY <1>1, <3>1 DEF Held, ModifierCode
    <3>3. c # t /\ t \in ModifierCode => ModifierBit(t) # ModifierBit(c)
      BY <3>1 DEF ModifierBit, ModifierCode
    <3>4. c # t => Held(t)' = Held(t)
      BY <1>1, <3>1, <3>3 DEF Held
    <3>. QED  BY <3>2, <3>4
  <2>2. CASE Hid!ReleaseKey
    <3>1. /\ modifer' = modifer /\ c \notin ModifierCode
          /\ \E x \in Hid!Slot : keycode[x] = c /\ keycode' = [keycode EXCEPT ![x] = 0]
      BY <2>2 DEF Hid!ReleaseKey, Hid!NextCode, Hid!FirstSlot, Hid!ModifierCode, ModifierCode, c
    <3>2. PICK x \in Hid!Slot : keycode[x] = c /\ keycode' = [keycode EXCEPT ![x] = 0]
      BY <3>1
    <3>3. keycode \in [Hid!Slot -> Hid!Code]
      BY DEF Hid!TypeOK
    <3>4. t # 0
      BY DEF Thing
    <3>5. c = t => Held(t)' = Held(t) \ {x} /\ x \in Held(t)
      <4>1. c = t => ~ (t > 255) /\ t \notin ModifierCode
        BY <1>6, <3>1
      <4>2. c = t => /\ Held(t) = {z \in Hid!Slot : keycode[z] = t}
                     /\ Held(t)' = {z \in Hid!Slot : keycode'[z] = t}
        BY <4>1 DEF Held
      <4>3. \A z \in Hid!Slot : keycode'[z] = IF z = x THEN 0 ELSE keycode[z]
        BY <3>2, <3>3
      <4>. QED  BY <3>2, <3>4, <4>2, <4>3
    <3>6. c # t => Held(t)' = Held(t)
      BY <1>1, <3>1, <3>2, <3>3, <3>4 DEF Held
    <3>. QED  BY <3>5, <3>6
  <2>3. CASE Hid!ReleaseNothing
    <3>1. modifer' = modifer /\ keycode' = keycode /\ c \notin ModifierCode /\ \A x \in Hid!Slot : keycode[x] # c
      BY <2>3 DEF Hid!ReleaseNothing, Hid!formVars, Hid!NextCode, Hid!Holds, Hid!ModifierCode, ModifierCode, c
    <3>2. Held(t)' = Held(t)
      BY <1>1, <3>1 DEF Held
    <3>3. c = t => Held(t) = {}
      BY <1>6, <3>1 DEF Held
    <3>. QED  BY <3>2, <3>3
  <2>. QED  BY <2>1, <2>2, <2>3
<1>. SUFFICES ASSUME NEW t \in Thing
              PROVE  Covered(Held(t)', Places("down", Front(msg', Queued), t), Places("up", Front(msg', Queued), t), Holders(t))
  BY <1>7, HoldersUnchanged DEF Matched
<1>. DEFINE m == msg
            m2 == msg'
            s == Queued
            A  == Held(t)
            A2 == Held(t)'
            H  == Holders(t)
<1>9. /\ m \in StreamMessage /\ m2 \in StreamMessage /\ s \in Seq(StreamMessage)
      /\ Codes("up", m) \in Numbers /\ Codes("up", m) # <<>>
      /\ Codes("up", m2) = Tail(Codes("up", m)) /\ Codes("down", m2) = Codes("down", m)
      /\ Covered(A, Places("down", Front(m, s), t), Places("up", Front(m, s), t), H)
      /\ Codes("up", m)[1] = t => \E a : A2 = A \ {a} /\ (a \in A \/ A = {})
      /\ Codes("up", m)[1] # t => A2 = A
      /\ \A z \in H : z[1] = 0
  BY <1>2, <1>5, <1>8, HoldersAreZero DEF Matched, Stream
<1>. HIDE DEF m, m2, s, A, A2, H
<1>10. Covered(A2, Places("down", Front(m2, s), t), Places("up", Front(m2, s), t), H)
  BY <1>9, ReleaseStep
<1>. QED  BY <1>10 DEF m2, s, A2, H

(* Nothing else the usb-hid task or the bus does concerns the keys held. *)
LEMMA QuietMatched ==
  ASSUME Hid!TypeOK, Key!TypeOK, Hid!TypeOK', Matched, UNCHANGED keyVars,
         Hid!DelayOver \/ Hid!ClaimKeyboard \/ Hid!HidSubmit \/ Hid!BusStep
  PROVE  Matched'
<1>1. UNCHANGED <<eventQueue, sends, keycode, modifer, mouse_buttons>>
  BY DEF Hid!DelayOver, Hid!ClaimKeyboard, Hid!HidSubmit, Hid!BusStep, Hid!ReportComplete, Hid!Mount, Hid!Suspend,
         Hid!Resume, Hid!BusReset, Hid!localVars, Hid!formVars, keyVars
<1>2. \A way \in {"down", "up"} : Codes(way, msg') = Codes(way, msg)
  <2>1. CASE Hid!ClaimKeyboard
    <3>1. msg.codes = <<>> /\ msg' = Hid!NoMsg /\ msg \in Hid!Applied
      BY <2>1 DEF Hid!ClaimKeyboard, Hid!TypeOK
    <3>2. \A way \in {"down", "up"} : Codes(way, msg) = <<>>
      BY <3>1 DEF Hid!Applied, Codes, KeyType, ButtonType
    <3>. QED  BY <3>1, <3>2, NoMsgCodeless
  <2>2. CASE ~ Hid!ClaimKeyboard
    BY <2>2 DEF Hid!DelayOver, Hid!HidSubmit, Hid!BusStep, Hid!ReportComplete, Hid!Mount, Hid!Suspend,
         Hid!Resume, Hid!BusReset, Hid!localVars
  <2>. QED  BY <2>1, <2>2
<1>3. msg \in StreamMessage /\ msg' \in StreamMessage /\ Queued \in Seq(StreamMessage) /\ Queued' = Queued
  <2>1. msg' \in StreamMessage
    BY StreamTypes DEF Hid!TypeOK
  <2>. QED  BY <1>1, <2>1, StreamParts DEF Queued
<1>4. \A way \in {"down", "up"}, t \in Thing : Places(way, Stream', t) = Places(way, Stream, t)
  <2>. TAKE way \in {"down", "up"}, t \in Thing
  <2>1. Codes(way, msg') = Codes(way, msg)
    BY <1>2
  <2>2. Places(way, Front(msg', Queued), t) = Places(way, Front(msg, Queued), t)
    BY <1>3, <2>1, IdleStep
  <2>. QED  BY <1>3, <2>2 DEF Stream
<1>5. \A t \in Thing : Held(t)' = Held(t) /\ Holders(t)' = Holders(t)
  BY <1>1, HoldersUnchanged DEF Held
<1>. QED  BY <1>4, <1>5 DEF Matched

(* The usb-hid task and the bus keep every key with its release, as long   *)
(* as no press is written where others are kept.                           *)
LEMMA HidSideMatched ==
  ASSUME Hid!TypeOK, Key!TypeOK, Hid!TypeOK', FormShape, Matched, HidSide, ~ Overruns
  PROVE  Matched'
<1>1. UNCHANGED keyVars
  BY DEF HidSide
<1>2. \/ Hid!HidDequeue
      \/ Hid!PressModifier \/ Hid!PressKey \/ Hid!PressSpills
      \/ Hid!ReleaseModifier \/ Hid!ReleaseKey \/ Hid!ReleaseNothing
      \/ Hid!DelayOver \/ Hid!ClaimKeyboard \/ Hid!HidSubmit \/ Hid!BusStep
  BY DEF HidSide, Hid!HidStep
<1>. QED  BY <1>1, <1>2, DequeueMatched, PressMatched, ReleaseMatched, QuietMatched

-----------------------------------------------------------------------------
(* Whoever is active stays so: the releases to come only grow. *)
LEMMA HoldersGrow ==
  ASSUME NEW t, \A p \in Key!Position, op \in {"PRESS", "HOLD"} : Active(p, op) => Active(p, op)'
  PROVE  Holders(t) \subseteq Holders(t)'
BY DEF Holders

(* What is asked of whom through which layer. *)
LEMMA CallerKey ==
  ASSUME Key!TypeOK, CallsShape, calls # <<>>
  PROVE  /\ Caller \in Key!Position /\ keys[Caller] \in Key!KeyNumber
         /\ Head(calls).key = keys[Caller] /\ Head(calls).op \in {"PRESS", "HOLD"}
         /\ layer \in LayerIds /\ Key!CurrentLayer = LayerOf(layer)
BY DEF CallsShape, Key!KeyNumber, Key!TypeOK, Key!CurrentLayer, LayerOf

(* An UNDO sends messages. *)
LEMMA UndoSends ==
  ASSUME NEW k \in Key!KeyNumber, NEW op \in {"PRESS", "HOLD"}
  PROVE  Undo(k, op) \in Seq(QueueMessage)
<1>1. CASE BootLayer \in DOMAIN Layers
  BY <1>1, KeymapsAssumption DEF Undo, LayerOf, Key!BoundActionEnqueue
<1>2. CASE BootLayer \notin DOMAIN Layers
  <2>1. DOMAIN Key!EmptyLayer.bindings = {}
    BY DEF Key!EmptyLayer
  <2>2. Undo(k, op) = <<>>
    BY <1>2, <2>1 DEF Undo, LayerOf, Key!LayerEnqueue, Key!Bound
  <2>. QED  BY <2>2
<1>. QED  BY <1>1, <1>2

(* The process-keys task starts to send the DO of a binding. *)
LEMMA DoMatched ==
  ASSUME Hid!TypeOK, Key!TypeOK, Key!TypeOK', CallsShape, LetsGo, Matched, Calls("DO"),
         Key!EnqueueStart, UNCHANGED hidVars
  PROVE  Matched'
<1>0. PICK p, op : p = Caller /\ op = Head(calls).op
  OBVIOUS
<1>. DEFINE k == keys[p]
            u == Do(layer, k, op)
            n == Len(u)
<1>1. /\ calls # <<>> /\ calls' = Tail(calls) /\ sends = <<>> /\ eventQueue' = eventQueue /\ keyPos' = keyPos
      /\ timeouts' = timeouts /\ Key!Down' = Key!Down
      /\ sends' = Key!LayerEnqueue(Key!CurrentLayer, Head(calls).key, op, "DO")
      /\ UNCHANGED <<msg, keycode, modifer, mouse_buttons>>
  BY <1>0 DEF Key!EnqueueStart, Key!Down, Calls, hidVars
<1>2. p \in Key!Position /\ k \in Key!KeyNumber /\ op \in {"PRESS", "HOLD"} /\ layer \in LayerIds /\ sends' = u
  BY <1>0, <1>1, CallerKey DEF Do
<1>3. /\ msg \in StreamMessage /\ Queued \in Seq(StreamMessage) /\ u \in Seq(StreamMessage) /\ n \in Nat
      /\ Queued' = Queued \o u
  <2>1. u \in Seq(StreamMessage)
    BY <1>2, StreamTypes DEF Key!TypeOK
  <2>2. eventQueue \in Seq(StreamMessage) /\ Queued = eventQueue
    BY <1>1, StreamParts DEF Queued
  <2>. QED  BY <1>1, <1>2, <2>1, <2>2, StreamParts DEF Queued
<1>4. Active(p, op)' /\ ~ Active(p, op)
  <2>1. ~ Active(p, op)
    BY <1>0 DEF Active, Calls
  <2>2. Active(p, op)'
    <3>1. CASE Tail(calls) = <<>>
      <4>1. op = HeldOp /\ Caller \in Key!Down /\ timeouts[Caller] = -1 /\ ~ Calls("DO")'
        BY <1>0, <1>1, <3>1 DEF CallsShape, Calls
      <4>. QED  BY <1>0, <1>1, <4>1 DEF Active, Caller
    <3>2. CASE Tail(calls) # <<>>
      <4>1. Head(Tail(calls)) = [Head(calls) EXCEPT !.bae = "UNDO"] /\ Head(calls) \in Key!EnqueueCall
        BY <1>1, <3>2, HeadTailProperties DEF CallsShape, Calls, Key!TypeOK
      <4>2. Head(Tail(calls)).bae = "UNDO" /\ Head(Tail(calls)).op = op
        BY <1>0, <4>1 DEF Key!EnqueueCall
      <4>3. Calls("UNDO")' /\ Head(calls') = Head(Tail(calls))
        BY <1>1, <3>2, <4>2 DEF Calls
      <4>. QED  BY <1>0, <1>1, <4>2, <4>3 DEF Active, Caller
    <3>. QED  BY <3>1, <3>2
  <2>. QED  BY <2>1, <2>2
<1>5. \A q \in Key!Position, o \in {"PRESS", "HOLD"} : Active(q, o) => Active(q, o)'
  <2>. SUFFICES ASSUME NEW q \in Key!Position, NEW o \in {"PRESS", "HOLD"}, Active(q, o)  PROVE Active(q, o)'
    OBVIOUS
  <2>1. q \in Key!Down /\ timeouts[q] = -1 /\ o = HeldOp /\ q # Caller
    BY DEF Active, Calls
  <2>2. Caller' = Caller
    BY <1>1 DEF Caller
  <2>. QED  BY <1>1, <2>1, <2>2 DEF Active
<1>. SUFFICES ASSUME NEW t \in Thing
              PROVE  Covered(Held(t), Places("down", Front(msg, Queued \o u), t), Places("up", Front(msg, Queued \o u), t), Holders(t)')
  BY <1>1, <1>3 DEF Matched, Stream, Held
<1>. DEFINE A == Held(t)
            P == Places("down", Stream, t)
            R == Places("up", Stream, t)
            H == Holders(t)
            P1 == Places("down", u, t)
            R1 == Places("up", u, t)
            H1 == Owed(k, op, t)
            H2 == Holders(t)'
            h == [z \in H1 |-> <<0, <<p, op, z[2]>>>>]
<1>6. Covered(A, P, R, H) /\ Covered({}, P1, R1, H1)
  BY <1>2 DEF Matched, LetsGo
<1>7. P \subseteq OnItsWay /\ R \subseteq OnItsWay /\ P1 \subseteq OnItsWay /\ R1 \subseteq OnItsWay
      /\ \A z \in P1 \cup R1 : z[1] <= n
  <2>1. Stream \in Seq(StreamMessage)
    <3>1. One(msg) \in Seq(StreamMessage)
      BY <1>3 DEF One
    <3>. QED  BY <1>3, <3>1, ConcatProperties DEF Stream, Front
  <2>. QED  BY <1>3, <2>1, PlacesOnWay
<1>8. (\A z \in H : z[1] = 0) /\ (\A z \in H2 : z[1] = 0) /\ (\A z \in H1 : z[1] = 0)
  BY DEF Holders, Owed
<1>9. H \subseteq H2
  BY <1>5, HoldersGrow
<1>10. \A z \in H1 : z[2] \in Places("up", Undo(k, op), t) /\ z[2] \in OnItsWay /\ z = <<0, z[2]>>
  <2>1. Undo(k, op) \in Seq(StreamMessage)
    <3>1. Undo(k, op) \in Seq(QueueMessage)
      BY <1>2, UndoSends
    <3>2. QueueMessage \subseteq StreamMessage
      BY DEF StreamMessage
    <3>. QED  BY <3>1, <3>2, SeqMonotonic
  <2>2. Places("up", Undo(k, op), t) \subseteq OnItsWay
    BY <2>1, PlacesOnWay
  <2>. QED  BY <2>2 DEF Owed
<1>11. /\ h \in [H1 -> H2] /\ \A z, w \in H1 : h[z] = h[w] => z = w
       /\ \A z \in H1 : h[z] \notin H
  <2>1. \A z \in H1 : h[z] = <<0, <<p, op, z[2]>>>>
    OBVIOUS
  <2>2. \A z \in H1 : <<0, <<p, op, z[2]>>>> \in H2 /\ <<0, <<p, op, z[2]>>>> \notin H
    <3>. SUFFICES ASSUME NEW z \in H1
                  PROVE  <<0, <<p, op, z[2]>>>> \in H2 /\ <<0, <<p, op, z[2]>>>> \notin H
      OBVIOUS
    <3>. DEFINE w == <<0, <<p, op, z[2]>>>>
    <3>1. w[2][1] = p /\ w[2][2] = op /\ w[2][3] = z[2]
      OBVIOUS
    <3>2. w \in {0} \X (Key!Position \X {"PRESS", "HOLD"} \X OnItsWay)
      BY <1>2, <1>10
    <3>. HIDE DEF w
    <3>3. w \in H2
      BY <1>4, <1>10, <3>1, <3>2 DEF Holders
    <3>4. w \notin H
      BY <1>4, <3>1 DEF Holders
    <3>. QED  BY <3>3, <3>4 DEF w
  <2>3. h \in [H1 -> H2]
    BY <2>2
  <2>. QED  BY <1>10, <2>1, <2>2, <2>3
<1>12. /\ Places("down", Front(msg, Queued \o u), t) = Shifted(P, n) \cup P1
       /\ Places("up", Front(msg, Queued \o u), t) = Shifted(R, n) \cup R1
  BY <1>3, PlacesBehind DEF Stream
<1>13. n \in Nat
  BY <1>3
<1>. HIDE DEF A, P, R, H, P1, R1, H1, H2, h, n, u
<1>14. Covered(A, Shifted(P, n) \cup P1, Shifted(R, n) \cup R1, H2)
  BY <1>6, <1>7, <1>8, <1>9, <1>11, <1>13, DoAppended
<1>. QED  BY <1>12, <1>14 DEF A, H2

(* It starts to send the UNDO. *)
LEMMA UndoMatched ==
  ASSUME Hid!TypeOK, Key!TypeOK, Key!TypeOK', CallsShape, LetsGo, Matched, Calls("UNDO"),
         Key!EnqueueStart, UNCHANGED hidVars
  PROVE  Matched'
<1>. DEFINE p == Caller
            op == Head(calls).op
            k == keys[Caller]
            u == Undo(k, op)
            n == Len(u)
<1>1. /\ calls # <<>> /\ calls' = Tail(calls) /\ sends = <<>> /\ eventQueue' = eventQueue /\ keyPos' = keyPos
      /\ timeouts' = timeouts /\ Key!Down' = Key!Down
      /\ sends' = Key!LayerEnqueue(Key!CurrentLayer, Head(calls).key, op, "UNDO")
      /\ UNCHANGED <<msg, keycode, modifer, mouse_buttons>>
  BY DEF Key!EnqueueStart, Key!Down, Calls, hidVars
<1>2. p \in Key!Position /\ k \in Key!KeyNumber /\ op \in {"PRESS", "HOLD"} /\ layer \in LayerIds /\ sends' = u
  BY <1>1, CallerKey DEF LetsGo
<1>3. /\ msg \in StreamMessage /\ Queued \in Seq(StreamMessage) /\ u \in Seq(StreamMessage) /\ n \in Nat
      /\ Queued' = Queued \o u
  <2>1. u \in Seq(StreamMessage)
    BY <1>2, StreamTypes DEF Key!TypeOK
  <2>2. eventQueue \in Seq(StreamMessage) /\ Queued = eventQueue
    BY <1>1, StreamParts DEF Queued
  <2>. QED  BY <1>1, <1>2, <2>1, <2>2, StreamParts DEF Queued
<1>4. calls' = <<>>
  BY <1>1 DEF CallsShape, Calls
<1>5. \A q \in Key!Position, o \in {"PRESS", "HOLD"} : Active(q, o) => Active(q, o)' \/ (q = p /\ o = op)
  <2>. SUFFICES ASSUME NEW q \in Key!Position, NEW o \in {"PRESS", "HOLD"}, Active(q, o), ~ (q = p /\ o = op)
                PROVE  Active(q, o)'
    OBVIOUS
  <2>1. q \in Key!Down /\ timeouts[q] = -1 /\ o = HeldOp
    BY DEF Active
  <2>. QED  BY <1>1, <1>4, <2>1 DEF Active, Calls
<1>. SUFFICES ASSUME NEW t \in Thing
              PROVE  Covered(Held(t), Places("down", Front(msg, Queued \o u), t), Places("up", Front(msg, Queued \o u), t), Holders(t)')
  BY <1>1, <1>3 DEF Matched, Stream, Held
<1>. DEFINE A == Held(t)
            P == Places("down", Stream, t)
            R == Places("up", Stream, t)
            H == Holders(t)
            P1 == Places("down", u, t)
            R1 == Places("up", u, t)
            H1 == {z \in H : z[2][1] = p /\ z[2][2] = op}
            H2 == Holders(t)'
            h == [z \in H1 |-> z[2][3]]
<1>6. Covered(A, P, R, H) /\ P1 = {}
  BY <1>2 DEF Matched, LetsGo
<1>7. P \subseteq OnItsWay /\ R \subseteq OnItsWay /\ R1 \subseteq OnItsWay /\ \A z \in R1 : z[1] <= n
  <2>1. Stream \in Seq(StreamMessage)
    <3>1. One(msg) \in Seq(StreamMessage)
      BY <1>3 DEF One
    <3>. QED  BY <1>3, <3>1, ConcatProperties DEF Stream, Front
  <2>. QED  BY <1>3, <2>1, PlacesOnWay
<1>8. (\A z \in H : z[1] = 0) /\ (\A z \in H2 : z[1] = 0)
  BY DEF Holders
<1>9. H \subseteq H1 \cup H2
  BY <1>5 DEF Holders
<1>10. h \in [H1 -> R1] /\ \A z, w \in H1 : h[z] = h[w] => z = w
  <2>1. \A z \in H1 : h[z] = z[2][3] /\ z[2][3] \in R1 /\ z = <<0, <<p, op, z[2][3]>>>>
    BY DEF Holders
  <2>2. h \in [H1 -> R1]
    BY <2>1
  <2>. QED  BY <2>1, <2>2
<1>11. /\ Places("down", Front(msg, Queued \o u), t) = Shifted(P, n)
       /\ Places("up", Front(msg, Queued \o u), t) = Shifted(R, n) \cup R1
  <2>1. Places("down", Front(msg, Queued \o u), t) = Shifted(P, n) \cup P1
    BY <1>3, PlacesBehind DEF Stream
  <2>2. Places("up", Front(msg, Queued \o u), t) = Shifted(R, n) \cup R1
    BY <1>3, PlacesBehind DEF Stream
  <2>. QED  BY <1>6, <2>1, <2>2
<1>12. n \in Nat
  BY <1>3
<1>. HIDE DEF A, P, R, H, P1, R1, H1, H2, h, n, u
<1>13. Covered(A, Shifted(P, n), Shifted(R, n) \cup R1, H2)
  BY <1>6, <1>7, <1>8, <1>9, <1>10, <1>12, UndoAppended
<1>. QED  BY <1>11, <1>13 DEF A, H2

(* What is sent only gets nearer. *)
LEMMA SendMatched ==
  ASSUME Hid!TypeOK, Key!TypeOK, Matched, Key!Send, UNCHANGED hidVars
  PROVE  Matched'
<1>1. /\ sends # <<>> /\ eventQueue' = Append(eventQueue, Head(sends)) /\ sends' = Tail(sends)
      /\ UNCHANGED <<msg, keycode, modifer, mouse_buttons>>
  BY DEF Key!Send, hidVars
<1>2. eventQueue \in Seq(StreamMessage) /\ sends \in Seq(StreamMessage)
  BY StreamParts
<1>3. Queued' = Queued
  <2>1. sends = One(Head(sends)) \o Tail(sends) /\ Head(sends) \in StreamMessage /\ Tail(sends) \in Seq(StreamMessage)
    BY <1>1, <1>2, HeadTailProperties DEF One
  <2>2. One(Head(sends)) \in Seq(StreamMessage) /\ eventQueue' = eventQueue \o One(Head(sends))
    BY <1>1, <1>2, <2>1, AppendIsConcat DEF One
  <2>3. (eventQueue \o One(Head(sends))) \o Tail(sends) = eventQueue \o (One(Head(sends)) \o Tail(sends))
    <3>. DEFINE q == eventQueue
                u == One(Head(sends))
                v == Tail(sends)
    <3>1. q \in Seq(StreamMessage) /\ u \in Seq(StreamMessage) /\ v \in Seq(StreamMessage)
      BY <1>2, <2>1, <2>2
    <3>. HIDE DEF q, u, v
    <3>2. (q \o u) \o v = q \o (u \o v)
      BY <3>1, ConcatAssociative
    <3>. QED  BY <3>2 DEF q, u, v
  <2>. QED  BY <1>1, <2>1, <2>2, <2>3 DEF Queued
<1>4. \A t \in Thing : Holders(t)' = Holders(t) /\ Held(t)' = Held(t)
  BY <1>1 DEF Key!Send, Holders, Active, Calls, Caller, Key!Down, Held
<1>. QED  BY <1>1, <1>3, <1>4 DEF Matched, Stream

(* While nothing is being sent the releases to come may only grow. *)
LEMMA ScanMatched ==
  ASSUME Matched, UNCHANGED <<eventQueue, sends, hidVars>>,
         \A p \in Key!Position, op \in {"PRESS", "HOLD"} : Active(p, op) => Active(p, op)'
  PROVE  Matched'
<1>1. Stream' = Stream
  BY DEF Stream, Queued, hidVars
<1>2. ASSUME NEW t \in Thing
      PROVE  Covered(Held(t), Places("down", Stream, t), Places("up", Stream, t), Holders(t)')
  <2>. DEFINE A == Held(t)
              P == Places("down", Stream, t)
              R == Places("up", Stream, t)
              H == Holders(t)
              H2 == Holders(t)'
  <2>1. Covered(A, P, R, H) /\ H \subseteq H2
    BY HoldersGrow DEF Matched
  <2>. HIDE DEF A, P, R, H, H2
  <2>2. Covered(A, P, R, H2)
    BY <2>1, CoveredWeaker
  <2>. QED  BY <2>2 DEF A, P, R, H2
<1>3. \A t \in Thing : Held(t)' = Held(t)
  BY DEF Held, hidVars
<1>. QED  BY <1>1, <1>2, <1>3 DEF Matched

-----------------------------------------------------------------------------
(* Where all keymaps have hold bindings, or none, the layer tells which. *)
LEMMA LayerTells ==
  ASSUME Key!UniformLayers, Key!TypeOK, KP!KeyInv
  PROVE  /\ Key!CurrentLayer.on_hold_bound => HeldOp = "HOLD"
         /\ ~ Key!CurrentLayer.on_hold_bound => HeldOp = "PRESS" /\ \A p \in Key!Position : timeouts[p] = -1
         /\ \A p \in Key!Position : timeouts[p] # -1 => p \in Key!Down
         /\ (\E p \in Key!Position : timeouts[p] # -1) => HeldOp = "HOLD"
<1>1. layer \in LayerIds
  BY DEF Key!TypeOK
<1>2. Key!HoldKeymaps => Key!CurrentLayer.on_hold_bound
  BY <1>1 DEF Key!HoldKeymaps, Key!CurrentLayer
<1>3. Key!PlainKeymaps => ~ Key!CurrentLayer.on_hold_bound
  BY DEF Key!PlainKeymaps, Key!CurrentLayer, Key!EmptyLayer
<1>4. Key!Position = KP!Position /\ Key!Down = KP!Down /\ (Key!PlainKeymaps <=> KP!PlainKeymaps)
  BY SameKeyClaims DEF Key!Position, KP!Position
<1>5. /\ \A p \in Key!Position : timeouts[p] # -1 => p \in Key!Down
      /\ Key!PlainKeymaps => \A p \in Key!Position : timeouts[p] = -1
  BY <1>4 DEF KP!KeyInv, KP!TimersOfDownKeys, KP!TimersUnused
<1>. QED  BY <1>2, <1>3, <1>5 DEF Key!UniformLayers, HeldOp

(* A call list of one or two is what it says. *)
LEMMA OneCall ==
  ASSUME NEW c, calls' = <<c>>
  PROVE  calls' # <<>> /\ Head(calls') = c /\ Tail(calls') = <<>>
OBVIOUS

LEMMA TwoCalls ==
  ASSUME NEW c, NEW d, calls' = <<c, d>>
  PROVE  /\ calls' # <<>> /\ Head(calls') = c /\ Tail(calls') # <<>>
         /\ Head(Tail(calls')) = d /\ Tail(Tail(calls')) = <<>>
OBVIOUS

(* The first scan: keys held long enough. *)
LEMMA HoldScan ==
  ASSUME Key!UniformLayers, Key!TypeOK, Key!TypeOK', KP!KeyInv, Key!HoldFires \/ Key!HoldSkips
  PROVE  /\ CallsShape'
         /\ \A p \in Key!Position, op \in {"PRESS", "HOLD"} : Active(p, op) => Active(p, op)'
<1>1. /\ calls = <<>> /\ keyPos \in Key!Position /\ keyPos' = keyPos + 1 /\ Key!Down' = Key!Down
      /\ timeouts \in [Key!Position -> Key!Tick \cup {-1}] /\ keyPos \in Int
  BY DEF Key!HoldFires, Key!HoldSkips, Key!Scan, Key!At, Key!Down, Key!TypeOK, Key!Position
<1>2. Caller' = keyPos
  BY <1>1 DEF Caller
<1>3. CASE Key!HoldSkips
  BY <1>1, <1>3 DEF Key!HoldSkips, CallsShape, Active, Calls
<1>4. CASE Key!HoldFires
  <2>1. /\ timeouts[keyPos] # -1 /\ timeouts' = [timeouts EXCEPT ![keyPos] = -1]
        /\ calls' = <<Key!Call("HOLD", "DO")>>
    BY <1>4 DEF Key!HoldFires, Key!HoldDue
  <2>2. Key!Call("HOLD", "DO") = [key |-> keys[keyPos], op |-> "HOLD", bae |-> "DO"]
    BY DEF Key!Call
  <2>3. calls' # <<>> /\ Head(calls') = Key!Call("HOLD", "DO") /\ Tail(calls') = <<>>
    BY <2>1, OneCall
  <2>4. Head(calls').key = keys[keyPos] /\ Head(calls').op = "HOLD" /\ Head(calls').bae = "DO"
    BY <2>2, <2>3
  <2>5. HeldOp = "HOLD" /\ keyPos \in Key!Down
    BY <1>1, <2>1, LayerTells
  <2>6. timeouts'[keyPos] = -1
    BY <1>1, <2>1
  <2>7. CallsShape'
    BY <1>1, <1>2, <2>3, <2>4, <2>5, <2>6 DEF CallsShape, HeldOp
  <2>8. ASSUME NEW p \in Key!Position, NEW op \in {"PRESS", "HOLD"}, Active(p, op)  PROVE Active(p, op)'
    <3>1. p \in Key!Down /\ timeouts[p] = -1 /\ op = HeldOp
      BY <1>1, <2>8 DEF Active, Calls
    <3>2. p # keyPos /\ timeouts'[p] = -1
      BY <1>1, <2>1, <3>1
    <3>. QED  BY <1>1, <1>2, <3>1, <3>2 DEF Active, HeldOp
  <2>. QED  BY <2>7, <2>8
<1>. QED  BY <1>3, <1>4

(* The second scan: keys that moved. *)
LEMMA EdgeScanned ==
  ASSUME Key!UniformLayers, Key!TypeOK, Key!TypeOK', KP!KeyInv, Key!EdgeScan
  PROVE  /\ CallsShape'
         /\ \A p \in Key!Position, op \in {"PRESS", "HOLD"} : Active(p, op) => Active(p, op)'
<1>1. /\ calls = <<>> /\ keyPos \in Key!Position /\ keyPos' = keyPos + 1 /\ Key!Scan("edge")
      /\ timeouts \in [Key!Position -> Key!Tick \cup {-1}] /\ now # -1
  <2>1. Key!Scan("edge")
    BY DEF Key!EdgeScan, Key!NoEdge, Key!HoldLayerPress, Key!HoldLayerTap, Key!HoldLayerRelease, Key!PlainPress, Key!PlainRelease
  <2>2. now # -1
    BY SizesAssumption DEF Key!TypeOK, Key!Tick
  <2>. QED  BY <2>1, <2>2 DEF Key!Scan, Key!At, Key!TypeOK
<1>2. Caller' = keyPos
  BY <1>1 DEF Caller, Key!Position
<1>3. Key!Down' = IF keyPos \in current THEN Key!Down \cup {keyPos} ELSE Key!Down \ {keyPos}
  <2>1. KP!TypeOK /\ KP!Scan("edge") /\ Key!Down = KP!Down
    BY <1>1, SameKeyClaims DEF Key!Scan, KP!Scan, Key!At, KP!At, Key!Position, KP!Position, Key!pollVars, KP!pollVars
  <2>2. KP!Down' = IF keyPos \in current THEN KP!Down \cup {keyPos} ELSE KP!Down \ {keyPos}
    BY <2>1, KeyParameters, KP!DownAfterEdge
  <2>3. Key!Down' = KP!Down'
    BY DEF Key!Down, KP!Down
  <2>. QED  BY <2>1, <2>2, <2>3
<1>4. keyPos \in Key!Down <=> keyPos \in previous
  BY <1>1, SizesAssumption DEF Key!Down, Key!Scan, Key!At, Key!Position
<1>5. \A p \in Key!Position, op \in {"PRESS", "HOLD"} :
        Active(p, op) => p \in Key!Down /\ timeouts[p] = -1 /\ op = HeldOp
  BY <1>1 DEF Active, Calls
<1>6. ASSUME NEW p \in Key!Position, p # keyPos, timeouts'[p] = timeouts[p], NEW op \in {"PRESS", "HOLD"}, Active(p, op)
      PROVE  Active(p, op)'
  BY <1>1, <1>2, <1>3, <1>5, <1>6 DEF Active, HeldOp
<1>7. CASE Key!NoEdge
  <2>1. calls' = <<>> /\ timeouts' = timeouts /\ (keyPos \in current <=> keyPos \in previous)
    BY <1>1, <1>7 DEF Key!NoEdge, Key!Pressed, Key!Released
  <2>2. Key!Down' = Key!Down
    BY <1>3, <1>4, <2>1
  <2>. QED  BY <1>5, <2>1, <2>2 DEF CallsShape, Active, Calls, HeldOp
<1>8. CASE Key!HoldLayerPress
  <2>1. calls' = <<>> /\ timeouts' = [timeouts EXCEPT ![keyPos] = now] /\ keyPos \notin previous
    BY <1>1, <1>8 DEF Key!HoldLayerPress, Key!Pressed
  <2>2. ASSUME NEW p \in Key!Position, NEW op \in {"PRESS", "HOLD"}, Active(p, op)  PROVE Active(p, op)'
    <3>1. p # keyPos /\ timeouts'[p] = timeouts[p]
      BY <1>1, <1>4, <1>5, <2>1, <2>2
    <3>. QED  BY <1>6, <2>2, <3>1
  <2>. QED  BY <2>1, <2>2 DEF CallsShape
<1>9. CASE Key!HoldLayerTap
  <2>1. /\ timeouts[keyPos] # -1 /\ timeouts' = [timeouts EXCEPT ![keyPos] = -1]
        /\ calls' = <<Key!Call("PRESS", "DO"), Key!Call("PRESS", "UNDO")>>
    BY <1>9 DEF Key!HoldLayerTap, Key!Tapped
  <2>2. /\ Key!Call("PRESS", "DO") = [key |-> keys[keyPos], op |-> "PRESS", bae |-> "DO"]
        /\ Key!Call("PRESS", "UNDO") = [key |-> keys[keyPos], op |-> "PRESS", bae |-> "UNDO"]
    BY DEF Key!Call
  <2>3. /\ calls' # <<>> /\ Head(calls') = Key!Call("PRESS", "DO") /\ Tail(calls') # <<>>
        /\ Head(Tail(calls')) = Key!Call("PRESS", "UNDO") /\ Tail(Tail(calls')) = <<>>
    BY <2>1, TwoCalls
  <2>4. /\ Head(calls').key = keys[keyPos] /\ Head(calls').op = "PRESS" /\ Head(calls').bae = "DO"
        /\ Head(Tail(calls')) = [Head(calls') EXCEPT !.bae = "UNDO"]
    BY <2>2, <2>3
  <2>5. CallsShape'
    BY <1>1, <1>2, <2>3, <2>4 DEF CallsShape
  <2>6. ASSUME NEW p \in Key!Position, NEW op \in {"PRESS", "HOLD"}, Active(p, op)  PROVE Active(p, op)'
    <3>1. p # keyPos /\ timeouts'[p] = timeouts[p]
      BY <1>1, <1>5, <2>1, <2>6
    <3>. QED  BY <1>6, <2>6, <3>1
  <2>. QED  BY <2>5, <2>6
<1>10. CASE Key!PlainPress
  <2>1. /\ keyPos \in current /\ keyPos \notin previous /\ ~ Key!CurrentLayer.on_hold_bound
        /\ timeouts' = timeouts /\ calls' = <<Key!Call("PRESS", "DO")>>
    BY <1>10 DEF Key!PlainPress, Key!Pressed
  <2>2. Key!Call("PRESS", "DO") = [key |-> keys[keyPos], op |-> "PRESS", bae |-> "DO"]
    BY DEF Key!Call
  <2>3. calls' # <<>> /\ Head(calls') = Key!Call("PRESS", "DO") /\ Tail(calls') = <<>>
    BY <2>1, OneCall
  <2>4. Head(calls').key = keys[keyPos] /\ Head(calls').op = "PRESS" /\ Head(calls').bae = "DO"
    BY <2>2, <2>3
  <2>5. HeldOp = "PRESS" /\ timeouts[keyPos] = -1 /\ keyPos \in Key!Down'
    BY <1>1, <1>3, <2>1, LayerTells
  <2>6. CallsShape'
    BY <1>1, <1>2, <2>1, <2>3, <2>4, <2>5 DEF CallsShape, HeldOp
  <2>7. ASSUME NEW p \in Key!Position, NEW op \in {"PRESS", "HOLD"}, Active(p, op)  PROVE Active(p, op)'
    <3>1. p # keyPos
      BY <1>4, <1>5, <2>1, <2>7
    <3>. QED  BY <1>6, <2>1, <2>7, <3>1
  <2>. QED  BY <2>6, <2>7
<1>11. CASE Key!HoldLayerRelease \/ Key!PlainRelease
  <2>1. PICK o \in {"PRESS", "HOLD"} : HeldOp = o /\ calls' = <<Key!Call(o, "UNDO")>>
    <3>1. CASE Key!HoldLayerRelease
      BY <3>1, LayerTells DEF Key!HoldLayerRelease
    <3>2. CASE Key!PlainRelease
      BY <3>2, LayerTells DEF Key!PlainRelease
    <3>. QED  BY <1>11, <3>1, <3>2
  <2>2. Key!Call(o, "UNDO") = [key |-> keys[keyPos], op |-> o, bae |-> "UNDO"]
    BY DEF Key!Call
  <2>3. calls' # <<>> /\ Head(calls') = Key!Call(o, "UNDO") /\ Tail(calls') = <<>>
    BY <2>1, OneCall
  <2>4. Head(calls').key = keys[keyPos] /\ Head(calls').op = o /\ Head(calls').bae = "UNDO"
    BY <2>2, <2>3
  <2>5. CallsShape'
    BY <1>1, <1>2, <2>3, <2>4 DEF CallsShape
  <2>6. ASSUME NEW p \in Key!Position, NEW op \in {"PRESS", "HOLD"}, Active(p, op)  PROVE Active(p, op)'
    <3>1. \A q \in Key!Position : q # keyPos => timeouts'[q] = timeouts[q]
      BY <1>1, <1>11 DEF Key!HoldLayerRelease, Key!PlainRelease
    <3>2. CASE p = keyPos
      <4>1. op = Head(calls').op /\ Calls("UNDO")' /\ p = Caller'
        BY <1>2, <1>5, <2>1, <2>3, <2>4, <2>6, <3>2 DEF Calls
      <4>. QED  BY <4>1 DEF Active
    <3>3. CASE p # keyPos
      BY <1>6, <2>6, <3>1, <3>3
    <3>. QED  BY <3>2, <3>3
  <2>. QED  BY <2>5, <2>6
<1>. QED  BY <1>7, <1>8, <1>9, <1>10, <1>11 DEF Key!EdgeScan

(* Between the scans. *)
LEMMA BetweenScans ==
  ASSUME Key!TypeOK, Key!Receive \/ Key!HoldDone \/ Key!EdgeDone
  PROVE  /\ CallsShape'
         /\ \A p \in Key!Position, op \in {"PRESS", "HOLD"} : Active(p, op) => Active(p, op)'
<1>1. calls = <<>> /\ calls' = <<>> /\ timeouts' = timeouts
  BY DEF Key!Receive, Key!HoldDone, Key!EdgeDone, Key!At
<1>2. Key!Down' = Key!Down
  <2>1. KP!TypeOK /\ Key!Down = KP!Down
    BY SameKeyClaims
  <2>2. KP!Receive \/ KP!HoldDone \/ KP!EdgeDone
    BY DEF Key!Receive, Key!HoldDone, Key!EdgeDone, Key!At, Key!pollVars,
           KP!Receive, KP!HoldDone, KP!EdgeDone, KP!At, KP!pollVars
  <2>3. KP!Down' = KP!Down
    BY <2>1, <2>2, KeyParameters, KP!DownBetween
  <2>4. Key!Down' = KP!Down'
    BY DEF Key!Down, KP!Down
  <2>. QED  BY <2>1, <2>3, <2>4
<1>. QED  BY <1>1, <1>2 DEF CallsShape, Active, Calls, HeldOp

-----------------------------------------------------------------------------
(* The process-keys task never makes a key held for ever. *)
LEMMA KeySideStuck ==
  ASSUME Key!UniformLayers, LetsGo, Hid!TypeOK, Key!TypeOK, Key!TypeOK', KP!KeyInv, StuckInv, KeySide
  PROVE  StuckInv'
<1>1. UNCHANGED <<hidVars, overrun>> /\ lost' = (lost \/ Loses) /\ Key!KeyStep
  BY DEF KeySide
<1>2. FormShape'
  BY <1>1 DEF StuckInv, FormShape, hidVars
<1>3. CASE Key!Receive \/ Key!HoldDone \/ Key!EdgeDone \/ Key!HoldFires \/ Key!HoldSkips \/ Key!EdgeScan
  <2>1. UNCHANGED <<eventQueue, sends>>
    BY <1>3 DEF Key!Receive, Key!HoldDone, Key!EdgeDone, Key!HoldFires, Key!HoldSkips, Key!EdgeScan, Key!NoEdge,
       Key!HoldLayerPress, Key!HoldLayerTap, Key!HoldLayerRelease, Key!PlainPress, Key!PlainRelease, Key!Scan
  <2>2. /\ CallsShape'
        /\ \A p \in Key!Position, op \in {"PRESS", "HOLD"} : Active(p, op) => Active(p, op)'
    BY <1>3, BetweenScans, HoldScan, EdgeScanned
  <2>3. Matched => Matched'
    BY <1>1, <2>1, <2>2, ScanMatched
  <2>. QED  BY <1>1, <1>2, <2>2, <2>3 DEF StuckInv, Intact
<1>4. CASE Key!EnqueueStart
  <2>1. calls # <<>> /\ calls' = Tail(calls) /\ UNCHANGED <<keyPos, timeouts>>
    BY <1>4 DEF Key!EnqueueStart
  <2>2. Calls("DO") \/ Calls("UNDO")
    BY <2>1 DEF StuckInv, CallsShape, Calls
  <2>3. Matched => Matched'
    BY <1>1, <1>4, <2>2, DoMatched, UndoMatched DEF StuckInv, Intact
  <2>4. CallsShape'
    <3>1. Caller' = Caller
      BY <2>1 DEF Caller
    <3>2. CASE Tail(calls) = <<>>
      BY <2>1, <3>2 DEF CallsShape
    <3>3. CASE Tail(calls) # <<>>
      <4>1. /\ Head(Tail(calls)) = [Head(calls) EXCEPT !.bae = "UNDO"] /\ Tail(Tail(calls)) = <<>>
            /\ Caller \in Key!Position /\ Head(calls).key = keys[Caller] /\ Head(calls).op \in {"PRESS", "HOLD"}
        BY <2>1, <3>3 DEF StuckInv, CallsShape
      <4>2. Head(calls) \in Key!EnqueueCall
        BY <2>1, HeadTailProperties DEF Key!TypeOK
      <4>3. /\ Head(calls').key = keys[Caller] /\ Head(calls').op \in {"PRESS", "HOLD"}
            /\ Head(calls').bae = "UNDO" /\ Tail(calls') = <<>>
        BY <2>1, <4>1, <4>2 DEF Key!EnqueueCall
      <4>. QED  BY <3>1, <4>1, <4>3 DEF CallsShape
    <3>. QED  BY <3>2, <3>3
  <2>. QED  BY <1>1, <1>2, <2>3, <2>4 DEF StuckInv, Intact
<1>5. CASE Key!Send \/ Key!SendTimeout
  <2>1. UNCHANGED <<calls, keyPos, keyPc, current, previous, timeouts>> /\ sends # <<>> /\ sends' = Tail(sends)
    BY <1>5 DEF Key!Send, Key!SendTimeout
  <2>2. CallsShape'
    BY <2>1 DEF StuckInv, CallsShape, Caller, Key!Down, HeldOp
  <2>3. CASE Key!Send
    <3>1. Matched => Matched'
      BY <1>1, <2>3, SendMatched
    <3>. QED  BY <1>1, <1>2, <2>2, <3>1 DEF StuckInv, Intact
  <2>4. CASE Key!SendTimeout
    <3>1. sends' # sends
      <4>1. sends \in Seq(StreamMessage)
        BY StreamParts
      <4>2. Len(Tail(sends)) # Len(sends)
        BY <2>1, <4>1, HeadTailProperties, LenProperties
      <4>. QED  BY <2>1, <4>2
    <3>2. Loses
      BY <2>1, <2>4, <3>1 DEF Loses, Key!SendTimeout
    <3>. QED  BY <1>1, <1>2, <2>2, <3>2 DEF StuckInv, Intact
  <2>. QED  BY <1>5, <2>3, <2>4
<1>. QED  BY <1>1, <1>3, <1>4, <1>5 DEF Key!KeyStep

(* Nor does the usb-hid task; it writes no modifier into a slot, and keeps *)
(* a message only while it applies it.                                     *)
LEMMA HidSideStuck ==
  ASSUME Hid!TypeOK, Key!TypeOK, Hid!TypeOK', StuckInv, HidSide
  PROVE  StuckInv'
<1>1. UNCHANGED keyVars /\ lost' = lost /\ overrun' = (overrun \/ Overruns)
  BY DEF HidSide
<1>2. CallsShape'
  BY <1>1 DEF StuckInv, CallsShape, Caller, Key!Down, HeldOp, keyVars
<1>3. Matched /\ ~ Overruns => Matched'
  BY HidSideMatched DEF StuckInv
<1>4. hidPc' # "apply" => msg' = Hid!NoMsg
  BY DEF StuckInv, FormShape, HidSide, Hid!HidStep, Hid!BusStep, Hid!HidDequeue, Hid!Take, Hid!TakeReboot,
         Hid!TakeRebootBootloader, Hid!TakeMotion, Hid!TakeClick, Hid!TakeRelease, Hid!TakeLayerSwitch, Hid!TakeDelay,
         Hid!TakeKeys, Hid!TakeSidewaysScroll, Hid!hidVars, Hid!Claim, Hid!DelayOver, Hid!ApplyNext,
         Hid!PressModifier, Hid!PressKey, Hid!PressSpills, Hid!ReleaseModifier, Hid!ReleaseKey, Hid!ReleaseNothing,
         Hid!ClaimKeyboard, Hid!HidSubmit, Hid!ReportComplete, Hid!Mount, Hid!Suspend, Hid!Resume, Hid!BusReset,
         Hid!localVars
<1>5. ASSUME NEW s \in Hid!Slot  PROVE keycode'[s] \notin ModifierCode
  <2>1. keycode \in [Hid!Slot -> Hid!Code] /\ keycode[s] \notin ModifierCode /\ 0 \notin ModifierCode
    BY DEF Hid!TypeOK, StuckInv, FormShape, ModifierCode
  <2>2. CASE Hid!PressKey
    <3>1. /\ Hid!NextCode \notin ModifierCode
          /\ \E x \in Hid!Slot : keycode' = [keycode EXCEPT ![x] = Hid!NextCode]
      BY <2>2 DEF Hid!PressKey, Hid!ModifierCode, ModifierCode
    <3>. QED  BY <2>1, <3>1
  <2>3. CASE Hid!ReleaseKey
    <3>1. \E x \in Hid!Slot : keycode' = [keycode EXCEPT ![x] = 0]
      BY <2>3 DEF Hid!ReleaseKey
    <3>. QED  BY <2>1, <3>1
  <2>4. CASE ~ Hid!PressKey /\ ~ Hid!ReleaseKey
    <3>1. keycode' = keycode
      BY <2>4 DEF HidSide, Hid!HidStep, Hid!BusStep, Hid!HidDequeue, Hid!TakeReboot,
         Hid!TakeRebootBootloader, Hid!TakeMotion, Hid!TakeClick, Hid!TakeRelease, Hid!TakeLayerSwitch, Hid!TakeDelay,
         Hid!TakeKeys, Hid!TakeSidewaysScroll, Hid!hidVars, Hid!formVars, Hid!DelayOver,
         Hid!PressModifier, Hid!PressSpills, Hid!ReleaseModifier, Hid!ReleaseNothing,
         Hid!ClaimKeyboard, Hid!HidSubmit, Hid!ReportComplete, Hid!Mount, Hid!Suspend, Hid!Resume, Hid!BusReset,
         Hid!localVars
    <3>. QED  BY <2>1, <3>1
  <2>. QED  BY <2>2, <2>3, <2>4
<1>. QED  BY <1>1, <1>2, <1>3, <1>4, <1>5 DEF StuckInv, Intact, FormShape

(* RAM at power-up holds nothing. *)
Cleared ==
  /\ eventQueue = <<>> /\ sends = <<>> /\ calls = <<>> /\ msg = Hid!NoMsg
  /\ keycode = Hid!NoKeys /\ modifer = {} /\ mouse_buttons = {}

LEMMA ClearedStuck == Cleared => StuckInv
<1>. SUFFICES ASSUME Cleared  PROVE StuckInv
  OBVIOUS
<1>1. CallsShape /\ FormShape
  BY DEF Cleared, CallsShape, FormShape, Hid!NoKeys, ModifierCode
<1>2. ASSUME NEW t \in Thing
      PROVE  Held(t) = {} /\ Places("down", Stream, t) = {}
  <2>1. t # 0
    BY DEF Thing
  <2>2. Held(t) = {}
    BY <2>1 DEF Cleared, Held, Hid!NoKeys
  <2>3. Codes("down", msg) = <<>>
    BY NoMsgCodeless DEF Cleared
  <2>4. msg \in StreamMessage
    <3>1. Hid!NoMsg \in Hid!Applied
      BY KeyRollOverAssumption, EmptySeq DEF Hid!NoMsg, Hid!Applied, Hid!CodeList
    <3>. QED  BY <3>1, StreamTypes DEF Cleared
  <2>5. Queued \in Seq(StreamMessage) /\ Len(Queued) = 0
    BY ConcatProperties, EmptySeq DEF Cleared, Queued
  <2>6. Places("down", Stream, t) = Places("down", Queued, t)
    BY <2>3, <2>4, <2>5, CodelessFront DEF Stream
  <2>7. Places("down", Queued, t) = {}
    BY <2>5 DEF Places
  <2>. QED  BY <2>2, <2>6, <2>7
<1>3. Matched
  BY <1>2, NothingCovered DEF Matched
<1>. QED  BY <1>1, <1>3 DEF StuckInv

(* The invariant is kept by every step. *)
LEMMA StuckInvStep ==
  ASSUME Key!UniformLayers, LetsGo,
         Hid!TypeOK, Key!TypeOK, Hid!TypeOK', Key!TypeOK', KP!KeyInv, StuckInv, [Next]_vars
  PROVE  StuckInv'
<1>1. CASE MatrixSide \/ UNCHANGED vars
  <2>1. UNCHANGED <<eventQueue, keyPc, keyPos, current, previous, timeouts, calls, sends, hidVars, lost, overrun>>
    BY <1>1 DEF MatrixSide, Key!MatrixStep, vars, keyVars, hidVars
  <2>2. \A p \in Key!Position, op \in {"PRESS", "HOLD"} : Active(p, op) => Active(p, op)'
    BY <2>1 DEF Active, Calls, Caller, Key!Down, HeldOp
  <2>3. Matched => Matched'
    BY <2>1, <2>2, ScanMatched
  <2>4. CallsShape' /\ FormShape'
    BY <2>1 DEF StuckInv, CallsShape, FormShape, Caller, Key!Down, HeldOp, hidVars
  <2>. QED  BY <2>1, <2>3, <2>4 DEF StuckInv, Intact
<1>2. CASE Reboot
  <2>1. Cleared'
    BY <1>2 DEF Reboot, Cleared, Hid!Restart, Key!Restarted
  <2>. QED  BY <2>1, ClearedStuck, PTL
<1>. QED  BY <1>1, <1>2, KeySideStuck, HidSideStuck DEF Next

(* At rest no release is still to come, so that none is needed. *)
LEMMA RestLetsGo ==
  ASSUME Hid!TypeOK, Hid!HostInSync, StuckInv
  PROVE  NoStuckKey
<1>. SUFFICES ASSUME AtRest, Intact
              PROVE  NothingHeld /\ hostKeys \in {NoReport, Hid!KeyboardForm}
  BY DEF NoStuckKey, Intact
<1>1. msg = Hid!NoMsg /\ eventQueue = <<>> /\ sends = <<>> /\ calls = <<>> /\ Key!Down = {}
  BY DEF AtRest, StuckInv, FormShape, Key!Down
<1>2. ASSUME NEW t \in Thing  PROVE Held(t) = {}
  <2>1. \A way \in {"down", "up"} : Places(way, Stream, t) = {}
    <3>. TAKE way \in {"down", "up"}
    <3>1. Codes(way, msg) = <<>> /\ msg \in StreamMessage
      BY <1>1, NoMsgCodeless, StreamTypes DEF Hid!TypeOK
    <3>2. Queued \in Seq(StreamMessage) /\ Len(Queued) = 0
      BY <1>1, ConcatProperties, EmptySeq DEF Queued
    <3>3. Places(way, Stream, t) = Places(way, Queued, t)
      BY <3>1, <3>2, CodelessFront DEF Stream
    <3>4. Places(way, Queued, t) = {}
      BY <3>2 DEF Places
    <3>. QED  BY <3>3, <3>4
  <2>2. Holders(t) = {}
    BY <1>1 DEF Holders, Active, Calls
  <2>3. Covered(Held(t), {}, {}, {})
    BY <2>1, <2>2 DEF StuckInv, Matched
  <2>. QED  BY <2>3, NothingLeft
<1>3. keycode = Hid!NoKeys
  <2>1. keycode \in [Hid!Slot -> Hid!Code]
    BY DEF Hid!TypeOK
  <2>2. ASSUME NEW s \in Hid!Slot  PROVE keycode[s] = 0
    <3>. SUFFICES ASSUME keycode[s] # 0  PROVE FALSE
      OBVIOUS
    <3>1. keycode[s] \in Thing /\ keycode[s] \notin ModifierCode /\ ~ (keycode[s] > 255)
      BY <2>1 DEF Hid!Code, Thing, StuckInv, FormShape
    <3>2. s \in Held(keycode[s])
      BY <3>1 DEF Held
    <3>. QED  BY <1>2, <3>1, <3>2
  <2>. QED  BY <2>1, <2>2 DEF Hid!NoKeys
<1>4. modifer = {}
  <2>. SUFFICES ASSUME NEW b \in modifer  PROVE FALSE
    OBVIOUS
  <2>1. b \in 0 .. 7
    BY DEF Hid!TypeOK, Hid!Bit
  <2>2. 224 + b \in Thing /\ 224 + b \in ModifierCode /\ ~ (224 + b > 255) /\ ModifierBit(224 + b) = b
    BY <2>1 DEF Thing, ModifierCode, ModifierBit
  <2>3. 0 \in Held(224 + b)
    BY <2>2 DEF Held
  <2>. QED  BY <1>2, <2>2, <2>3
<1>5. mouse_buttons = {}
  <2>. SUFFICES ASSUME NEW b \in mouse_buttons  PROVE FALSE
    OBVIOUS
  <2>1. b \in 0 .. 7
    BY DEF Hid!TypeOK, Hid!Bit
  <2>2. 256 + b \in Thing /\ 256 + b > 255 /\ (256 + b) - 256 = b
    BY <2>1 DEF Thing
  <2>3. 0 \in Held(256 + b)
    BY <2>2 DEF Held
  <2>. QED  BY <1>2, <2>2, <2>3
<1>6. hostKeys \in {NoReport, Hid!KeyboardForm}
  BY DEF AtRest, Hid!HostInSync, Hid!Synced
<1>. QED  BY <1>3, <1>4, <1>5, <1>6 DEF NothingHeld

(* No key, modifier or mouse button stays down once the keyboard is at     *)
(* rest, whatever tasks, bus and matrix did, on a board where all layers   *)
(* have hold bindings or none has (UniformLayers) and where what a binding *)
(* presses is let go by its own UNDO, in whatever layer that is asked for  *)
(* (LetsGo).  NoStuckKey itself excuses a run in which a message was lost  *)
(* or a press was written over modifer or mouse_buttons.                   *)
THEOREM NoKeyStuck ==
  Key!UniformLayers /\ LetsGo => (Spec => []NoStuckKey)
<1>. SUFFICES ASSUME Key!UniformLayers, LetsGo
              PROVE  Spec => []NoStuckKey
  OBVIOUS
<1>1. Spec => [](Hid!TypeOK /\ Hid!HostInSync)
  BY FirmwareHidCorrect, PTL
<1>2. Spec => [](Key!TypeOK /\ KP!KeyInv)
  <2>1. Spec => []Key!TypeOK
    BY FirmwareKeysCorrect
  <2>2. Spec => []KP!KeyInv
    BY FirmwareKeysCorrect
  <2>. QED  BY <2>1, <2>2, PTL
<1>3. Init => StuckInv
  <2>1. Init => Cleared
    BY DEF Init, Key!Init, Hid!Init, Cleared
  <2>. QED  BY <2>1, ClearedStuck
<1>4. Hid!TypeOK /\ Hid!TypeOK' /\ Key!TypeOK /\ Key!TypeOK' /\ KP!KeyInv /\ StuckInv /\ [Next]_vars => StuckInv'
  BY StuckInvStep
<1>5. Hid!TypeOK /\ Hid!HostInSync /\ StuckInv => NoStuckKey
  BY RestLetsGo
<1>. QED  BY <1>1, <1>2, <1>3, <1>4, <1>5, PTL DEF Spec

-----------------------------------------------------------------------------
(* The keymaps for which this is so: what the parser makes of any action   *)
(* but the one that presses and leaves it to another key to let go.        *)
PlainClass ==
  {"GENERIC_KEY", "MOUSE_CLICK", "CLICK_KEY", "RELEASE_KEY", "DELAY", "SWITCH_TO_LAYER", "RESET_KEEB",
   "KEEB_BOOTLOADER", "MOUSE_SCROLL", "MOUSE_MOVE", "NON_REPEATING_STRING_TYPER"} \cup Key!SilentAction

IsPlain(a) ==
  /\ a.type \in PlainClass
  /\ a.type \in {"GENERIC_KEY", "CLICK_KEY", "RELEASE_KEY"} => a.keycodes \in Seq(Int)
  /\ a.type = "MOUSE_CLICK" => a.button \in Bit
  /\ a.type = "SWITCH_TO_LAYER" => a.target_layer \in LayerIds
  /\ a.type = "NON_REPEATING_STRING_TYPER" => a.payload \in Seq(Int)

IsPlainSequence(a) ==
  /\ a.type = "SEQUENCE"
  /\ Len(a.sequence) \in Nat /\ DOMAIN a.sequence = 1 .. Len(a.sequence)
  /\ \A i \in 1 .. Len(a.sequence) : IsPlain(a.sequence[i])

PlainBoard ==
  \A l \in DOMAIN Layers : \A b \in DOMAIN Layers[l].bindings :
    IsPlain(Layers[l].bindings[b]) \/ IsPlainSequence(Layers[l].bindings[b])

(* A key lets go of the same codes in every layer. *)
SameUndo ==
  \A l \in LayerIds, k \in Key!KeyNumber, op \in {"PRESS", "HOLD"} :
    Key!LayerEnqueue(LayerOf(l), k, op, "UNDO") = Undo(k, op)

(* Messages that let go of t themselves, each press in a later message. *)
Tidy(t) == {u \in Seq(StreamMessage) : Covered({}, Places("down", u, t), Places("up", u, t), {})}

(* A set of numbers that is not empty has a least element. *)
LEMMA LeastNat ==
  ASSUME NEW S, S \subseteq Nat, S # {}
  PROVE  \E n \in S : \A m \in S : n <= m
<1>. DEFINE R == OpToRel(<, Nat)
<1>1. \A x, y \in Nat : x < y => <<x, y>> \in R
  BY Zenon DEF OpToRel
<1>2. IsWellFoundedOn(R, Nat)
  BY NatLessThanWellFounded
<1>. HIDE DEF R
<1>3. PICK n \in S : \A m \in S : ~ (<<m, n>> \in R)
  BY <1>2, WFMin
<1>4. \A m \in S : ~ (m < n)
  BY <1>1, <1>3
<1>. QED  BY <1>4

(* A set that holds the parts, and with two lists the one behind the       *)
(* other, holds the whole.                                                 *)
LEMMA FlattenClosed ==
  ASSUME NEW s, Len(s) \in Nat \ {0}, NEW T,
         \A u, v \in T : u \o v \in T, \A i \in 1 .. Len(s) : s[i] \in T
  PROVE  Key!FlattenSeq(s) \in T
<1>. DEFINE Sums(g, m) == g = [i \in 1 .. m |-> IF i = 1 THEN s[i] ELSE g[i - 1] \o s[i]]
            n == Len(s)
<1>1. \A m \in Nat : \E g : Sums(g, m)
  <2>. HIDE DEF Sums
  <2>. DEFINE Without == {m \in Nat : \A g : ~ Sums(g, m)}
  <2>. SUFFICES ASSUME Without # {}  PROVE FALSE
    OBVIOUS
  <2>1. PICK m \in Without : \A k \in Without : m <= k
    BY LeastNat
  <2>2. m # 0
    <3>. DEFINE none == [i \in 1 .. 0 |-> s[i]]
    <3>1. Sums(none, 0)
      BY DEF Sums
    <3>. QED  BY <3>1
  <2>3. m - 1 \in Nat /\ m - 1 \notin Without /\ m \in Nat
    BY <2>1, <2>2
  <2>4. PICK g : Sums(g, m - 1)
    BY <2>3
  <2>. DEFINE h == [i \in 1 .. m |-> IF i < m THEN g[i] ELSE IF i = 1 THEN s[i] ELSE g[i - 1] \o s[i]]
  <2>5. \A i \in 1 .. m : h[i] = IF i = 1 THEN s[i] ELSE h[i - 1] \o s[i]
    <3>. SUFFICES ASSUME NEW i \in 1 .. m  PROVE h[i] = IF i = 1 THEN s[i] ELSE h[i - 1] \o s[i]
      OBVIOUS
    <3>1. i # 1 => i - 1 \in 1 .. m /\ i - 1 < m /\ h[i - 1] = g[i - 1]
      BY <2>3
    <3>2. CASE i < m
      <4>1. i \in 1 .. m - 1 /\ h[i] = g[i]
        BY <2>3, <3>2
      <4>2. g[i] = IF i = 1 THEN s[i] ELSE g[i - 1] \o s[i]
        BY <2>4, <4>1 DEF Sums
      <4>. QED  BY <3>1, <4>1, <4>2
    <3>3. CASE ~ (i < m)
      BY <3>1, <3>3
    <3>. QED  BY <3>2, <3>3
  <2>6. h = [i \in 1 .. m |-> h[i]]
    OBVIOUS
  <2>. HIDE DEF h
  <2>7. Sums(h, m)
    BY <2>5, <2>6 DEF Sums
  <2>. QED  BY <2>1, <2>7
<1>2. PICK f : Sums(f, n) /\ Key!FlattenSeq(s) = f[n]
  <2>1. Key!FlattenSeq(s) = (CHOOSE f : Sums(f, n))[n]
    BY Zenon DEF Key!FlattenSeq
  <2>2. \E g : Sums(g, n)
    BY <1>1
  <2>. HIDE DEF Sums
  <2>. QED  BY <2>1, <2>2
<1>3. \A i \in 1 .. n : f[i] \in T
  <2>. DEFINE Outside == {i \in 1 .. n : f[i] \notin T}
  <2>. SUFFICES ASSUME Outside # {}  PROVE FALSE
    OBVIOUS
  <2>0. Outside \subseteq Nat /\ Outside # {}
    OBVIOUS
  <2>. HIDE DEF Outside
  <2>1. PICK i \in Outside : \A k \in Outside : i <= k
    BY <2>0, LeastNat
  <2>. USE DEF Outside
  <2>2. f[i] = IF i = 1 THEN s[i] ELSE f[i - 1] \o s[i]
    BY <1>2
  <2>3. i # 1 => i - 1 \in 1 .. n /\ f[i - 1] \in T
    BY <2>1
  <2>. QED  BY <2>1, <2>2, <2>3
<1>4. n \in 1 .. n
  OBVIOUS
<1>. HIDE DEF Sums, n
<1>. QED  BY <1>2, <1>3, <1>4

(* Two lists that let go of what they press do so one behind the other. *)
LEMMA TidyConcat ==
  ASSUME NEW t, NEW u \in Tidy(t), NEW v \in Tidy(t)
  PROVE  u \o v \in Tidy(t)
<1>. DEFINE P == Places("down", u, t)
            R == Places("up", u, t)
            P1 == Places("down", v, t)
            R1 == Places("up", v, t)
            n == Len(v)
            h == [z \in {} |-> z]
<1>1. u \in Seq(StreamMessage) /\ v \in Seq(StreamMessage) /\ n \in Nat
  BY LenProperties DEF Tidy
<1>2. u \o v \in Seq(StreamMessage)
  BY <1>1, ConcatProperties
<1>3. Covered({}, P, R, {}) /\ Covered({}, P1, R1, {})
  BY DEF Tidy
<1>4. P \subseteq OnItsWay /\ R \subseteq OnItsWay /\ P1 \subseteq OnItsWay /\ R1 \subseteq OnItsWay
  BY <1>1, PlacesOnWay
<1>5. \A z \in P1 \cup R1 : z[1] <= n
  BY <1>1, PlacesOnWay
<1>6. /\ Places("down", u \o v, t) = Shifted(P, n) \cup P1
      /\ Places("up", u \o v, t) = Shifted(R, n) \cup R1
  BY <1>1, PlacesConcat
<1>7. h \in [{} -> {}]
  OBVIOUS
<1>. HIDE DEF P, R, P1, R1, n, h
<1>8. Covered({}, Shifted(P, n) \cup P1, Shifted(R, n) \cup R1, {})
  BY <1>1, <1>3, <1>4, <1>5, <1>7, DoAppended
<1>. QED  BY <1>2, <1>6, <1>8 DEF Tidy

LEMMA TidyCodeless ==
  ASSUME NEW t, NEW m \in StreamMessage, Codes("down", m) = <<>>
  PROVE  One(m) \in Tidy(t)
<1>1. Places("down", One(m), t) = {}
  BY PlacesOfCodeless
<1>2. One(m) \in Seq(StreamMessage)
  BY DEF One
<1>. QED  BY <1>1, <1>2, NothingCovered DEF Tidy

LEMMA TidyNothing == ASSUME NEW t  PROVE <<>> \in Tidy(t)
<1>1. Places("down", <<>>, t) = {}
  BY DEF Places
<1>2. Covered({}, Places("down", <<>>, t), Places("up", <<>>, t), {})
  BY <1>1, NothingCovered
<1>. QED  BY <1>2 DEF Tidy

(* A press and the release of the same codes behind it. *)
LEMMA TidyPair ==
  ASSUME NEW t, NEW p \in StreamMessage, NEW r \in StreamMessage,
         Codes("down", p) = Codes("up", r), Codes("down", r) = <<>>, Codes("up", p) = <<>>
  PROVE  One(p) \o One(r) \in Tidy(t)
<1>. DEFINE m == One(p)
            n == One(r)
            X == Places("up", n, t)
<1>1. m \in Seq(StreamMessage) /\ n \in Seq(StreamMessage) /\ Len(n) = 1
  BY DEF One
<1>2. Places("down", m, t) = X /\ Places("down", n, t) = {} /\ Places("up", m, t) = {}
  BY SamePlaces, PlacesOfCodeless
<1>. HIDE DEF m, n, X
<1>3. /\ Places("down", m \o n, t) = Shifted(Places("down", m, t), 1) \cup Places("down", n, t)
      /\ Places("up", m \o n, t) = Shifted(Places("up", m, t), 1) \cup Places("up", n, t)
  <2>1. m \in Seq(StreamMessage) /\ n \in Seq(StreamMessage)
    BY <1>1
  <2>2. Places("down", m \o n, t) = Shifted(Places("down", m, t), Len(n)) \cup Places("down", n, t)
    BY <2>1, PlacesConcat
  <2>3. Places("up", m \o n, t) = Shifted(Places("up", m, t), Len(n)) \cup Places("up", n, t)
    BY <2>1, PlacesConcat
  <2>. QED  BY <1>1, <2>2, <2>3
<1>4. Shifted({}, 1) = {}
  BY DEF Shifted
<1>5. Places("down", m \o n, t) = Shifted(X, 1) /\ Places("up", m \o n, t) = X
  <2>1. Shifted(X, 1) \cup {} = Shifted(X, 1) /\ {} \cup Places("up", n, t) = X
    BY DEF X
  <2>. QED  BY <1>2, <1>3, <1>4, <2>1
<1>6. X \subseteq OnItsWay
  BY <1>1, PlacesOnWay DEF X
<1>7. m \o n \in Seq(StreamMessage)
  BY <1>1, ConcatProperties
<1>8. \A H : Covered({}, Shifted(X, 1), X, H)
  BY <1>6, LetGoNext
<1>. QED  BY <1>5, <1>7, <1>8 DEF Tidy, m, n

-----------------------------------------------------------------------------
(* What the actions send.                                                  *)
LEMMA QueuedCodesTyped ==
  ASSUME NEW k \in Seq(Int)
  PROVE  Key!QueuedCodes(k) \in CodeList
<1>. DEFINE n == Key!Min({Len(k), KeyRollOver})
            c == Key!QueuedCodes(k)
<1>1. n \in Nat /\ n <= Len(k) /\ n <= KeyRollOver
  <2>1. Len(k) \in Nat /\ KeyRollOver \in Nat
    BY LenProperties, KeyRollOverAssumption
  <2>2. \E x \in {Len(k), KeyRollOver} : \A y \in {Len(k), KeyRollOver} : x <= y
    BY <2>1
  <2>3. n \in {Len(k), KeyRollOver} /\ \A y \in {Len(k), KeyRollOver} : n <= y
    BY <2>2 DEF Key!Min
  <2>. QED  BY <2>1, <2>3
<1>2. c = [i \in 1 .. n |-> k[i] % 256]
  BY DEF Key!QueuedCodes
<1>. HIDE DEF n, c
<1>3. \A i \in 1 .. n : k[i] % 256 \in Code
  <2>. TAKE i \in 1 .. n
  <2>1. k[i] \in Int
    <3>1. i \in 1 .. Len(k)
      BY <1>1
    <3>. QED  BY <3>1, ElementOfSeq
  <2>2. \A z \in Int : z % 256 \in Code
    BY DEF Code
  <2>. QED  BY <2>1, <2>2
<1>4. c \in Seq(Code) /\ Len(c) = n
  BY <1>1, <1>2, <1>3
<1>. QED  BY <1>1, <1>4 DEF CodeList, c

(* A press of some codes, and the release of the same. *)
LEMMA KeyMessages ==
  ASSUME NEW k \in Seq(Int)
  PROVE  \E p, r \in StreamMessage :
           /\ Key!Press(k) = One(p) /\ Key!Release(k) = One(r)
           /\ Codes("down", p) = Codes("up", r) /\ Codes("down", r) = <<>> /\ Codes("up", p) = <<>>
<1>. DEFINE p == [type |-> "PRESS",   codes |-> Key!QueuedCodes(k)]
            r == [type |-> "RELEASE", codes |-> Key!QueuedCodes(k)]
<1>1. Key!Press(k) = One(p) /\ Key!Release(k) = One(r)
  BY DEF Key!Press, Key!Release, One
<1>2. /\ Codes("down", p) = Codes("up", r) /\ Codes("down", r) = <<>> /\ Codes("up", p) = <<>>
  BY DEF Codes, KeyType, ButtonType
<1>3. p \in StreamMessage /\ r \in StreamMessage
  BY QueuedCodesTyped DEF StreamMessage, QueueMessage, KeyEvent
<1>. HIDE DEF p, r
<1>. QED  BY <1>1, <1>2, <1>3

LEMMA TidyClick ==
  ASSUME NEW t, NEW k \in Seq(Int)
  PROVE  Key!Press(k) \o Key!Release(k) \in Tidy(t) /\ Key!Release(k) \in Tidy(t)
<1>1. PICK p, r \in StreamMessage :
        /\ Key!Press(k) = One(p) /\ Key!Release(k) = One(r)
        /\ Codes("down", p) = Codes("up", r) /\ Codes("down", r) = <<>> /\ Codes("up", p) = <<>>
  BY KeyMessages
<1>2. One(p) \o One(r) \in Tidy(t)
  BY <1>1, TidyPair
<1>3. One(r) \in Tidy(t)
  BY <1>1, TidyCodeless
<1>. QED  BY <1>1, <1>2, <1>3

(* Messages that are of one type and no more. *)
LEMMA TidyPlainEvent ==
  ASSUME NEW t, NEW ty \in MotionType \cup {"DELAY", "REBOOT", "REBOOT_BOOTLOADER"}
  PROVE  <<[type |-> ty]>> \in Tidy(t)
<1>. DEFINE m == [type |-> ty]
<1>1. m \in StreamMessage
  BY DEF StreamMessage, QueueMessage, PlainEvent
<1>2. Codes("down", m) = <<>>
  BY DEF Codes, KeyType, ButtonType, MotionType
<1>3. <<[type |-> ty]>> = One(m)
  BY DEF One
<1>. HIDE DEF m
<1>. QED  BY <1>1, <1>2, <1>3, TidyCodeless

(* The character of a string is let go of before the next is typed. *)
LEMMA TidyCharacter ==
  ASSUME NEW t, NEW c \in Int
  PROVE  Key!TypedCharacter(c) \in Tidy(t)
<1>. DEFINE k == <<Key!TypedCode(c)>>
            d == <<[type |-> "DELAY"]>>
<1>1. k \in Seq(Int)
  <2>1. Key!TypedCode(c) \in Int
    BY DEF Key!TypedCode, Key!Upper
  <2>. QED  BY <2>1
<1>2. d \in Tidy(t)
  BY TidyPlainEvent
<1>3. Key!TypedCharacter(c) = (Key!Press(k) \o Key!Release(k)) \o d
  BY DEF Key!TypedCharacter
<1>. HIDE DEF k, d
<1>4. Key!Press(k) \o Key!Release(k) \in Tidy(t)
  BY <1>1, TidyClick
<1>. QED  BY <1>2, <1>3, <1>4, TidyConcat

(* A list of tidy parts. *)
LEMMA TidyList ==
  ASSUME NEW t, NEW s, Len(s) \in Nat, s = [i \in 1 .. Len(s) |-> s[i]],
         \A i \in 1 .. Len(s) : s[i] \in Tidy(t)
  PROVE  Key!FlattenSeq(s) \in Tidy(t)
<1>1. CASE Len(s) = 0
  <2>1. Key!FlattenSeq(s) = s
    BY <1>1, Zenon DEF Key!FlattenSeq
  <2>2. s = <<>>
    BY <1>1
  <2>. QED  BY <2>1, <2>2, TidyNothing
<1>2. CASE Len(s) # 0
  <2>1. \A u, v \in Tidy(t) : u \o v \in Tidy(t)
    BY TidyConcat
  <2>2. Len(s) \in Nat \ {0}
    BY <1>2
  <2>. QED  BY <2>1, <2>2, FlattenClosed
<1>. QED  BY <1>1, <1>2

LEMMA TidyString ==
  ASSUME NEW t, NEW w \in Seq(Int)
  PROVE  Key!FlattenSeq([i \in DOMAIN w |-> Key!TypedCharacter(w[i])]) \in Tidy(t)
<1>. DEFINE s == [i \in DOMAIN w |-> Key!TypedCharacter(w[i])]
<1>1. Len(w) \in Nat /\ DOMAIN w = 1 .. Len(w) /\ \A i \in 1 .. Len(w) : w[i] \in Int
  BY LenProperties, ElementOfSeq
<1>2. Len(s) = Len(w) /\ s = [i \in 1 .. Len(s) |-> s[i]]
  BY <1>1
<1>3. \A i \in 1 .. Len(s) : s[i] \in Tidy(t)
  BY <1>1, <1>2, TidyCharacter
<1>. HIDE DEF s
<1>4. Key!FlattenSeq(s) \in Tidy(t)
  BY <1>1, <1>2, <1>3, TidyList
<1>. QED  BY <1>4 DEF s

(* All actions but two classes answer to DO only (EnqueueOne). *)
LEMMA AnswersToDo ==
  ASSUME NEW a, a.type \notin {"GENERIC_KEY", "MOUSE_CLICK"}
  PROVE  Key!EnqueueOne(a, "DO") = Key!OnDo(a) /\ Key!EnqueueOne(a, "UNDO") = <<>>
  BY DEF Key!EnqueueOne

(* What the classes that answer to DO only send (OnDo). *)
LEMMA SentOnDo ==
  ASSUME NEW a
  PROVE  /\ a.type = "CLICK_KEY"       => Key!OnDo(a) = Key!Press(a.keycodes) \o Key!Release(a.keycodes)
         /\ a.type = "RELEASE_KEY"     => Key!OnDo(a) = Key!Release(a.keycodes)
         /\ a.type = "DELAY"           => Key!OnDo(a) = <<[type |-> "DELAY"]>>
         /\ a.type = "RESET_KEEB"      => Key!OnDo(a) = <<[type |-> "REBOOT"]>>
         /\ a.type = "KEEB_BOOTLOADER" => Key!OnDo(a) = <<[type |-> "REBOOT_BOOTLOADER"]>>
         /\ a.type = "MOUSE_SCROLL"    => Key!OnDo(a) = Key!Scroll(a)
         /\ a.type = "MOUSE_MOVE"      => Key!OnDo(a) = Key!Move(a)
         /\ a.type = "SWITCH_TO_LAYER" => Key!OnDo(a) = <<[type |-> "LAYER_SWITCH", layer |-> a.target_layer]>>
         /\ a.type = "NON_REPEATING_STRING_TYPER" =>
              Key!OnDo(a) = Key!FlattenSeq([i \in DOMAIN a.payload |-> Key!TypedCharacter(a.payload[i])])
         /\ a.type \in Key!SilentAction => Key!OnDo(a) = <<>>
<1>1. a.type = "CLICK_KEY" => Key!OnDo(a) = Key!Press(a.keycodes) \o Key!Release(a.keycodes)
  BY DEF Key!OnDo, Key!SilentAction
<1>2. a.type = "RELEASE_KEY" => Key!OnDo(a) = Key!Release(a.keycodes)
  BY DEF Key!OnDo, Key!SilentAction
<1>3. a.type = "DELAY" => Key!OnDo(a) = <<[type |-> "DELAY"]>>
  BY DEF Key!OnDo, Key!SilentAction
<1>4. a.type = "RESET_KEEB" => Key!OnDo(a) = <<[type |-> "REBOOT"]>>
  BY DEF Key!OnDo, Key!SilentAction
<1>5. a.type = "KEEB_BOOTLOADER" => Key!OnDo(a) = <<[type |-> "REBOOT_BOOTLOADER"]>>
  BY DEF Key!OnDo, Key!SilentAction
<1>6. a.type = "MOUSE_SCROLL" => Key!OnDo(a) = Key!Scroll(a)
  BY DEF Key!OnDo, Key!SilentAction
<1>7. a.type = "MOUSE_MOVE" => Key!OnDo(a) = Key!Move(a)
  BY DEF Key!OnDo, Key!SilentAction
<1>8. a.type = "SWITCH_TO_LAYER" => Key!OnDo(a) = <<[type |-> "LAYER_SWITCH", layer |-> a.target_layer]>>
  BY DEF Key!OnDo, Key!SilentAction
<1>9. a.type \in Key!SilentAction => Key!OnDo(a) = <<>>
  BY DEF Key!OnDo, Key!SilentAction
<1>10. a.type = "NON_REPEATING_STRING_TYPER" =>
         Key!OnDo(a) = Key!FlattenSeq([i \in DOMAIN a.payload |-> Key!TypedCharacter(a.payload[i])])
  BY DEF Key!OnDo, Key!SilentAction
<1>. QED  BY <1>1, <1>2, <1>3, <1>4, <1>5, <1>6, <1>7, <1>8, <1>9, <1>10

(* The two classes that press on DO and release on UNDO. *)
LEMMA TwoFaced ==
  ASSUME NEW a, IsPlain(a), a.type \in {"GENERIC_KEY", "MOUSE_CLICK"}
  PROVE  \E p, r \in StreamMessage :
           /\ Key!EnqueueOne(a, "DO") = One(p) /\ Key!EnqueueOne(a, "UNDO") = One(r)
           /\ Codes("down", p) = Codes("up", r) /\ Codes("down", r) = <<>> /\ Codes("up", p) = <<>>
<1>1. CASE a.type = "GENERIC_KEY"
  <2>1. /\ Key!EnqueueOne(a, "DO") = Key!Press(a.keycodes)
        /\ Key!EnqueueOne(a, "UNDO") = Key!Release(a.keycodes)
    BY <1>1 DEF Key!EnqueueOne, Key!GenericKey
  <2>2. a.keycodes \in Seq(Int)
    BY <1>1 DEF IsPlain
  <2>. QED  BY <2>1, <2>2, KeyMessages
<1>2. CASE a.type = "MOUSE_CLICK"
  <2>. DEFINE p == [type |-> "MOUSE_CLICK", mouse_click |-> a.button]
              r == [type |-> "MOUSE_RELEASE", mouse_click |-> a.button]
  <2>1. Key!EnqueueOne(a, "DO") = One(p) /\ Key!EnqueueOne(a, "UNDO") = One(r)
    BY <1>2 DEF Key!EnqueueOne, Key!MouseClick, One
  <2>2. Codes("down", p) = Codes("up", r) /\ Codes("down", r) = <<>> /\ Codes("up", p) = <<>>
    BY DEF Codes, KeyType, ButtonType
  <2>3. p \in StreamMessage /\ r \in StreamMessage
    BY <1>2 DEF IsPlain, StreamMessage, QueueMessage, ButtonEvent
  <2>. HIDE DEF p, r
  <2>. QED  BY <2>1, <2>2, <2>3
<1>. QED  BY <1>1, <1>2

(* The others answer to DO only, and let go of all they press. *)
LEMMA OneFaced ==
  ASSUME NEW t, NEW a, IsPlain(a), a.type \notin {"GENERIC_KEY", "MOUSE_CLICK"}
  PROVE  Key!EnqueueOne(a, "DO") \in Tidy(t) /\ Key!EnqueueOne(a, "UNDO") = <<>>
<1>1. Key!EnqueueOne(a, "DO") = Key!OnDo(a) /\ Key!EnqueueOne(a, "UNDO") = <<>>
  BY AnswersToDo
<1>2. CASE a.type = "CLICK_KEY"
  <2>1. a.keycodes \in Seq(Int) /\ Key!OnDo(a) = Key!Press(a.keycodes) \o Key!Release(a.keycodes)
    BY <1>2, SentOnDo DEF IsPlain
  <2>. QED  BY <1>1, <2>1, TidyClick
<1>3. CASE a.type = "RELEASE_KEY"
  <2>1. a.keycodes \in Seq(Int) /\ Key!OnDo(a) = Key!Release(a.keycodes)
    BY <1>3, SentOnDo DEF IsPlain
  <2>. QED  BY <1>1, <2>1, TidyClick
<1>4. CASE a.type \in {"DELAY", "RESET_KEEB", "KEEB_BOOTLOADER", "MOUSE_SCROLL", "MOUSE_MOVE"}
  <2>1. \E ty \in MotionType \cup {"DELAY", "REBOOT", "REBOOT_BOOTLOADER"} : Key!OnDo(a) = <<[type |-> ty]>>
    BY <1>4, SentOnDo DEF Key!Scroll, Key!Move, MotionType
  <2>. QED  BY <1>1, <2>1, TidyPlainEvent
<1>5. CASE a.type = "SWITCH_TO_LAYER"
  <2>. DEFINE m == [type |-> "LAYER_SWITCH", layer |-> a.target_layer]
  <2>1. Key!OnDo(a) = One(m)
    BY <1>5, SentOnDo DEF One
  <2>2. m \in StreamMessage
    BY <1>5 DEF IsPlain, StreamMessage, QueueMessage, LayerEvent
  <2>3. Codes("down", m) = <<>>
    BY DEF Codes, KeyType, ButtonType
  <2>. HIDE DEF m
  <2>. QED  BY <1>1, <2>1, <2>2, <2>3, TidyCodeless
<1>6. CASE a.type = "NON_REPEATING_STRING_TYPER"
  <2>1. a.payload \in Seq(Int)
    BY <1>6 DEF IsPlain
  <2>2. Key!OnDo(a) = Key!FlattenSeq([i \in DOMAIN a.payload |-> Key!TypedCharacter(a.payload[i])])
    BY <1>6, SentOnDo
  <2>. QED  BY <1>1, <2>1, <2>2, TidyString
<1>7. CASE a.type \in Key!SilentAction
  BY <1>1, <1>7, SentOnDo, TidyNothing
<1>8. a.type \in PlainClass \ {"GENERIC_KEY", "MOUSE_CLICK"}
  BY DEF IsPlain
<1>. QED  BY <1>2, <1>3, <1>4, <1>5, <1>6, <1>7, <1>8 DEF PlainClass

(* In a sequence, an action lets go of what it presses before the next. *)
LEMMA TidySequence ==
  ASSUME NEW t, NEW a, IsPlainSequence(a)
  PROVE  Key!Sequence(a) \in Tidy(t)
<1>1. ASSUME NEW b, IsPlain(b)  PROVE Key!EnqueueOne(b, "DO") \o Key!EnqueueOne(b, "UNDO") \in Tidy(t)
  <2>1. CASE b.type \in {"GENERIC_KEY", "MOUSE_CLICK"}
    <3>1. PICK p, r \in StreamMessage :
            /\ Key!EnqueueOne(b, "DO") = One(p) /\ Key!EnqueueOne(b, "UNDO") = One(r)
            /\ Codes("down", p) = Codes("up", r) /\ Codes("down", r) = <<>> /\ Codes("up", p) = <<>>
      BY <1>1, <2>1, TwoFaced
    <3>2. One(p) \o One(r) \in Tidy(t)
      BY <3>1, TidyPair
    <3>. QED  BY <3>1, <3>2
  <2>2. CASE b.type \notin {"GENERIC_KEY", "MOUSE_CLICK"}
    <3>1. Key!EnqueueOne(b, "DO") \in Tidy(t) /\ Key!EnqueueOne(b, "UNDO") \in Tidy(t)
      BY <1>1, <2>2, OneFaced, TidyNothing
    <3>. QED  BY <3>1, TidyConcat
  <2>. QED  BY <2>1, <2>2
<1>. DEFINE n == Len(a.sequence)
            s == [i \in DOMAIN a.sequence |->
                    Key!EnqueueOne(a.sequence[i], "DO") \o Key!EnqueueOne(a.sequence[i], "UNDO")]
<1>2. Key!Sequence(a) = Key!FlattenSeq(s)
  BY DEF Key!Sequence
<1>3. n \in Nat /\ DOMAIN a.sequence = 1 .. n
  BY DEF IsPlainSequence
<1>4. Len(s) = n /\ s = [i \in 1 .. Len(s) |-> s[i]]
  BY <1>3
<1>5. \A i \in 1 .. n : s[i] \in Tidy(t)
  BY <1>1, <1>3 DEF IsPlainSequence
<1>. HIDE DEF s, n
<1>6. Key!FlattenSeq(s) \in Tidy(t)
  BY <1>3, <1>4, <1>5, TidyList
<1>. QED  BY <1>2, <1>6

(* An action presses only what its UNDO, or a later message of its own,    *)
(* releases.                                                               *)
LEMMA ActionLetsGo ==
  ASSUME NEW a, IsPlain(a) \/ IsPlainSequence(a), NEW t
  PROVE  /\ Places("down", Key!Enqueue(a, "UNDO"), t) = {}
         /\ Covered({}, Places("down", Key!Enqueue(a, "DO"), t), Places("up", Key!Enqueue(a, "DO"), t),
                    {0} \X Places("up", Key!Enqueue(a, "UNDO"), t))
<1>1. \A way \in {"down", "up"} : Places(way, <<>>, t) = {}
  BY DEF Places
<1>2. IsPlain(a) => /\ a.type # "SEQUENCE"
                    /\ \A bae \in {"DO", "UNDO"} : Key!Enqueue(a, bae) = Key!EnqueueOne(a, bae)
  BY DEF IsPlain, PlainClass, Key!SilentAction, Key!Enqueue
<1>3. CASE IsPlain(a) /\ a.type \in {"GENERIC_KEY", "MOUSE_CLICK"}
  <2>1. PICK p, r \in StreamMessage :
          /\ Key!EnqueueOne(a, "DO") = One(p) /\ Key!EnqueueOne(a, "UNDO") = One(r)
          /\ Codes("down", p) = Codes("up", r) /\ Codes("down", r) = <<>> /\ Codes("up", p) = <<>>
    BY <1>3, TwoFaced
  <2>2. Places("down", One(r), t) = {}
    BY <2>1, PlacesOfCodeless
  <2>. DEFINE X == Places("down", One(p), t)
  <2>3. Places("up", One(r), t) = X
    BY <2>1, SamePlaces
  <2>4. X \subseteq OnItsWay
    <3>1. One(p) \in Seq(StreamMessage)
      BY DEF One
    <3>. QED  BY <3>1, PlacesOnWay
  <2>. HIDE DEF X
  <2>5. Covered({}, X, Places("up", One(p), t), {0} \X X)
    BY <2>4, LetGoLater
  <2>. QED  BY <1>2, <1>3, <2>1, <2>2, <2>3, <2>5 DEF X
<1>4. ASSUME NEW u \in Tidy(t), NEW H  PROVE Covered({}, Places("down", u, t), Places("up", u, t), H)
  <2>1. Covered({}, Places("down", u, t), Places("up", u, t), {})
    BY DEF Tidy
  <2>2. {} \subseteq H /\ Places("down", u, t) \subseteq Places("down", u, t)
    OBVIOUS
  <2>. QED  BY <2>1, <2>2, CoveredWeaker
<1>5. CASE IsPlain(a) /\ a.type \notin {"GENERIC_KEY", "MOUSE_CLICK"}
  <2>1. Key!Enqueue(a, "DO") \in Tidy(t) /\ Key!Enqueue(a, "UNDO") = <<>>
    BY <1>2, <1>5, OneFaced
  <2>. QED  BY <1>1, <1>4, <2>1
<1>6. CASE IsPlainSequence(a)
  <2>1. Key!Enqueue(a, "DO") = Key!Sequence(a) /\ Key!Enqueue(a, "UNDO") = <<>>
    BY <1>6 DEF IsPlainSequence, Key!Enqueue
  <2>2. Key!Sequence(a) \in Tidy(t)
    BY <1>6, TidySequence
  <2>. QED  BY <1>1, <1>4, <2>1, <2>2
<1>. QED  BY <1>3, <1>5, <1>6

(* A board of such actions lets go, if what a key does when it comes up    *)
(* does not depend on the layer.                                           *)
THEOREM PlainBoardLetsGo ==
  ASSUME SameUndo, PlainBoard
  PROVE  LetsGo
<1>. SUFFICES ASSUME NEW l \in LayerIds, NEW k \in Key!KeyNumber, NEW op \in {"PRESS", "HOLD"}, NEW t \in Thing
              PROVE  /\ Places("down", Undo(k, op), t) = {}
                     /\ Covered({}, Places("down", Do(l, k, op), t), Places("up", Do(l, k, op), t), Owed(k, op, t))
  BY DEF LetsGo, SameUndo
<1>1. Undo(k, op) = Key!LayerEnqueue(LayerOf(l), k, op, "UNDO")
  BY DEF SameUndo
<1>2. CASE l \in DOMAIN Layers /\ Key!Bound(Layers[l], k, op)
  <2>. DEFINE a == Layers[l].bindings[<<k, op>>]
  <2>1. IsPlain(a) \/ IsPlainSequence(a)
    BY <1>2 DEF Key!Bound, PlainBoard
  <2>2. Do(l, k, op) = Key!Enqueue(a, "DO") /\ Undo(k, op) = Key!Enqueue(a, "UNDO")
    BY <1>1, <1>2 DEF Do, LayerOf, Key!LayerEnqueue
  <2>. HIDE DEF a
  <2>. QED  BY <2>1, <2>2, ActionLetsGo DEF Owed
<1>3. CASE ~ (l \in DOMAIN Layers /\ Key!Bound(Layers[l], k, op))
  <2>1. ~ Key!Bound(LayerOf(l), k, op)
    <3>1. DOMAIN Key!EmptyLayer.bindings = {}
      BY DEF Key!EmptyLayer
    <3>. QED  BY <1>3, <3>1 DEF LayerOf, Key!Bound
  <2>2. Do(l, k, op) = <<>> /\ Undo(k, op) = <<>>
    BY <1>1, <2>1 DEF Do, Key!LayerEnqueue
  <2>3. \A way \in {"down", "up"} : Places(way, <<>>, t) = {}
    BY DEF Places
  <2>. QED  BY <2>2, <2>3, NothingCovered
<1>. QED  BY <1>2, <1>3

(* The same in terms of the keymaps alone: all layers have hold bindings   *)
(* or none (UniformLayers), a key coming up lets go of the same codes in   *)
(* every layer (SameUndo), and no binding presses and leaves it to another *)
(* key to let go (PlainBoard).  A lost message and a press written over    *)
(* modifer or mouse_buttons are excused by NoStuckKey.                     *)
THEOREM PlainBoardNeverSticks ==
  Key!UniformLayers /\ SameUndo /\ PlainBoard => (Spec => []NoStuckKey)
BY NoKeyStuck, PlainBoardLetsGo
=============================================================================
