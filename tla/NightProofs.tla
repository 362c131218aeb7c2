----------------------------- MODULE NightProofs -----------------------------
(***************************************************************************)
(* The two parts of the night, each with a specification of its own: the   *)
(* reflection session (Reflection) and the brief (Brief).                  *)
(*                                                                         *)
(* What the session guarantees holds for any changes anybody makes and any *)
(* of the mishaps.  What the brief says is right for any symbols, amounts, *)
(* fee, length of the window and number of orders, whatever the order in   *)
(* which they are executed and journalled.                                 *)
(*                                                                         *)
(* The cash of the account is a sum over the orders executed, the cash     *)
(* change of the brief one over rows.  SumFunctionOnSet is recursive:      *)
(* facts about it are proved by induction in the form of SmallestSet.      *)
(***************************************************************************)
EXTENDS Brief, Reflection, FiniteSetTheorems, TLAPS

-------------------------------------------------------------------------------
(* The reflection session.                                                 *)

\* The types are inductive with FreshInv: what the tag has is in no new file.
LEMMA TypesAlways == Spec => [](TypeOK /\ FreshInv)
  <1> USE DEF TypeOK, FreshInv, Tree, treeVars, recordVars, histVars
  <1>1. Init => TypeOK /\ FreshInv
    BY DEF Init
  <1>2. TypeOK /\ FreshInv /\ [Next]_vars => TypeOK' /\ FreshInv'
    <2> SUFFICES ASSUME TypeOK, FreshInv, [Next]_vars PROVE TypeOK' /\ FreshInv'
      OBVIOUS
    <2>1. ASSUME NEW c \in Changes, HumanChange(c) PROVE TypeOK' /\ FreshInv'
      BY <2>1 DEF HumanChange, Put
    <2>2. ASSUME NEW c \in Changes, AgentChange(c) PROVE TypeOK' /\ FreshInv'
      BY <2>2 DEF AgentChange, Put
    <2>3. ASSUME NEW c \in Changes, OrphanChange(c) \/ AgentEntry(c) PROVE TypeOK' /\ FreshInv'
      BY <2>3 DEF OrphanChange, AgentEntry, Put
    <2>4. CASE AgentCommit \/ Snapshot \/ SnapshotError
      BY <2>4 DEF AgentCommit, Snapshot, SnapshotError
    <2>5. CASE NotInstalled \/ Spawn \/ AgentDone
      BY <2>5 DEF NotInstalled, Spawn, AgentDone
    <2>6. CASE Timeout
      BY <2>6 DEF Timeout, Rollback
    <2>7. CASE GatePasses
      BY <2>7 DEF GatePasses
    <2>8. CASE GateFails
      BY <2>8 DEF GateFails, Rollback
    <2>9. CASE Record
      BY <2>9 DEF Record
    <2>10. CASE Restart
      BY <2>10 DEF Restart
    <2>11. CASE UNCHANGED vars
      BY <2>11 DEF vars
    <2> QED BY <2>1, <2>2, <2>3, <2>4, <2>5, <2>6, <2>7, <2>8, <2>9, <2>10, <2>11
            DEF Next, Outside, Reflect
  <1> QED BY <1>1, <1>2, PTL DEF Spec

\* Every set of changes stays one, and a change is in a tracked file or in a new
\* one, never in both (snapshot, rollback and the agent's own commits).
THEOREM TypeCorrect == Spec => []TypeOK
  BY TypesAlways, PTL

-------------------------------------------------------------------------------
\* While a session may still be rolled back, the tag holds all that a person changed
\* between sessions and all that accepted nights left.
LEMMA TagAlways == Spec => []TagInv
  <1> USE DEF TagInv, Tree, treeVars, recordVars, histVars
  <1>1. Init => TagInv
    BY DEF Init
  <1>2. TagInv /\ [Next]_vars => TagInv'
    <2> SUFFICES ASSUME TagInv, [Next]_vars PROVE TagInv'
      OBVIOUS
    <2>1. ASSUME NEW c \in Changes, HumanChange(c) PROVE TagInv'
      BY <2>1 DEF HumanChange, Put
    <2>2. ASSUME NEW c \in Changes, AgentChange(c) PROVE TagInv'
      BY <2>2 DEF AgentChange, Put
    <2>3. ASSUME NEW c \in Changes, OrphanChange(c) \/ AgentEntry(c) PROVE TagInv'
      BY <2>3 DEF OrphanChange, AgentEntry, Put
    <2>4. CASE AgentCommit \/ Snapshot \/ SnapshotError
      BY <2>4 DEF AgentCommit, Snapshot, SnapshotError
    <2>5. CASE NotInstalled \/ Spawn \/ AgentDone \/ GatePasses \/ Record
      BY <2>5 DEF NotInstalled, Spawn, AgentDone, GatePasses, Record
    <2>6. CASE Timeout \/ GateFails
      BY <2>6 DEF Timeout, GateFails, Rollback
    <2>7. CASE Restart \/ UNCHANGED vars
      BY <2>7 DEF Restart, vars
    <2> QED BY <2>1, <2>2, <2>3, <2>4, <2>5, <2>6, <2>7 DEF Next, Outside, Reflect
  <1> QED BY <1>1, <1>2, PTL DEF Spec

\* Whatever the nights do, what a person changed between them stays in the tree.
THEOREM HumanWorkIsSafe == Spec => []HumanWorkSurvives
  <1>1. TagInv => HumanWorkSurvives
    BY DEF TagInv, HumanWorkSurvives
  <1> QED BY <1>1, TagAlways, PTL

\* ... and so does what an accepted night covers, committed or not.
THEOREM AcceptedWorkIsSafe == Spec => []AcceptedWorkSurvives
  <1>1. TagInv => AcceptedWorkSurvives
    BY DEF TagInv, AcceptedWorkSurvives
  <1> QED BY <1>1, TagAlways, PTL

-------------------------------------------------------------------------------
\* Between sessions every agent change in the tree passed the gate or is one of the
\* named escapes.
LEMMA GateAlways == Spec => []GateInv
  <1> USE ReflectionAssumption
  <1> USE DEF GateInv, OnlyGatedCodeRuns, Tree, treeVars, recordVars, histVars
  <1>1. Init => GateInv
    BY DEF Init
  <1>2. GateInv /\ [Next]_vars /\ TypeOK => GateInv'
    <2> SUFFICES ASSUME GateInv, [Next]_vars, TypeOK PROVE GateInv'
      OBVIOUS
    <2>1. ASSUME NEW c \in Changes, HumanChange(c) PROVE GateInv'
      BY <2>1 DEF HumanChange, Put
    <2>2. ASSUME NEW c \in Changes, AgentChange(c) PROVE GateInv'
      BY <2>2 DEF AgentChange, Put
    <2>3. ASSUME NEW c \in Changes, OrphanChange(c) \/ AgentEntry(c) PROVE GateInv'
      BY <2>3 DEF OrphanChange, AgentEntry, Put
    <2>4. CASE AgentCommit \/ Snapshot \/ SnapshotError
      BY <2>4 DEF AgentCommit, Snapshot, SnapshotError
    <2>5. CASE NotInstalled \/ Spawn \/ AgentDone
      BY <2>5 DEF NotInstalled, Spawn, AgentDone
    <2>6. CASE Timeout \/ GateFails
      BY <2>6 DEF Timeout, GateFails, Rollback
    <2>7. CASE GatePasses
      BY <2>7 DEF GatePasses
    <2>8. CASE Record
      BY <2>8 DEF Record
    <2>9. CASE Restart
      BY <2>9 DEF Restart, TypeOK
    <2>10. CASE UNCHANGED vars
      BY <2>10 DEF vars
    <2> QED BY <2>1, <2>2, <2>3, <2>4, <2>5, <2>6, <2>7, <2>8, <2>9, <2>10
            DEF Next, Outside, Reflect
  <1> QED BY <1>1, <1>2, TypeCorrect, PTL DEF Spec

\* The bot loads no agent code but what the test suite passed with, and the named
\* escapes (the gate after the agent, rollback, and what a restart loads).
THEOREM GateHolds == Spec => []OnlyGatedCodeRuns
  <1>1. GateInv => OnlyGatedCodeRuns
    BY DEF GateInv
  <1> QED BY <1>1, GateAlways, PTL

-------------------------------------------------------------------------------
(* Sums.                                                                   *)

\* Of the parts of a finite set some of which are in B, one has no other in B within it.
LEMMA SmallestSet ==
  ASSUME NEW D, IsFiniteSet(D), NEW B, B \subseteq SUBSET D, B # {}
  PROVE  \E T \in B : IsFiniteSet(T) /\ \A U \in B : U \subseteq T => U = T
  <1>1. B \subseteq FiniteSubsetsOf(D)
    BY FS_Subset DEF FiniteSubsetsOf
  <1>2. PICK T \in B : \A U \in B : <<U, T>> \notin StrictSubsetOrdering(D)
    BY <1>1, FS_StrictSubsetOrderingWellFounded, WFMin, Zenon
  <1>3. ASSUME NEW U \in B, U \subseteq T, U # T PROVE FALSE
    BY <1>2, <1>3 DEF StrictSubsetOrdering
  <1>4. IsFiniteSet(T)
    BY FS_Subset
  <1> QED BY <1>3, <1>4

Pick(s) == CHOOSE x \in s : TRUE

\* The sums over all parts of S, as the recursion of SumFunctionOnSet makes them.
Sums(f, S, it) ==
  it = [s \in SUBSET S |-> IF s = {} THEN 0 ELSE f[Pick(s)] + it[s \ {Pick(s)}]]

Sum(f, S) == (CHOOSE it : Sums(f, S, it))[S]

LEMMA SumIsLibrarys ==
  ASSUME NEW f, NEW S
  PROVE  SumFunctionOnSet(f, S) = Sum(f, S)
  BY DEF SumFunctionOnSet, FoldFunctionOnSet, MapThenFoldSet, Sum, Sums, Pick

\* The sums over the parts of two sets agree on what is part of both.
LEMMA SumsAgree ==
  ASSUME NEW f, NEW S, NEW T, NEW a, NEW b, Sums(f, S, a), Sums(f, T, b), IsFiniteSet(S),
         NEW u, u \subseteq S, u \subseteq T
  PROVE  a[u] = b[u]
  <1> DEFINE bad == {s \in SUBSET S : s \subseteq T /\ a[s] # b[s]}
  <1> SUFFICES ASSUME bad # {} PROVE FALSE
    OBVIOUS
  <1>1. bad \subseteq SUBSET S
    OBVIOUS
  <1>2. PICK s \in bad : IsFiniteSet(s) /\ \A t \in bad : t \subseteq s => t = s
    <2> HIDE DEF bad
    <2> QED BY <1>1, SmallestSet
  <1>3. /\ a[s] = IF s = {} THEN 0 ELSE f[Pick(s)] + a[s \ {Pick(s)}]
        /\ b[s] = IF s = {} THEN 0 ELSE f[Pick(s)] + b[s \ {Pick(s)}]
    BY DEF Sums
  <1>4. s # {} /\ Pick(s) \in s
    BY <1>3 DEF Pick
  <1>5. s \ {Pick(s)} \notin bad
    BY <1>2, <1>4
  <1> QED BY <1>3, <1>4, <1>5

LEMMA SumsExist ==
  ASSUME NEW f, NEW S, IsFiniteSet(S)
  PROVE  \E it : Sums(f, S, it)
  <1> DEFINE bad == {s \in SUBSET S : ~ \E it : Sums(f, s, it)}
  <1> SUFFICES ASSUME bad # {} PROVE FALSE
    OBVIOUS
  <1>1. bad \subseteq SUBSET S
    OBVIOUS
  <1>2. PICK s \in bad : IsFiniteSet(s) /\ \A t \in bad : t \subseteq s => t = s
    <2> HIDE DEF bad
    <2> QED BY <1>1, SmallestSet
  <1> DEFINE rest(t) == t \ {Pick(t)}
             G(t) == IF t = {} THEN 0 ELSE f[Pick(t)] + Sum(f, rest(t))
             it == [t \in SUBSET s |-> G(t)]
  <1>3. ASSUME NEW t, t \subseteq s, t # s
        PROVE  /\ \E a : Sums(f, t, a)
               /\ Sum(f, t) = G(t)
    <2>1. \A u : u \subseteq t => \E a : Sums(f, u, a)
      BY <1>2, <1>3
    <2> DEFINE a == CHOOSE x : Sums(f, t, x)
               b == CHOOSE x : Sums(f, rest(t), x)
    <2>2. Sums(f, t, a)
      BY <2>1
    <2>3. a[t] = IF t = {} THEN 0 ELSE f[Pick(t)] + a[rest(t)]
      BY <2>2 DEF Sums
    <2>4. Sums(f, rest(t), b)
      BY <2>1
    <2>5. IsFiniteSet(t)
      BY <1>2, <1>3, FS_Subset
    <2>6. a[rest(t)] = b[rest(t)]
      BY <2>2, <2>4, <2>5, SumsAgree
    <2> QED BY <2>2, <2>3, <2>6 DEF Sum
  <1>4. ASSUME NEW t \in SUBSET s
        PROVE  it[t] = IF t = {} THEN 0 ELSE f[Pick(t)] + it[rest(t)]
    <2>1. CASE t = {}
      BY <2>1
    <2>2. CASE t # {}
      <3>1. Pick(t) \in t
        BY <2>2 DEF Pick
      <3>2. rest(t) \subseteq s /\ rest(t) # s
        BY <3>1
      <3>3. Sum(f, rest(t)) = G(rest(t))
        BY <1>3, <3>2
      <3> QED BY <2>2, <3>2, <3>3
    <2> QED BY <2>1, <2>2
  <1>5. it = [t \in SUBSET s |-> it[t]]
    OBVIOUS
  <1>6. Sums(f, s, it)
    <2> HIDE DEF it
    <2> QED BY <1>4, <1>5 DEF Sums
  <1> QED BY <1>2, <1>6

LEMMA SumEmpty ==
  ASSUME NEW f PROVE Sum(f, {}) = 0
  <1>1. PICK it : Sums(f, {}, it)
    BY SumsExist, FS_EmptySet
  <1>2. Sums(f, {}, CHOOSE x : Sums(f, {}, x))
    BY <1>1
  <1> QED BY <1>2 DEF Sums, Sum

\* The recursion, for the sum itself.
LEMMA SumPick ==
  ASSUME NEW f, NEW S, IsFiniteSet(S), S # {}
  PROVE  Sum(f, S) = f[Pick(S)] + Sum(f, S \ {Pick(S)}) /\ Pick(S) \in S
  <1> DEFINE a == CHOOSE x : Sums(f, S, x)
             R == S \ {Pick(S)}
             b == CHOOSE x : Sums(f, R, x)
  <1>1. Sums(f, S, a) /\ Sums(f, R, b)
    BY SumsExist, FS_Subset
  <1>2. a[S] = f[Pick(S)] + a[R]
    BY <1>1 DEF Sums
  <1>3. a[R] = b[R]
    BY <1>1, SumsAgree
  <1> QED BY <1>2, <1>3 DEF Sum, Pick

LEMMA SumType ==
  ASSUME NEW f, NEW S, IsFiniteSet(S), \A x \in S : f[x] \in Int
  PROVE  Sum(f, S) \in Int
  <1> DEFINE bad == {s \in SUBSET S : Sum(f, s) \notin Int}
  <1> SUFFICES ASSUME bad # {} PROVE FALSE
    OBVIOUS
  <1>1. bad \subseteq SUBSET S
    OBVIOUS
  <1>2. PICK s \in bad : IsFiniteSet(s) /\ \A t \in bad : t \subseteq s => t = s
    <2> HIDE DEF bad
    <2> QED BY <1>1, SmallestSet
  <1>3. s # {}
    BY SumEmpty
  <1>4. Sum(f, s) = f[Pick(s)] + Sum(f, s \ {Pick(s)}) /\ Pick(s) \in s
    BY <1>2, <1>3, SumPick
  <1>5. Sum(f, s \ {Pick(s)}) \in Int
    BY <1>2, <1>4
  <1> QED BY <1>4, <1>5

\* Whichever element is taken out.
LEMMA SumWithout ==
  ASSUME NEW f, NEW S, IsFiniteSet(S), \A x \in S : f[x] \in Int, NEW x \in S
  PROVE  Sum(f, S) = Sum(f, S \ {x}) + f[x]
  <1> DEFINE Wrong(s) == \E y \in s : Sum(f, s) # Sum(f, s \ {y}) + f[y]
             bad == {s \in SUBSET S : Wrong(s)}
  <1> SUFFICES ASSUME bad # {} PROVE FALSE
    OBVIOUS
  <1>1. bad \subseteq SUBSET S
    OBVIOUS
  <1>2. PICK s \in bad : IsFiniteSet(s) /\ \A t \in bad : t \subseteq s => t = s
    <2> HIDE DEF bad
    <2> QED BY <1>1, SmallestSet
  <1>3. PICK y \in s : Sum(f, s) # Sum(f, s \ {y}) + f[y]
    BY <1>2
  <1> DEFINE c == Pick(s)
  <1>4. Sum(f, s) = f[c] + Sum(f, s \ {c}) /\ c \in s
    BY <1>2, <1>3, SumPick
  <1>5. s \subseteq S /\ \A t \in SUBSET s : Sum(f, t) \in Int
    BY <1>1, <1>2, SumType, FS_Subset
  <1>6. f[y] \in Int /\ f[c] \in Int
    BY <1>3, <1>4, <1>5
  <1>7. Sum(f, s \ {y}) \in Int /\ Sum(f, s \ {c}) \in Int /\ Sum(f, (s \ {c}) \ {y}) \in Int
    BY <1>5
  <1> HIDE DEF c, bad
  <1>8. c # y
    <2> SUFFICES ASSUME c = y PROVE FALSE
      OBVIOUS
    <2> DEFINE A == Sum(f, s \ {y})
    <2>1. Sum(f, s) = f[y] + A /\ A \in Int
      BY <1>4, <1>7
    <2>2. Sum(f, s) # A + f[y]
      BY <1>3
    <2> HIDE DEF A
    <2> QED BY <1>6, <2>1, <2>2
  <1>9. /\ Sum(f, s \ {c}) = Sum(f, (s \ {c}) \ {y}) + f[y]
        /\ Sum(f, s \ {y}) = Sum(f, (s \ {y}) \ {c}) + f[c]
    <2>1. s \ {c} \notin bad /\ s \ {y} \notin bad
      BY <1>2, <1>3, <1>4
    <2> QED BY <1>3, <1>4, <1>5, <1>8, <2>1 DEF bad
  <1>10. (s \ {c}) \ {y} = (s \ {y}) \ {c}
    OBVIOUS
  <1>11. Sum(f, s) = Sum(f, s \ {y}) + f[y]
    <2> DEFINE A == Sum(f, (s \ {c}) \ {y})
    <2>1. A \in Int /\ Sum(f, s \ {c}) = A + f[y] /\ Sum(f, s \ {y}) = A + f[c]
      BY <1>7, <1>9, <1>10
    <2> HIDE DEF A
    <2> QED BY <1>4, <1>6, <2>1
  <1> QED BY <1>3, <1>11

LEMMA SumAdd ==
  ASSUME NEW f, NEW S, IsFiniteSet(S), NEW x, x \notin S, \A y \in S \cup {x} : f[y] \in Int
  PROVE  Sum(f, S \cup {x}) = Sum(f, S) + f[x]
  <1>1. IsFiniteSet(S \cup {x}) /\ (S \cup {x}) \ {x} = S
    BY FS_AddElement
  <1> QED BY <1>1, SumWithout

\* A sum over images, one to one, is the sum over what they are images of.
LEMMA SumImage ==
  ASSUME NEW f, NEW g, NEW h, NEW S, IsFiniteSet(S),
         \A x \in S : g[x] = f[h[x]] /\ g[x] \in Int,
         \A x, y \in S : h[x] = h[y] => x = y
  PROVE  Sum(g, S) = Sum(f, {h[x] : x \in S})
  <1> DEFINE Image(s) == {h[x] : x \in s}
             bad == {s \in SUBSET S : Sum(g, s) # Sum(f, Image(s))}
  <1> SUFFICES ASSUME bad # {} PROVE FALSE
    OBVIOUS
  <1>1. bad \subseteq SUBSET S
    OBVIOUS
  <1>2. PICK s \in bad : IsFiniteSet(s) /\ \A t \in bad : t \subseteq s => t = s
    <2> HIDE DEF bad
    <2> QED BY <1>1, SmallestSet
  <1>3. Image({}) = {} /\ s # {}
    BY SumEmpty
  <1>4. PICK x : x \in s
    BY <1>3
  <1> DEFINE r == s \ {x}
  <1>5. /\ IsFiniteSet(r) /\ r \subseteq S /\ x \in S /\ x \notin r
        /\ s = r \cup {x} /\ r # s
    BY <1>1, <1>2, <1>4, FS_Subset
  <1>6. Sum(g, r) = Sum(f, Image(r))
    BY <1>2, <1>5
  <1> HIDE DEF bad, r
  <1>7. Sum(g, s) = Sum(g, r) + g[x]
    BY <1>5, SumAdd
  <1>8. IsFiniteSet(Image(r))
    <2> DEFINE H == [y \in r |-> h[y]]
    <2>1. H \in Surjection(r, Image(r))
      BY DEF Surjection
    <2> HIDE DEF H, Image
    <2> QED BY <1>5, <2>1, FS_Surjection
  <1>9. /\ Image(s) = Image(r) \cup {h[x]} /\ h[x] \notin Image(r)
        /\ \A y \in Image(r) \cup {h[x]} : f[y] \in Int
    BY <1>5
  <1> HIDE DEF Image
  <1>10. Sum(f, Image(s)) = Sum(f, Image(r)) + f[h[x]]
    BY <1>8, <1>9, SumAdd
  <1> QED BY <1>2, <1>5, <1>6, <1>7, <1>10 DEF bad

LEMMA SumUnion ==
  ASSUME NEW f, NEW S, NEW T, IsFiniteSet(S), IsFiniteSet(T), S \cap T = {},
         \A x \in S \cup T : f[x] \in Int
  PROVE  Sum(f, S \cup T) = Sum(f, S) + Sum(f, T)
  <1> DEFINE bad == {t \in SUBSET T : Sum(f, S \cup t) # Sum(f, S) + Sum(f, t)}
  <1> SUFFICES ASSUME bad # {} PROVE FALSE
    OBVIOUS
  <1>1. bad \subseteq SUBSET T
    OBVIOUS
  <1>2. PICK t \in bad : IsFiniteSet(t) /\ \A u \in bad : u \subseteq t => u = t
    <2> HIDE DEF bad
    <2> QED BY <1>1, SmallestSet
  <1>3. S \cup {} = S /\ Sum(f, S) \in Int
    BY SumType
  <1>4. t # {}
    BY <1>3, SumEmpty
  <1>5. PICK x : x \in t
    BY <1>4
  <1> DEFINE r == t \ {x}
  <1>6. /\ IsFiniteSet(r) /\ IsFiniteSet(S \cup r) /\ r \subseteq T /\ x \notin S \cup r
        /\ t = r \cup {x} /\ S \cup t = (S \cup r) \cup {x} /\ x \in T
    <2>1. IsFiniteSet(r) /\ r \subseteq T /\ x \in T
      BY <1>1, <1>2, <1>5, FS_Subset
    <2>2. x \notin S \cup r /\ t = r \cup {x}
      BY <1>5, <2>1
    <2>3. IsFiniteSet(S \cup r)
      BY <2>1, FS_Union
    <2> HIDE DEF r, bad
    <2> QED BY <2>1, <2>2, <2>3
  <1>7. Sum(f, S \cup r) = Sum(f, S) + Sum(f, r)
    BY <1>2, <1>6
  <1> HIDE DEF bad, r
  <1>8. /\ Sum(f, t) = Sum(f, r) + f[x]
        /\ Sum(f, S \cup t) = Sum(f, S \cup r) + f[x]
    BY <1>6, SumAdd
  <1>9. Sum(f, r) \in Int /\ f[x] \in Int
    BY <1>6, SumType
  <1>10. Sum(f, S \cup t) = Sum(f, S) + Sum(f, t)
    BY <1>3, <1>7, <1>8, <1>9
  <1> QED BY <1>2, <1>10 DEF bad

-------------------------------------------------------------------------------
(* The invariant.                                                          *)

SentOrder ==
  [symbol : Symbols, side : Sides, notional : Nat, tick : Nat, filled : Nat \cup {NotYet}]

\* What the orders move, and those executed before hour h.
Moved == [i \in Ids |-> CashOf(orders[i])]
Before(h) == {i \in Ids : Executed(i) /\ orders[i].filled < h}

\* Times are in order, and the rows are of executed orders, each with a first one.
OrdersInv ==
  /\ now \in Nat /\ orders \in Seq(SentOrder)
  /\ \A i \in Ids : orders[i].tick <= now
  /\ \A i \in Ids : Executed(i) => orders[i].tick <= orders[i].filled /\ orders[i].filled <= now
  /\ rows \in Seq([run : Runs, id : Nat])
  /\ \A k \in DOMAIN rows : rows[k].id \in Ids /\ Executed(rows[k].id)
  /\ \A i \in Journalled : \E k \in DOMAIN rows :
       rows[k].id = i /\ \A j \in 1 .. k - 1 : rows[j].id # i

\* The cash is what the orders executed so far have moved, then and now.
CashInv ==
  /\ opening \in Seq(Int) /\ Len(opening) = now + 1
  /\ cash = Sum(Moved, Before(now + 1))
  /\ \A h \in 0 .. now : opening[h + 1] = Sum(Moved, Before(h))

\* What had been executed before the last night is reported, or was late for it.
NightInv ==
  /\ next \in Nat /\ next - Night <= now /\ now <= next
  /\ Before(next - Night) \subseteq reported \cup tardy

LEMMA OrderTypes ==
  ASSUME OrdersInv, NEW i \in Ids
  PROVE  /\ i \in Nat /\ orders[i] \in SentOrder
         /\ orders[i].tick \in Nat /\ orders[i].filled \in Int /\ CashOf(orders[i]) \in Int
  <1>1. orders \in Seq(SentOrder) /\ DOMAIN orders = 1 .. Len(orders)
    BY DEF OrdersInv
  <1>2. i \in Nat /\ orders[i] \in SentOrder
    BY <1>1 DEF Ids
  <1> QED BY <1>2, BriefAssumption DEF SentOrder, NotYet, CashOf

LEMMA OrdersInit == BriefInit => OrdersInv
  BY DEF BriefInit, OrdersInv, Ids, Journalled

\* What is appended to the rows is the fill of an executed order, and its first one
\* or one of an order that has a first one.
LEMMA RowAppended ==
  ASSUME OrdersInv, UNCHANGED <<now, orders>>, NEW r \in [run : Runs, id : Nat],
         rows' = Append(rows, r), r.id \in Ids, Executed(r.id)
  PROVE  OrdersInv'
  <1>1. /\ rows' \in Seq([run : Runs, id : Nat]) /\ Len(rows') = Len(rows) + 1
        /\ Len(rows) \in Nat
        /\ DOMAIN rows = 1 .. Len(rows) /\ DOMAIN rows' = 1 .. Len(rows) + 1
        /\ rows'[Len(rows) + 1] = r /\ \A k \in DOMAIN rows : rows'[k] = rows[k]
    BY DEF OrdersInv
  <1>2. \A k \in DOMAIN rows' : rows'[k].id \in Ids /\ Executed(rows'[k].id)
    BY <1>1 DEF OrdersInv
  <1>3. ASSUME NEW i \in Journalled'
        PROVE  \E k \in DOMAIN rows' :
                 rows'[k].id = i /\ \A j \in 1 .. k - 1 : rows'[j].id # i
    <2>1. CASE i \in Journalled
      <3>1. PICK k \in DOMAIN rows : rows[k].id = i /\ \A j \in 1 .. k - 1 : rows[j].id # i
        BY <2>1 DEF OrdersInv
      <3>2. k \in DOMAIN rows' /\ \A j \in 1 .. k - 1 : j \in DOMAIN rows
        BY <1>1, <3>1
      <3> QED BY <1>1, <3>1, <3>2
    <2>2. CASE i \notin Journalled
      <3>1. r.id = i /\ \A j \in DOMAIN rows : rows[j].id # i
        BY <1>1, <2>2 DEF Journalled
      <3> DEFINE k == Len(rows) + 1
      <3>2. k \in DOMAIN rows' /\ rows'[k].id = i
        BY <1>1, <3>1
      <3>3. \A j \in 1 .. k - 1 : j \in DOMAIN rows /\ rows'[j] = rows[j]
        BY <1>1
      <3>4. \A j \in 1 .. k - 1 : rows'[j].id # i
        BY <3>1, <3>3
      <3> HIDE DEF k
      <3> QED BY <3>2, <3>4
    <2> QED BY <2>1, <2>2
  <1> QED BY <1>1, <1>2, <1>3 DEF OrdersInv, Ids, Executed

LEMMA SendFacts ==
  ASSUME OrdersInv, SendOrder
  PROVE  /\ orders' \in Seq(SentOrder) /\ Ids \subseteq Ids' /\ \A i \in Ids : orders'[i] = orders[i]
         /\ \A i \in Ids' \ Ids : orders'[i].filled = NotYet /\ orders'[i].tick = now
         /\ UNCHANGED <<now, rows, cash, opening, nightVars>>
  <1>1. PICK o \in SentOrder : orders' = Append(orders, o) /\ o.filled = NotYet /\ o.tick = now
    <2>1. PICK s \in Symbols, d \in Sides, n \in Notionals :
            orders' = Append(orders, [symbol |-> s, side |-> d, notional |-> n,
                                      tick |-> now, filled |-> NotYet])
      BY DEF SendOrder
    <2>2. now \in Nat /\ n \in Nat
      BY BriefAssumption DEF OrdersInv
    <2>3. [symbol |-> s, side |-> d, notional |-> n, tick |-> now, filled |-> NotYet] \in SentOrder
      BY <2>2 DEF SentOrder
    <2> QED BY <2>1, <2>3
  <1>2. orders \in Seq(SentOrder)
    BY DEF OrdersInv
  <1>3. /\ orders' \in Seq(SentOrder) /\ DOMAIN orders = 1 .. Len(orders) /\ Len(orders) \in Nat
        /\ DOMAIN orders' = 1 .. Len(orders) + 1 /\ orders'[Len(orders) + 1] = o
        /\ \A i \in DOMAIN orders : orders'[i] = orders[i]
    BY <1>1, <1>2
  <1> QED BY <1>1, <1>3 DEF SendOrder, Ids

LEMMA ExecuteFacts ==
  ASSUME OrdersInv, NEW i \in Ids, Execute(i)
  PROVE  /\ orders' \in Seq(SentOrder) /\ Ids' = Ids /\ ~Executed(i)
         /\ orders'[i].filled = now /\ orders'[i].tick = orders[i].tick
         /\ orders'[i].side = orders[i].side /\ orders'[i].notional = orders[i].notional
         /\ \A j \in Ids : j # i => orders'[j] = orders[j]
         /\ UNCHANGED <<now, rows, opening, nightVars>>
  <1> DEFINE o == orders[i]
             e == [o EXCEPT !.filled = now]
  <1>1. orders \in Seq(SentOrder) /\ now \in Nat /\ i \in DOMAIN orders
    BY DEF OrdersInv, Ids
  <1>2. orders' = [orders EXCEPT ![i] = e]
    BY DEF Execute
  <1>3. o \in SentOrder
    BY OrderTypes
  <1> HIDE DEF o
  <1>4. /\ e \in SentOrder /\ e.filled = now /\ e.tick = o.tick /\ e.side = o.side
        /\ e.notional = o.notional
    BY <1>1, <1>3 DEF SentOrder
  <1> HIDE DEF e
  <1>5. /\ orders' \in Seq(SentOrder) /\ DOMAIN orders' = DOMAIN orders /\ orders'[i] = e
        /\ \A j \in DOMAIN orders : j # i => orders'[j] = orders[j]
    BY <1>1, <1>2, <1>4
  <1> QED BY <1>4, <1>5 DEF Execute, Ids, o

LEMMA OrdersStep == OrdersInv /\ [BriefNext]_briefVars => OrdersInv'
  <1> SUFFICES ASSUME OrdersInv, [BriefNext]_briefVars PROVE OrdersInv'
    OBVIOUS
  <1>1. CASE SendOrder
    <2>1. /\ orders' \in Seq(SentOrder) /\ Ids \subseteq Ids' /\ \A i \in Ids : orders'[i] = orders[i]
          /\ \A i \in Ids' \ Ids : orders'[i].filled = NotYet /\ orders'[i].tick = now
          /\ now' = now /\ rows' = rows
      BY <1>1, SendFacts
    <2>2. \A i \in Ids' :
            /\ orders'[i].tick <= now
            /\ Executed(i)' => orders'[i].tick <= orders'[i].filled /\ orders'[i].filled <= now
      BY <2>1 DEF OrdersInv, Executed
    <2>3. \A k \in DOMAIN rows : rows[k].id \in Ids' /\ Executed(rows[k].id)'
      BY <2>1 DEF OrdersInv, Executed
    <2> QED BY <2>1, <2>2, <2>3 DEF OrdersInv, Journalled
  <1>2. ASSUME NEW i \in Ids, Execute(i) PROVE OrdersInv'
    <2>1. /\ orders' \in Seq(SentOrder) /\ Ids' = Ids /\ ~Executed(i)
          /\ orders'[i].filled = now /\ orders'[i].tick = orders[i].tick
          /\ \A j \in Ids : j # i => orders'[j] = orders[j]
          /\ now' = now /\ rows' = rows
      BY <1>2, ExecuteFacts
    <2>2. orders[i].tick <= now
      BY DEF OrdersInv
    <2>3. orders[i].tick \in Nat /\ now \in Nat
      BY OrderTypes DEF OrdersInv
    <2>4. now # NotYet /\ now <= now
      BY <2>3 DEF NotYet
    <2>5. ASSUME NEW j \in Ids
          PROVE  /\ orders'[j].tick <= now
                 /\ Executed(j)' => orders'[j].tick <= orders'[j].filled /\ orders'[j].filled <= now
      <3>1. CASE j = i
        BY <2>1, <2>2, <2>4, <3>1
      <3>2. CASE j # i
        BY <2>1, <3>2 DEF OrdersInv, Executed
      <3> QED BY <3>1, <3>2
    <2>6. ASSUME NEW k \in DOMAIN rows PROVE rows[k].id \in Ids /\ Executed(rows[k].id)'
      <3>1. rows[k].id \in Ids /\ Executed(rows[k].id)
        BY DEF OrdersInv
      <3>2. rows[k].id # i
        BY <2>1, <3>1
      <3> QED BY <2>1, <3>1, <3>2 DEF Executed
    <2>7. Journalled' = Journalled
      BY <2>1 DEF Journalled
    <2> QED BY <2>1, <2>5, <2>6, <2>7 DEF OrdersInv
  <1>3. ASSUME NEW i \in Ids, JournalFill(i) PROVE OrdersInv'
    <2>1. i \in Nat
      BY OrderTypes
    <2>2. /\ rows' = Append(rows, [run |-> "run", id |-> i]) /\ UNCHANGED <<now, orders>>
          /\ Executed(i) /\ [run |-> "run", id |-> i] \in [run : Runs, id : Nat]
      BY <1>3, <2>1 DEF JournalFill, Runs
    <2> QED BY <2>2, RowAppended
  <1>4. ASSUME NEW i \in Ids, Rejournal(i) PROVE OrdersInv'
    <2>1. i \in Nat /\ i \in Journalled
      BY <1>4, OrderTypes DEF Rejournal
    <2>2. Executed(i)
      BY <2>1 DEF OrdersInv, Journalled
    <2>3. /\ rows' = Append(rows, [run |-> "older run", id |-> i]) /\ UNCHANGED <<now, orders>>
          /\ [run |-> "older run", id |-> i] \in [run : Runs, id : Nat]
      BY <1>4, <2>1 DEF Rejournal, Runs
    <2> QED BY <2>2, <2>3, RowAppended
  <1>5. CASE Elapse
    <2>1. now' = now + 1 /\ now \in Nat /\ orders' = orders /\ rows' = rows
      BY <1>5 DEF Elapse, OrdersInv
    <2>2. \A i \in Ids : orders[i].filled \in Int /\ orders[i].tick \in Int
      BY OrderTypes
    <2>3. \A i \in Ids : orders[i].tick <= now + 1 /\ (Executed(i) => orders[i].filled <= now + 1)
      BY <2>1, <2>2 DEF OrdersInv
    <2> QED BY <2>1, <2>3 DEF OrdersInv, Ids, Executed, Journalled
  <1>6. CASE NightlyBrief \/ UNCHANGED briefVars
    <2>1. now' = now /\ orders' = orders /\ rows' = rows
      BY <1>6 DEF NightlyBrief, briefVars
    <2> QED BY <2>1 DEF OrdersInv, Ids, Executed, Journalled
  <1> QED BY <1>1, <1>2, <1>3, <1>4, <1>5, <1>6 DEF BriefNext

LEMMA OrdersAlways == BriefSpec => []OrdersInv
  BY OrdersInit, OrdersStep, PTL DEF BriefSpec

-------------------------------------------------------------------------------
(* What is flagged.                                                        *)

\* Every journalled fill of the window is in the brief, by the first of its rows.
LEMMA FirstRowCounts ==
  ASSUME OrdersInv, NEW i \in Journalled, InWindow(orders[i].filled)
  PROVE  \E k \in FillsInWindow : rows[k].id = i
  <1>1. PICK k \in DOMAIN rows : rows[k].id = i /\ \A j \in 1 .. k - 1 : rows[j].id # i
    BY DEF OrdersInv
  <1> QED BY <1>1 DEF FillsInWindow

\* Once every fill is journalled, no order flagged as unfilled has been filled, however
\* late it was filled or journalled (daily_brief).
THEOREM FlagsAreRight == BriefSpec => []FlaggedIsUnfilled
  <1>1. ASSUME OrdersInv PROVE FlaggedIsUnfilled
    <2> SUFFICES ASSUME Settled, NEW i \in Unfilled, Executed(i) PROVE FALSE
      BY DEF FlaggedIsUnfilled
    <2>1. /\ i \in Ids /\ InWindow(orders[i].tick)
          /\ \A k \in FillsInWindow :
               Row(k).symbol # orders[i].symbol \/ Row(k).side # orders[i].side
      BY DEF Unfilled, OrdersInWindow
    <2>2. i \in Journalled
      BY <2>1 DEF Settled
    <2>3. InWindow(orders[i].filled)
      <3>1. orders[i].tick \in Int /\ orders[i].filled \in Int
        BY <1>1, <2>1, OrderTypes
      <3>2. now \in Int /\ orders[i].tick <= orders[i].filled /\ orders[i].filled <= now
        BY <1>1, <2>1 DEF OrdersInv
      <3>3. Window \in Int
        BY BriefAssumption
      <3> QED BY <2>1, <3>1, <3>2, <3>3 DEF InWindow
    <2>4. PICK k \in FillsInWindow : rows[k].id = i
      BY <1>1, <2>2, <2>3, FirstRowCounts
    <2> QED BY <2>1, <2>4 DEF Row
  <1> QED BY <1>1, OrdersAlways, PTL

-------------------------------------------------------------------------------
(* The nights.                                                             *)

LEMMA NightInit == BriefInit => NightInv
  BY BriefAssumption DEF BriefInit, NightInv, Before, Ids

LEMMA NightStep ==
  ASSUME OrdersInv, NightInv, Night <= Window, [BriefNext]_briefVars
  PROVE  NightInv'
  <1>1. now \in Nat /\ next \in Nat /\ Night \in Nat /\ Window \in Nat
    BY BriefAssumption DEF OrdersInv, NightInv
  <1>2. CASE SendOrder
    <2>1. /\ Ids \subseteq Ids' /\ \A i \in Ids : orders'[i] = orders[i]
          /\ \A i \in Ids' \ Ids : orders'[i].filled = NotYet
          /\ UNCHANGED <<now, nightVars>>
      BY <1>2, SendFacts
    <2>2. Before(next - Night)' = Before(next - Night)
      BY <2>1 DEF Before, Executed, nightVars
    <2> QED BY <2>1, <2>2 DEF NightInv, nightVars
  <1>3. ASSUME NEW i \in Ids, Execute(i) PROVE NightInv'
    <2>1. /\ Ids' = Ids /\ orders'[i].filled = now
          /\ \A j \in Ids : j # i => orders'[j] = orders[j]
          /\ UNCHANGED <<now, nightVars>>
      BY <1>3, ExecuteFacts
    <2>2. ~(now < next - Night)
      BY <1>1 DEF NightInv
    <2>3. Before(next - Night)' \subseteq Before(next - Night)
      BY <2>1, <2>2 DEF Before, Executed, nightVars
    <2> QED BY <2>1, <2>3 DEF NightInv, nightVars
  <1>4. ASSUME NEW i \in Ids, JournalFill(i) \/ Rejournal(i) PROVE NightInv'
    BY <1>4 DEF JournalFill, Rejournal, NightInv, nightVars, Before, Ids, Executed
  <1>5. CASE Elapse
    <2>1. /\ now' = now + 1 /\ now < next /\ orders' = orders
          /\ next' = next /\ reported' = reported /\ tardy' = tardy
      BY <1>5 DEF Elapse, nightVars
    <2> QED BY <1>1, <2>1 DEF NightInv, Before, Ids, Executed
  <1>6. CASE NightlyBrief
    <2>1. /\ now = next /\ next' = now + Night /\ orders' = orders /\ now' = now
          /\ reported' = reported \cup {rows[k].id : k \in FillsInWindow}
          /\ tardy' = tardy \cup {i \in Ids : Executed(i) /\ i \notin Journalled}
      BY <1>6 DEF NightlyBrief
    <2>2. Before(next - Night)' = Before(now)
      BY <1>1, <2>1 DEF Before, Ids, Executed
    <2>3. ASSUME NEW i \in Before(now) PROVE i \in reported' \cup tardy'
      <3>1. i \in Ids /\ Executed(i) /\ orders[i].filled \in Int /\ orders[i].filled < now
        BY OrderTypes DEF Before
      <3>2. CASE i \notin Journalled
        BY <2>1, <3>1, <3>2
      <3>3. CASE i \in Journalled /\ InWindow(orders[i].filled)
        BY <2>1, <3>3, FirstRowCounts
      <3>4. CASE ~InWindow(orders[i].filled)
        <4>1. orders[i].filled < next - Night
          BY <1>1, <2>1, <3>1, <3>4 DEF InWindow
        <4> QED BY <2>1, <3>1, <4>1 DEF NightInv, Before
      <3> QED BY <3>2, <3>3, <3>4
    <2> QED BY <1>1, <2>1, <2>2, <2>3 DEF NightInv
  <1>7. CASE UNCHANGED briefVars
    BY <1>7 DEF briefVars, NightInv, nightVars, Before, Ids, Executed
  <1> QED BY <1>2, <1>3, <1>4, <1>5, <1>6, <1>7 DEF BriefNext

\* With nights no further apart than the window, no night leaves a gap to the one before:
\* a fill journalled by now has been in a nightly brief, unless it had missed the journal
\* of the night it executed before (daily_brief, the reflection cron).
THEOREM NightsLeaveNoGap ==
  ASSUME Night <= Window
  PROVE  BriefSpec => NightsReportEverything
  <1>1. BriefSpec => []NightInv
    <2>1. OrdersInv /\ NightInv /\ [BriefNext]_briefVars => NightInv'
      BY NightStep
    <2> QED BY <2>1, NightInit, OrdersAlways, PTL DEF BriefSpec
  <1>2. OrdersInv /\ NightInv /\ [BriefNext]_briefVars
          => [next' # next => Journalled \ tardy \subseteq reported']_briefVars
    <2> SUFFICES ASSUME OrdersInv, NightInv, BriefNext, next' # next,
                        NEW i \in Journalled, i \notin tardy
                 PROVE  i \in reported'
      OBVIOUS
    <2>1. NightlyBrief
      BY DEF BriefNext, SendOrder, Elapse, Execute, JournalFill, Rejournal, nightVars
    <2>2. now = next /\ reported' = reported \cup {rows[k].id : k \in FillsInWindow}
      BY <2>1 DEF NightlyBrief
    <2>3. i \in Ids /\ Executed(i)
      BY DEF OrdersInv, Journalled
    <2>4. /\ orders[i].filled \in Int /\ orders[i].filled <= now /\ now \in Nat /\ next \in Nat
          /\ Night \in Nat /\ Window \in Nat
      BY <2>3, OrderTypes, BriefAssumption DEF OrdersInv, NightInv
    <2>5. CASE InWindow(orders[i].filled)
      BY <2>2, <2>5, FirstRowCounts
    <2>6. CASE ~InWindow(orders[i].filled)
      <3>1. orders[i].filled < next - Night
        BY <2>2, <2>4, <2>6 DEF InWindow
      <3> QED BY <2>2, <2>3, <3>1 DEF NightInv, Before
    <2> QED BY <2>5, <2>6
  <1> QED BY <1>1, <1>2, OrdersAlways, PTL DEF BriefSpec, NightsReportEverything

-------------------------------------------------------------------------------
(* The cash.                                                               *)

LEMMA BeforeTypes ==
  ASSUME OrdersInv, NEW h
  PROVE  Before(h) \subseteq Ids /\ IsFiniteSet(Before(h)) /\ IsFiniteSet(Ids)
  <1>1. Ids = 1 .. Len(orders) /\ Len(orders) \in Nat
    BY DEF OrdersInv, Ids
  <1>2. IsFiniteSet(Ids)
    BY <1>1, FS_Interval
  <1> QED BY <1>2, FS_Subset DEF Before

LEMMA MovedType ==
  ASSUME OrdersInv PROVE \A i \in Ids : Moved[i] \in Int /\ Moved[i] = CashOf(orders[i])
  BY OrderTypes DEF Moved

LEMMA SumSame ==
  ASSUME NEW f, NEW g, NEW S, IsFiniteSet(S), \A x \in S : f[x] = g[x] /\ g[x] \in Int
  PROVE  Sum(f, S) = Sum(g, S)
  <1> DEFINE h == [x \in S |-> x]
  <1>1. \A x \in S : g[x] = f[h[x]] /\ g[x] \in Int
    OBVIOUS
  <1>2. \A x, y \in S : h[x] = h[y] => x = y
    OBVIOUS
  <1>3. {h[x] : x \in S} = S
    OBVIOUS
  <1> HIDE DEF h
  <1>4. Sum(g, S) = Sum(f, {h[x] : x \in S})
    BY <1>1, <1>2, SumImage
  <1> QED BY <1>3, <1>4

LEMMA CashInit == BriefInit => CashInv
  <1> SUFFICES ASSUME BriefInit PROVE CashInv
    OBVIOUS
  <1>1. \A h : Before(h) = {}
    BY DEF BriefInit, Before, Ids
  <1>2. Sum(Moved, {}) = 0
    BY SumEmpty
  <1>3. now = 0 /\ opening = <<0>> /\ cash = 0
    BY DEF BriefInit
  <1> QED BY <1>1, <1>2, <1>3 DEF CashInv

LEMMA CashStep ==
  ASSUME OrdersInv, CashInv, [BriefNext]_briefVars
  PROVE  CashInv'
  <1>1. now \in Nat /\ OrdersInv'
    BY OrdersStep DEF OrdersInv
  <1>2. CASE SendOrder
    <2>1. /\ Ids \subseteq Ids' /\ \A i \in Ids : orders'[i] = orders[i]
          /\ \A i \in Ids' \ Ids : orders'[i].filled = NotYet
          /\ UNCHANGED <<now, cash, opening>>
      BY <1>2, SendFacts
    <2>2. \A h : Before(h)' = Before(h)
      BY <2>1 DEF Before, Executed
    <2>3. \A i \in Ids : Moved'[i] = Moved[i] /\ Moved[i] \in Int
      <3>1. \A i \in Ids : Moved[i] \in Int /\ Moved[i] = CashOf(orders[i])
        BY MovedType
      <3>2. \A i \in Ids : Moved'[i] = CashOf(orders'[i])
        BY <2>1 DEF Moved
      <3> QED BY <2>1, <3>1, <3>2
    <2>4. \A h : Sum(Moved', Before(h)) = Sum(Moved, Before(h))
      <3> SUFFICES ASSUME NEW h PROVE Sum(Moved', Before(h)) = Sum(Moved, Before(h))
        OBVIOUS
      <3>1. Before(h) \subseteq Ids /\ IsFiniteSet(Before(h))
        BY BeforeTypes
      <3>2. \A i \in Before(h) : Moved'[i] = Moved[i] /\ Moved[i] \in Int
        BY <2>3, <3>1
      <3> QED BY <3>1, <3>2, SumSame
    <2> QED BY <2>1, <2>2, <2>4 DEF CashInv
  <1>3. ASSUME NEW i \in Ids, Execute(i) PROVE CashInv'
    <2>1. /\ Ids' = Ids /\ ~Executed(i)
          /\ orders'[i].filled = now
          /\ orders'[i].side = orders[i].side /\ orders'[i].notional = orders[i].notional
          /\ \A j \in Ids : j # i => orders'[j] = orders[j]
          /\ UNCHANGED <<now, opening>>
      BY <1>3, ExecuteFacts
    <2>2. Moved' = Moved
      <3>1. \A j \in Ids : CashOf(orders'[j]) = CashOf(orders[j])
        BY <2>1 DEF CashOf
      <3> QED BY <2>1, <3>1 DEF Moved
    <2>3. now # NotYet
      BY <1>1 DEF NotYet
    <2>4. ASSUME NEW h \in 0 .. now PROVE Before(h)' = Before(h)
      BY <1>1, <2>1 DEF Before, Executed
    <2>5. Before(now + 1)' = Before(now + 1) \cup {i}
      BY <1>1, <2>1, <2>3 DEF Before, Executed
    <2>6. i \notin Before(now + 1)
      BY <2>1 DEF Before
    <2>7. Sum(Moved, Before(now + 1) \cup {i}) = Sum(Moved, Before(now + 1)) + Moved[i]
      <3>1. Before(now + 1) \subseteq Ids /\ IsFiniteSet(Before(now + 1))
        BY BeforeTypes
      <3>2. \A j \in Before(now + 1) \cup {i} : Moved[j] \in Int
        BY <3>1, MovedType
      <3> QED BY <2>6, <3>1, <3>2, SumAdd
    <2>8. cash' = cash + Moved[i]
      <3>1. cash \in Int
        <4>1. Before(now + 1) \subseteq Ids /\ IsFiniteSet(Before(now + 1))
          BY BeforeTypes
        <4> QED BY <4>1, MovedType, SumType DEF CashInv
      <3>2. orders[i].notional \in Int /\ Fee \in Int
        BY OrderTypes, BriefAssumption DEF SentOrder
      <3>3. Moved[i] = CashOf(orders[i])
        BY MovedType
      <3>4. cash' = cash - Fee
              + (IF orders[i].side = "buy" THEN - orders[i].notional ELSE orders[i].notional)
        BY <1>3 DEF Execute
      <3> QED BY <3>1, <3>2, <3>3, <3>4 DEF CashOf
    <2>9. cash' = Sum(Moved', Before(now + 1)')
      BY <2>2, <2>5, <2>7, <2>8 DEF CashInv
    <2>10. \A h \in 0 .. now : opening[h + 1] = Sum(Moved', Before(h)')
      BY <2>2, <2>4 DEF CashInv
    <2> QED BY <2>1, <2>9, <2>10 DEF CashInv
  <1>4. CASE Elapse
    <2>1. now' = now + 1 /\ opening' = Append(opening, cash) /\ cash' = cash /\ orders' = orders
      BY <1>4 DEF Elapse
    <2>2. Moved' = Moved /\ \A h : Before(h)' = Before(h)
      BY <2>1 DEF Moved, Before, Ids, Executed
    <2>3. \A i \in Ids : orders[i].filled \in Int
      BY OrderTypes
    <2>4. Before(now + 1 + 1) = Before(now + 1)
      BY <1>1, <2>3 DEF Before, OrdersInv
    <2>5. Before(now + 1) \subseteq Ids /\ IsFiniteSet(Before(now + 1))
      BY BeforeTypes
    <2>6. cash \in Int /\ opening \in Seq(Int) /\ Len(opening) = now + 1
      BY <2>5, MovedType, SumType DEF CashInv
    <2>7. /\ opening' \in Seq(Int) /\ Len(opening') = now + 1 + 1 /\ opening'[now + 1 + 1] = cash
          /\ \A h \in 0 .. now : opening'[h + 1] = opening[h + 1]
      BY <1>1, <2>1, <2>6
    <2>8. \A h \in 0 .. now + 1 : opening'[h + 1] = Sum(Moved, Before(h))
      <3> SUFFICES ASSUME NEW h \in 0 .. now + 1 PROVE opening'[h + 1] = Sum(Moved, Before(h))
        OBVIOUS
      <3>1. CASE h = now + 1
        BY <2>7, <3>1 DEF CashInv
      <3>2. CASE h # now + 1
        <4>1. h \in 0 .. now
          BY <1>1, <3>2
        <4> QED BY <2>7, <4>1 DEF CashInv
      <3> QED BY <3>1, <3>2
    <2> QED BY <2>1, <2>2, <2>4, <2>7, <2>8 DEF CashInv
  <1>5. CASE NightlyBrief \/ UNCHANGED briefVars \/ \E i \in Ids : JournalFill(i) \/ Rejournal(i)
    <2>1. UNCHANGED <<now, orders, cash, opening>>
      BY <1>5 DEF NightlyBrief, briefVars, JournalFill, Rejournal
    <2>2. Moved' = Moved /\ \A h : Before(h)' = Before(h)
      BY <2>1 DEF Moved, Before, Ids, Executed
    <2> QED BY <2>1, <2>2 DEF CashInv
  <1> QED BY <1>2, <1>3, <1>4, <1>5 DEF BriefNext

LEMMA CashAlways == BriefSpec => []CashInv
  <1>1. OrdersInv /\ CashInv /\ [BriefNext]_briefVars => CashInv'
    BY CashStep
  <1> QED BY <1>1, CashInit, OrdersAlways, PTL DEF BriefSpec

\* The rows that count are one to one with the fills of the window.
LEMMA RowsAreFills ==
  ASSUME OrdersInv, Settled
  PROVE  /\ {rows[k].id : k \in FillsInWindow}
              = {i \in Ids : Executed(i) /\ InWindow(orders[i].filled)}
         /\ \A k, l \in FillsInWindow : rows[k].id = rows[l].id => k = l
         /\ IsFiniteSet(FillsInWindow)
  <1>1. DOMAIN rows = 1 .. Len(rows) /\ Len(rows) \in Nat /\ FillsInWindow \subseteq DOMAIN rows
    BY DEF OrdersInv, FillsInWindow
  <1>2. IsFiniteSet(FillsInWindow)
    <2>1. IsFiniteSet(1 .. Len(rows))
      BY <1>1, FS_Interval
    <2> QED BY <1>1, <2>1, FS_Subset
  <1>3. ASSUME NEW k \in FillsInWindow, NEW l \in FillsInWindow, rows[k].id = rows[l].id
        PROVE  k = l
    <2>1. k \in Nat /\ l \in Nat /\ k >= 1 /\ l >= 1
      BY <1>1
    <2>2. k \notin 1 .. l - 1 /\ l \notin 1 .. k - 1
      BY <1>3 DEF FillsInWindow
    <2> QED BY <2>1, <2>2
  <1>4. ASSUME NEW i \in Ids, Executed(i), InWindow(orders[i].filled)
        PROVE  \E k \in FillsInWindow : rows[k].id = i
    BY <1>4, FirstRowCounts DEF Settled
  <1>5. ASSUME NEW k \in FillsInWindow
        PROVE  rows[k].id \in Ids /\ Executed(rows[k].id) /\ InWindow(orders[rows[k].id].filled)
    BY DEF FillsInWindow, OrdersInv
  <1> QED BY <1>2, <1>3, <1>4, <1>5

\* For any orders, fee and window: once every fill is journalled, the brief's cash change
\* is what the account's cash has moved by in the window, whenever the fills were
\* journalled and however often (daily_brief, approx_realized_cash_change).
THEOREM CashChangeIsRight == BriefSpec => []CashChangeIsTheAccounts
  <1>1. ASSUME OrdersInv, CashInv PROVE CashChangeIsTheAccounts
    <2> SUFFICES ASSUME Settled
                 PROVE  CashChange = cash - opening[1 + Max({0, now - Window})]
      BY DEF CashChangeIsTheAccounts
    <2> DEFINE g == [k \in DOMAIN rows |-> CashOf(Row(k))]
               id == [k \in FillsInWindow |-> rows[k].id]
               since == {i \in Ids : Executed(i) /\ InWindow(orders[i].filled)}
               m == IF now - Window > 0 THEN now - Window ELSE 0
    <2>1. now \in Nat /\ Window \in Nat
      BY <1>1, BriefAssumption DEF OrdersInv
    <2>2. Max({0, now - Window}) = m /\ m \in 0 .. now
      BY <2>1 DEF Max
    <2>3. Before(m) \cap since = {} /\ Before(now + 1) = Before(m) \cup since
      <3>1. \A i \in Ids : Executed(i) =>
              /\ orders[i].filled \in Nat /\ orders[i].filled <= now
        BY <1>1, OrderTypes DEF OrdersInv
      <3>2. \A i \in Ids : Executed(i) => (InWindow(orders[i].filled) <=> ~(orders[i].filled < m))
        BY <2>1, <3>1 DEF InWindow
      <3>3. \A i \in Ids : Executed(i) => orders[i].filled < now + 1
        BY <2>1, <3>1
      <3> HIDE DEF m
      <3> QED BY <3>2, <3>3 DEF Before
    <2>4. /\ Before(m) \subseteq Ids /\ IsFiniteSet(Before(m))
          /\ since \subseteq Ids /\ IsFiniteSet(since)
      BY <1>1, BeforeTypes, FS_Subset
    <2>5. Sum(Moved, Before(now + 1)) = Sum(Moved, Before(m)) + Sum(Moved, since)
      BY <1>1, <2>3, <2>4, MovedType, SumUnion
    <2>6. Sum(Moved, Before(m)) \in Int /\ Sum(Moved, since) \in Int
      BY <1>1, <2>4, MovedType, SumType
    <2>7. Sum(g, FillsInWindow) = Sum(Moved, since)
      <3>1. /\ {rows[k].id : k \in FillsInWindow} = since /\ IsFiniteSet(FillsInWindow)
            /\ \A k, l \in FillsInWindow : rows[k].id = rows[l].id => k = l
        BY <1>1, RowsAreFills
      <3>2. {id[k] : k \in FillsInWindow} = since
        BY <3>1
      <3>3. \A k, l \in FillsInWindow : id[k] = id[l] => k = l
        BY <3>1
      <3>4. \A k \in FillsInWindow : id[k] \in Ids /\ g[k] = CashOf(orders[id[k]])
        BY <1>1 DEF FillsInWindow, OrdersInv, Row
      <3>5. \A k \in FillsInWindow : g[k] = Moved[id[k]] /\ g[k] \in Int
        BY <1>1, <3>4, MovedType
      <3> HIDE DEF id, g, since
      <3> QED BY <3>1, <3>2, <3>3, <3>5, SumImage
    <2>8. CashChange = Sum(g, FillsInWindow)
      BY SumIsLibrarys DEF CashChange
    <2>9. opening[m + 1] = Sum(Moved, Before(m)) /\ cash = Sum(Moved, Before(now + 1))
      BY <1>1, <2>2 DEF CashInv
    <2> HIDE DEF m, g, since
    <2>10. 1 + m = m + 1
      BY <2>1, <2>2
    <2> QED BY <2>2, <2>5, <2>6, <2>7, <2>8, <2>9, <2>10
  <1> QED BY <1>1, OrdersAlways, CashAlways, PTL

===============================================================================
