---- MODULE ProbeRunProofs ----
(***************************************************************************)
(* probe_and_hold.py and its supervisor, for any set of plans, any web and *)
(* any limits: the bytes of a session, the redraw that comes next, what is *)
(* still sent after a stop, the attempts of the supervisor, what a session *)
(* leaves open, what stops a cell, what a row says, how often each         *)
(* identity is drawn, what a run costs and what its summary counts, and    *)
(* that no arm of an accepted plan is another under its own label.  The    *)
(* cells of a plan, the tables of the engines, of the targets and of the   *)
(* gateways are looked into where one of these depends on them.            *)
(***************************************************************************)
EXTENDS ProbeRun, SequenceLemmas

USE DEF mainVars, lookups, seat, sessionVars, supervisorVars, recordVars

\* A relay counts only while it is held, a session's meter begins at nothing,
\* and a snapshot is never ahead of the counter.
Readings == [moved : Nat, at : Nat, counted : Nat, between : Nat]
MeterInv ==
  /\ meter \in Readings
  /\ meter.at <= meter.moved
  /\ "relay" \notin held => meter.moved = 0
  /\ pc \notin {"walk", "row", "judge", "close"} => meter.moved = 0 /\ meter.at = 0
  /\ pc = "row" => row.bytes \in Nat
  /\ BytesAreOnce

\* What the process was started with does not change under it.
PlanInv == args \in Plans /\ cells = BuildCells(args)

\* The deque holds no redraw while an identity is in hand.
WorkInv ==
  /\ \E S : work \in Seq(S)
  /\ spent \in Nat
  /\ RedrawIsNext
  /\ pc \in {"draw", "open", "direct", "page", "walk", "row", "judge"} =>
       \A i \in DOMAIN work : ~(work[i].redraw > 0)

\* No session is opened after the request but the one whose identity was in
\* hand, and it sends nothing once a row of it has seen the request.
LateInv ==
  /\ late \in [opened : {0, 1}, sent : {0, 1}]
  /\ ~stopfile => late.opened = 0 /\ late.sent = 0
  /\ pc \in {"draw", "open"} => late.opened = 0
  /\ pc \in {"draw", "open", "direct", "page", "walk"} => late.sent = 0

\* A session begins at its first page, and is not walked on after a watch has
\* tripped.
WalkInv ==
  /\ pc \in {"ladder", "start", "head", "draw", "open", "direct", "page"} => walk = NoWalk
  /\ pc = "walk" /\ (watch.tripped \/ inert.tripped) => walk = NoWalk

\* The supervisor has one entry for each attempt before the one it is at, and
\* the entry of none but the last can be of an attempt not to be repeated.
Repeatable(attempt) == ~attempt.aged /\ attempt.code \notin {0, ExitStopped, Interrupted}
EndedInv ==
  /\ \E S : ended \in Seq(S)
  /\ ladder.attempts \in Nat /\ "attempts" \in DOMAIN ladder
  /\ pc = "ladder" => ended = <<>> /\ ladder.attempts = 0
  /\ pc \notin {"ladder", "done"} => ladder.attempts <= Len(ended) + 1
  /\ pc = "done" => ended = <<>> \/ ladder.attempts <= Len(ended)
  /\ \A i \in DOMAIN ended : pc # "done" \/ i < Len(ended) => Repeatable(ended[i])
----------------------------------------------------------------------------
(* What Picked takes of a list.                                            *)

\* The equation that Picked's recursive function solves.
Picking(list, T, f) ==
  f = [n \in 0..Len(list) |->
         IF n = 0 THEN <<>>
         ELSE IF n \in T THEN Append(f[n - 1], list[n]) ELSE f[n - 1]]
Picks(list, T, V) ==
  [n \in 1..Len(list) |->
     [taken \in Seq(V) |-> IF n \in T THEN Append(taken, list[n]) ELSE taken]]

\* It has one, whose values are lists of what is picked.
LEMMA PickingExists ==
  ASSUME NEW W, NEW list \in Seq(W), NEW T, NEW V,
         \A i \in 1..Len(list) : i \in T => list[i] \in V
  PROVE  \E f \in [0..Len(list) -> Seq(V)] : Picking(list, T, f)
<1>1. Len(list) \in Nat
  BY LenProperties
<1>2. Picks(list, T, V) \in [1..Len(list) -> [Seq(V) -> Seq(V)]]
  <2>1. \A n \in 1..Len(list), taken \in Seq(V) : n \in T => Append(taken, list[n]) \in Seq(V)
    BY <1>1, AppendProperties
  <2> QED BY <2>1 DEF Picks
<1>3. <<>> \in Seq(V)
  BY EmptySeq
<1>4. PICK f \in [0..Len(list) -> Seq(V)] : Recurs(f, Len(list), <<>>, Picks(list, T, V))
  BY <1>1, <1>2, <1>3, RecursionExists
<1>5. \A n \in 0..Len(list) :
        f[n] = IF n = 0 THEN <<>>
               ELSE IF n \in T THEN Append(f[n - 1], list[n]) ELSE f[n - 1]
  <2> TAKE n \in 0..Len(list)
  <2>1. f[n] = IF n = 0 THEN <<>> ELSE Picks(list, T, V)[n][f[n - 1]]
    BY <1>4 DEF Recurs
  <2>2. ASSUME n # 0
        PROVE  Picks(list, T, V)[n][f[n - 1]] =
                 IF n \in T THEN Append(f[n - 1], list[n]) ELSE f[n - 1]
    <3>1. n \in 1..Len(list) /\ n - 1 \in 0..Len(list)
      BY <1>1, <2>2
    <3>2. f[n - 1] \in Seq(V)
      BY <3>1
    <3> QED BY <3>1, <3>2 DEF Picks
  <2> QED BY <2>1, <2>2
<1> QED BY <1>5 DEF Picking

\* One step of it.
LEMMA PickingStep ==
  ASSUME NEW list, NEW T, NEW f, Picking(list, T, f), Len(list) \in Nat,
         NEW n \in Nat, n + 1 <= Len(list)
  PROVE  f[n + 1] = IF n + 1 \in T THEN Append(f[n], list[n + 1]) ELSE f[n]
<1> DEFINE m == n + 1
<1>1. m \in 0..Len(list) /\ m # 0 /\ m - 1 = n
  OBVIOUS
<1> HIDE DEF m
<1>2. f[m] = IF m = 0 THEN <<>>
             ELSE IF m \in T THEN Append(f[m - 1], list[m]) ELSE f[m - 1]
  BY <1>1 DEF Picking
<1>3. f[m] = IF m \in T THEN Append(f[n], list[m]) ELSE f[n]
  BY <1>1, <1>2
<1> QED BY <1>3 DEF m

\* What is picked of a list is picked of the beginning of a longer one.
LEMMA PickingAgrees ==
  ASSUME NEW V, NEW list \in Seq(V), NEW T, NEW longer \in Seq(V), NEW U,
         Len(list) <= Len(longer), \A i \in 1..Len(list) : list[i] = longer[i],
         \A i \in 1..Len(list) : i \in T <=> i \in U,
         NEW f, Picking(list, T, f), NEW g, Picking(longer, U, g)
  PROVE  \A n \in 0..Len(list) : f[n] = g[n]
<1> DEFINE S == {n \in Nat : n <= Len(list) => f[n] = g[n]}
<1>0. Len(list) \in Nat /\ Len(longer) \in Nat
  BY LenProperties
<1>1. 0 \in S
  BY <1>0 DEF Picking
<1>2. ASSUME NEW n \in Nat, n \in S PROVE n + 1 \in S
  <2> SUFFICES ASSUME n + 1 <= Len(list) PROVE f[n + 1] = g[n + 1]
    OBVIOUS
  <2>1. f[n] = g[n] /\ n + 1 \in 1..Len(list) /\ n + 1 \in 1..Len(longer) /\ (n + 1) - 1 = n
    BY <1>0, <1>2
  <2>2. /\ f[n + 1] = IF n + 1 \in T THEN Append(f[n], list[n + 1]) ELSE f[n]
        /\ g[n + 1] = IF n + 1 \in U THEN Append(g[n], longer[n + 1]) ELSE g[n]
    BY <1>0, <2>1, PickingStep
  <2> QED BY <2>1, <2>2
<1>3. Nat \subseteq S
  <2> HIDE DEF S
  <2> QED BY <1>1, <1>2, NatInduct
<1> QED BY <1>3

LEMMA PickedIs ==
  ASSUME NEW W, NEW list \in Seq(W), NEW T, NEW V,
         \A i \in 1..Len(list) : i \in T => list[i] \in V
  PROVE  \E f \in [0..Len(list) -> Seq(V)] : Picking(list, T, f) /\ Picked(list, T) = f[Len(list)]
<1> DEFINE F == CHOOSE f : Picking(list, T, f)
<1>1. Picked(list, T) = F[Len(list)]
  BY DEF Picked, Picking
<1>2. PICK f \in [0..Len(list) -> Seq(V)] : Picking(list, T, f)
  BY PickingExists
<1>3. Picking(list, T, F)
  BY <1>2
<1> HIDE DEF F
<1>4. Len(list) \in Nat
  BY LenProperties
<1>5. \A n \in 0..Len(list) : F[n] = f[n]
  BY <1>2, <1>3, <1>4, PickingAgrees
<1>6. Len(list) \in 0..Len(list)
  BY <1>4
<1> QED BY <1>1, <1>2, <1>5, <1>6

\* What is picked of a list is a list of some of its elements.
LEMMA PickedIn ==
  ASSUME NEW W, NEW list \in Seq(W), NEW T, NEW V,
         \A i \in 1..Len(list) : i \in T => list[i] \in V
  PROVE  Picked(list, T) \in Seq(V)
<1>1. PICK f \in [0..Len(list) -> Seq(V)] : Picked(list, T) = f[Len(list)]
  BY PickedIs
<1>2. Len(list) \in 0..Len(list)
  BY LenProperties
<1> QED BY <1>1, <1>2

\* Of a list with one element more: that element too, or not.
LEMMA PickedGrows ==
  ASSUME NEW V, NEW list \in Seq(V), NEW T, NEW longer \in Seq(V), NEW U,
         Len(longer) = Len(list) + 1, \A i \in 1..Len(list) : list[i] = longer[i],
         \A i \in 1..Len(list) : i \in T <=> i \in U
  PROVE  /\ Picked(list, T) \in Seq(V)
         /\ Picked(longer, U) = IF Len(longer) \in U
                                THEN Append(Picked(list, T), longer[Len(longer)])
                                ELSE Picked(list, T)
<1>1. /\ Len(list) \in Nat /\ Len(list) <= Len(longer)
      /\ \A i \in 1..Len(list) : list[i] \in V
      /\ \A i \in 1..Len(longer) : longer[i] \in V
  BY LenProperties, ElementOfSeq
<1>2. PICK f \in [0..Len(list) -> Seq(V)] : Picking(list, T, f) /\ Picked(list, T) = f[Len(list)]
  BY <1>1, PickedIs
<1>3. PICK g \in [0..Len(longer) -> Seq(V)] :
        Picking(longer, U, g) /\ Picked(longer, U) = g[Len(longer)]
  BY <1>1, PickedIs
<1>4. g[Len(longer)] = IF Len(longer) \in U
                       THEN Append(g[Len(list)], longer[Len(longer)]) ELSE g[Len(list)]
  <2>1. Len(longer) \in Nat /\ Len(list) + 1 <= Len(longer)
    BY <1>1
  <2>2. g[Len(list) + 1] = IF Len(list) + 1 \in U
                           THEN Append(g[Len(list)], longer[Len(list) + 1]) ELSE g[Len(list)]
    BY <1>1, <1>3, <2>1, PickingStep
  <2> QED BY <2>2
<1>5. g[Len(list)] = f[Len(list)]
  <2>1. Picking(list, T, f) /\ Picking(longer, U, g)
    BY <1>2, <1>3
  <2>2. \A n \in 0..Len(list) : f[n] = g[n]
    BY <1>1, <2>1, PickingAgrees, SMTT(60)
  <2> QED BY <1>1, <2>2
<1> QED BY <1>1, <1>2, <1>3, <1>4, <1>5
----------------------------------------------------------------------------
(* The cells of a plan.                                                    *)

\* A cell of a product is a cell of before with a value of the new axis.
Turned(C, axis, V) == {[c EXCEPT ![axis] = v] : c \in C, v \in V}

LEMMA AlongIs ==
  ASSUME NEW C, NEW from \in Seq(C), NEW V, NEW values \in Seq(V), NEW axis
  PROVE  Along(from, axis, values) \in Seq(Turned(C, axis, V))
<1> DEFINE n == Len(values)
           k == Len(from) * n
<1>1. /\ Len(from) \in Nat /\ n \in Nat /\ k \in Nat
      /\ \A i \in 1..Len(from) : from[i] \in C
      /\ \A i \in 1..n : values[i] \in V
  <2>1. \A a, b \in Nat : a * b \in Nat
    OBVIOUS
  <2> QED BY <2>1, LenProperties, ElementOfSeq
<1>2. ASSUME NEW i \in 1..k
      PROVE  /\ 1 + ((i - 1) \div n) \in 1..Len(from)
             /\ 1 + ((i - 1) % n) \in 1..n
  <2>1. n # 0
    BY <1>1, <1>2
  <2>2. \A a, b \in Nat, m \in Nat \ {0} :
          a < b * m => a \div m < b /\ a \div m \in Nat /\ a % m < m /\ a % m \in Nat
    BY SMTT(60)
  <2>3. i - 1 \in Nat /\ i - 1 < Len(from) * n /\ n \in Nat \ {0}
    BY <1>1, <1>2, <2>1
  <2>4. (i - 1) \div n < Len(from) /\ (i - 1) \div n \in Nat /\ (i - 1) % n < n /\ (i - 1) % n \in Nat
    <3> HIDE DEF n
    <3> QED BY <1>1, <2>2, <2>3
  <2> QED BY <1>1, <2>4
<1>3. Along(from, axis, values) = [i \in 1..k |-> [from[1 + ((i - 1) \div n)]
                                                     EXCEPT ![axis] = values[1 + ((i - 1) % n)]]]
  BY DEF Along
<1>4. \A i \in 1..k :
        [from[1 + ((i - 1) \div n)] EXCEPT ![axis] = values[1 + ((i - 1) % n)]] \in Turned(C, axis, V)
  <2> TAKE i \in 1..k
  <2>1. \A c \in C, v \in V : [c EXCEPT ![axis] = v] \in Turned(C, axis, V)
    BY DEF Turned
  <2>2. from[1 + ((i - 1) \div n)] \in C /\ values[1 + ((i - 1) % n)] \in V
    <3> HIDE DEF k, n
    <3> QED BY <1>1, <1>2
  <2> QED BY <2>1, <2>2
<1>5. Along(from, axis, values) \in [1..k -> Turned(C, axis, V)]
  <2> HIDE DEF k, n
  <2> QED BY <1>3, <1>4
<1> QED
  <2> HIDE DEF k
  <2> QED BY <1>1, <1>5, SeqDef

Product(E, T, C, P, L, N, G, H, I) ==
  [engine : E, target : T, country : C, params : P, level : L, entry : N, geo : G,
   hand : H, interact : I]

LEMMA Turns ==
  ASSUME NEW E, NEW T, NEW C, NEW P, NEW L, NEW N, NEW G, NEW H, NEW I, NEW V
  PROVE  /\ Turned(Product(E, T, C, P, L, N, G, H, I), "engine", V) \subseteq Product(V, T, C, P, L, N, G, H, I)
         /\ Turned(Product(E, T, C, P, L, N, G, H, I), "target", V) \subseteq Product(E, V, C, P, L, N, G, H, I)
         /\ Turned(Product(E, T, C, P, L, N, G, H, I), "country", V) \subseteq Product(E, T, V, P, L, N, G, H, I)
         /\ Turned(Product(E, T, C, P, L, N, G, H, I), "params", V) \subseteq Product(E, T, C, V, L, N, G, H, I)
         /\ Turned(Product(E, T, C, P, L, N, G, H, I), "level", V) \subseteq Product(E, T, C, P, V, N, G, H, I)
         /\ Turned(Product(E, T, C, P, L, N, G, H, I), "entry", V) \subseteq Product(E, T, C, P, L, V, G, H, I)
         /\ Turned(Product(E, T, C, P, L, N, G, H, I), "geo", V) \subseteq Product(E, T, C, P, L, N, V, H, I)
         /\ Turned(Product(E, T, C, P, L, N, G, H, I), "hand", V) \subseteq Product(E, T, C, P, L, N, G, V, I)
         /\ Turned(Product(E, T, C, P, L, N, G, H, I), "interact", V) \subseteq Product(E, T, C, P, L, N, G, H, V)
<1>1. \A c \in Product(E, T, C, P, L, N, G, H, I), v \in V :
        /\ [c EXCEPT !["engine"] = v] \in Product(V, T, C, P, L, N, G, H, I)
        /\ [c EXCEPT !["target"] = v] \in Product(E, V, C, P, L, N, G, H, I)
        /\ [c EXCEPT !["country"] = v] \in Product(E, T, V, P, L, N, G, H, I)
        /\ [c EXCEPT !["params"] = v] \in Product(E, T, C, V, L, N, G, H, I)
        /\ [c EXCEPT !["level"] = v] \in Product(E, T, C, P, V, N, G, H, I)
        /\ [c EXCEPT !["entry"] = v] \in Product(E, T, C, P, L, V, G, H, I)
        /\ [c EXCEPT !["geo"] = v] \in Product(E, T, C, P, L, N, V, H, I)
        /\ [c EXCEPT !["hand"] = v] \in Product(E, T, C, P, L, N, G, V, I)
        /\ [c EXCEPT !["interact"] = v] \in Product(E, T, C, P, L, N, G, H, V)
  BY DEF Product
<1>2. ASSUME NEW D, NEW F, NEW axis, \A c \in D, v \in V : [c EXCEPT ![axis] = v] \in F
      PROVE  Turned(D, axis, V) \subseteq F
  BY <1>2 DEF Turned
<1> QED BY <1>1, <1>2

\* A product along an axis is a list of the product of the sets.
LEMMA AlongIn ==
  ASSUME NEW C, NEW from \in Seq(C), NEW V, NEW values \in Seq(V), NEW axis,
         NEW D, Turned(C, axis, V) \subseteq D
  PROVE  Along(from, axis, values) \in Seq(D)
<1>1. Along(from, axis, values) \in Seq(Turned(C, axis, V))
  BY AlongIs
<1> QED
  BY <1>1

\* Of a list of values typed, each once.
LEMMA OnceIn ==
  ASSUME NEW V, NEW list \in Seq(V)
  PROVE  Once(list) \in Seq(ToSet(list))
<1>1. \A i \in 1..Len(list) : list[i] \in ToSet(list)
  BY LenProperties DEF ToSet
<1> QED BY <1>1, PickedIn DEF Once

LEMMA ListOfItself ==
  ASSUME NEW V, NEW list \in Seq(V)
  PROVE  list \in Seq(ToSet(list))
<1>1. /\ Len(list) \in Nat /\ DOMAIN list = 1..Len(list) /\ list = [i \in 1..Len(list) |-> list[i]]
  BY LenProperties
<1>2. \A i \in 1..Len(list) : list[i] \in ToSet(list)
  BY <1>1 DEF ToSet
<1>3. list \in [1..Len(list) -> ToSet(list)]
  BY <1>1, <1>2
<1> QED BY <1>1, <1>3, SeqDef

LEMMA LevelsIn ==
  ASSUME NEW plan
  PROVE  Levels(plan) \in Seq(ToSet(Levels(plan)))
<1>1. LADDER \in Seq({"L0", "L1", "L2", "L3", "N1", "N3"})
  BY DEF LADDER
<1>2. Levels(plan) \in Seq({"L0", "L1", "L2", "L3", "N1", "N3"})
  BY <1>1, PickedIn, ElementOfSeq DEF Levels
<1> QED BY <1>2, ListOfItself

\* The cells of a plan are a list of combinations of its axes.
LEMMA CellsInSet ==
  ASSUME NEW plan \in Plans
  PROVE  BuildCells(plan) \in Seq(CellSet(plan))
<1> DEFINE blank == {""}
           E == ToSet(plan.engines)
           T == ToSet(plan.targets)
           C == ToSet(Countries(plan))
           P == ToSet(Arms(plan))
           L == ToSet(Levels(plan))
           N == ToSet(plan.entry)
           G == ToSet(plan.geo)
           H == ToSet(plan.humanize)
           I == ToSet(plan.interact)
           engine   == Along(<<BlankCell>>, "engine", plan.engines)
           target   == Along(engine, "target", plan.targets)
           country  == Along(target, "country", Countries(plan))
           params   == Along(country, "params", Arms(plan))
           level    == Along(params, "level", Levels(plan))
           entry    == Along(level, "entry", Once(plan.entry))
           geo      == Along(entry, "geo", Once(plan.geo))
           hand     == Along(geo, "hand", Once(plan.humanize))
           interact == Along(hand, "interact", Once(plan.interact))
<1>1. /\ plan.engines \in Seq(E) /\ plan.targets \in Seq(T) /\ plan.countries \in Seq(ToSet(plan.countries))
      /\ plan.params \in Seq(ToSet(plan.params)) /\ plan.entry \in Seq(N) /\ plan.geo \in Seq(G)
      /\ plan.humanize \in Seq(H) /\ plan.interact \in Seq(I)
  BY PlanAssumption
<1>2. /\ Once(plan.entry) \in Seq(N) /\ Once(plan.geo) \in Seq(G)
      /\ Once(plan.humanize) \in Seq(H) /\ Once(plan.interact) \in Seq(I)
  BY <1>1, OnceIn
<1>3. Countries(plan) \in Seq(C)
  <2>1. <<"direct">> \in Seq({"direct"})
    OBVIOUS
  <2>2. \E V : Countries(plan) \in Seq(V)
    BY <1>1, <2>1 DEF Countries
  <2> QED BY <2>2, ListOfItself
<1>4. Arms(plan) \in Seq(P)
  <2>1. Len(plan.params) \in Nat /\ DOMAIN plan.params = 1..Len(plan.params)
    BY <1>1, LenProperties
  <2> DEFINE Q == {Label(plan.params[i]) : i \in 1..Len(plan.params)}
  <2>2. Arms(plan) \in [1..Len(plan.params) -> Q]
    BY <2>1 DEF Arms
  <2>3. Arms(plan) \in Seq(Q)
    <3> HIDE DEF Q
    <3> QED BY <2>1, <2>2, SeqDef
  <2> QED BY <2>3, ListOfItself
<1>5. Levels(plan) \in Seq(L)
  BY LevelsIn
<1>6. <<BlankCell>> \in Seq(Product(blank, blank, blank, {<<>>}, blank, blank, blank, blank, blank))
  BY DEF BlankCell, Product
<1> HIDE DEF blank, E, T, C, P, L, N, G, H, I
<1>7. engine \in Seq(Product(E, blank, blank, {<<>>}, blank, blank, blank, blank, blank))
  BY <1>1, <1>6, AlongIn, Turns, ZenonT(60)
<1> HIDE DEF engine
<1>8. target \in Seq(Product(E, T, blank, {<<>>}, blank, blank, blank, blank, blank))
  BY <1>1, <1>7, AlongIn, Turns
<1> HIDE DEF target
<1>9. country \in Seq(Product(E, T, C, {<<>>}, blank, blank, blank, blank, blank))
  BY <1>3, <1>8, AlongIn, Turns
<1> HIDE DEF country
<1>10. params \in Seq(Product(E, T, C, P, blank, blank, blank, blank, blank))
  BY <1>4, <1>9, AlongIn, Turns
<1> HIDE DEF params
<1>11. level \in Seq(Product(E, T, C, P, L, blank, blank, blank, blank))
  BY <1>5, <1>10, AlongIn, Turns
<1> HIDE DEF level
<1>12. entry \in Seq(Product(E, T, C, P, L, N, blank, blank, blank))
  BY <1>2, <1>11, AlongIn, Turns
<1> HIDE DEF entry
<1>13. geo \in Seq(Product(E, T, C, P, L, N, G, blank, blank))
  BY <1>2, <1>12, AlongIn, Turns
<1> HIDE DEF geo
<1>14. hand \in Seq(Product(E, T, C, P, L, N, G, H, blank))
  BY <1>2, <1>13, AlongIn, Turns
<1> HIDE DEF hand
<1>15. interact \in Seq(Product(E, T, C, P, L, N, G, H, I))
  BY <1>2, <1>14, AlongIn, Turns
<1>16. interact = BuildCells(plan)
  BY DEF BuildCells, engine, target, country, params, level, entry, geo, hand
<1>17. CellSet(plan) = Product(E, T, C, P, L, N, G, H, I)
  BY DEF CellSet, Product, E, T, C, P, L, N, G, H, I
<1> QED BY <1>15, <1>16, <1>17
----------------------------------------------------------------------------
(* The bytes of a session.                                                 *)

LEMMA InitMeter == Init => MeterInv
<1> SUFFICES ASSUME Init PROVE MeterInv
  OBVIOUS
<1>1. meter = NewMeter /\ pc \in {"ladder", "start"}
  BY DEF Init, Fresh
<1> QED BY <1>1 DEF NewMeter, MeterInv, Readings, BytesAreOnce

\* A process, or a session, that begins or is over has a new meter.
LEMMA MeterAnew ==
  ASSUME meter' = NewMeter, pc' # "row"
  PROVE  MeterInv'
<1> QED BY DEF NewMeter, MeterInv, Readings, BytesAreOnce

\* A step that neither reads nor moves the counter, and stays outside or
\* inside a session; or gives up a session or opens one on a new meter.
LEMMA MeterKept ==
  ASSUME MeterInv, meter' = meter, pc # "row", pc' # "row",
         held' = held \/ meter.moved = 0,
         pc \in {"walk", "row", "judge", "close"} => pc' \in {"walk", "row", "judge", "close"}
  PROVE  MeterInv'
<1> QED BY DEF MeterInv, Readings, BytesAreOnce

\* What a row is given is what came since the snapshot, and is left by none.
LEMMA MeterRead ==
  ASSUME MeterInv, pc = "walk", pc' = "row", meter' = meter, held' = held, row'.bytes = Since
  PROVE  MeterInv'
<1>1. /\ meter \in Readings /\ meter.moved \in Nat /\ meter.at \in Nat /\ meter.counted \in Nat
      /\ meter.between \in Nat /\ meter.at <= meter.moved
      /\ meter.counted + meter.between = meter.at
  BY DEF MeterInv, Readings, BytesAreOnce
<1>2. Since = meter.moved - meter.at
  BY <1>1 DEF MeterInv, Since
<1>3. meter.counted + row'.bytes + meter.between = meter.moved /\ row'.bytes \in Nat
  BY <1>1, <1>2
<1> QED BY <1>1, <1>3 DEF MeterInv, BytesAreOnce

LEMMA NextMeter == MeterInv /\ [Next]_vars => MeterInv'
<1> SUFFICES ASSUME MeterInv, [Next]_vars PROVE MeterInv'
  OBVIOUS
<1>1. CASE LadderPreflight \/ Leave \/ Start \/ HeadEnds \/ HeadTakes \/ Draw \/ Crash
  BY <1>1, MeterKept DEF LadderPreflight, Leave, Start, HeadEnds, HeadTakes, Draw, Crash
<1>2. CASE Restart \/ OpenPage \/ Close
  BY <1>2, MeterAnew DEF Restart, Renewed, OpenPage, Close
<1>3. CASE Open \/ OpenFails \/ CheckDirect
  <2>1. /\ pc \in {"open", "direct"} /\ pc' # "row" /\ meter' = meter
    BY <1>3 DEF Open, OpenFails, CheckDirect
  <2>2. meter.moved = 0
    BY <2>1 DEF MeterInv
  <2> QED BY <2>1, <2>2, MeterKept
<1>4. CASE Visit
  <2>1. pc = "walk" /\ pc' = "row" /\ meter' = meter /\ held' = held
    BY <1>4 DEF Visit
  <2>2. row'.bytes = Since
    BY <1>4 DEF Visit, NoRow
  <2> QED BY <2>1, <2>2, MeterRead
<1>5. CASE SendQuery
  <2>1. pc = "walk" /\ meter' = meter /\ held' = held
    BY <1>5 DEF SendQuery
  <2>2. CASE Refuses
    BY <1>5, <2>1, <2>2, MeterKept DEF SendQuery
  <2>3. CASE ~Refuses
    BY <1>5, <2>1, <2>3, MeterRead DEF SendQuery, NoRow
  <2> QED BY <2>2, <2>3
<1>6. CASE FetchRaises \/ JudgeProbe \/ Interrupt
  BY <1>6, MeterKept DEF FetchRaises, JudgeProbe, Interrupt
<1>7. CASE OnRow
  <2>1. /\ pc = "row" /\ pc' \in {"walk", "judge", "close"} /\ held' = held
        /\ meter' = [meter EXCEPT !.at = meter.moved, !.counted = meter.counted + row.bytes]
    BY <1>7 DEF OnRow, Snapshot, AfterRow
  <2>2. /\ meter \in Readings /\ meter.moved \in Nat /\ meter.counted \in Nat /\ meter.between \in Nat
        /\ row.bytes \in Nat /\ meter.counted + row.bytes + meter.between = meter.moved
        /\ "relay" \notin held => meter.moved = 0
    BY <2>1 DEF MeterInv, BytesAreOnce, Readings
  <2>3. /\ meter' \in Readings /\ meter'.moved = meter.moved /\ meter'.at = meter.moved
        /\ meter'.counted = meter.counted + row.bytes /\ meter'.between = meter.between
    <3>1. meter.counted + row.bytes \in Nat
      BY <2>2
    <3> QED BY <2>1, <2>2, <3>1 DEF Readings
  <2> QED BY <2>1, <2>2, <2>3 DEF MeterInv, BytesAreOnce
<1>8. CASE Move
  <2>1. /\ "relay" \in held /\ held' = held /\ pc' = pc /\ row' = row /\ pc \in {"walk", "row", "judge"}
        /\ meter' = [meter EXCEPT !.moved = meter.moved + 1,
                                  !.between = IF pc = "row" THEN meter.between + 1 ELSE meter.between]
    BY <1>8 DEF Move
  <2>2. /\ meter \in Readings /\ meter.moved \in Nat /\ meter.at \in Nat /\ meter.counted \in Nat
        /\ meter.between \in Nat /\ meter.at <= meter.moved
    BY DEF MeterInv, Readings
  <2>3. /\ meter' \in Readings /\ meter'.moved = meter.moved + 1 /\ meter'.at = meter.at
        /\ meter'.counted = meter.counted
        /\ meter'.between = IF pc = "row" THEN meter.between + 1 ELSE meter.between
    <3>1. meter.moved + 1 \in Nat /\ (IF pc = "row" THEN meter.between + 1 ELSE meter.between) \in Nat
      BY <2>2
    <3> QED BY <2>1, <2>2, <3>1 DEF Readings
  <2>4. CASE pc = "row"
    BY <2>1, <2>2, <2>3, <2>4 DEF MeterInv, BytesAreOnce
  <2>5. CASE pc # "row"
    BY <2>1, <2>2, <2>3, <2>5 DEF MeterInv, BytesAreOnce
  <2> QED BY <2>4, <2>5
<1>9. CASE AskToStop \/ Age \/ Done \/ UNCHANGED vars
  <2>1. meter' = meter /\ held' = held /\ pc' = pc /\ row' = row
    BY <1>9 DEF AskToStop, Age, Done, vars
  <2> QED BY <2>1 DEF MeterInv, BytesAreOnce
<1> QED
  BY <1>1, <1>2, <1>3, <1>4, <1>5, <1>6, <1>7, <1>8, <1>9 DEF Next, Process, Around

\* However the pumps count between the steps of the program, no byte of a
\* session is in two rows, and those in none were counted between a row's
\* reading and the next snapshot (probe_and_hold.py, on_row).
THEOREM BytesOnce == Spec => []BytesAreOnce
<1>1. MeterInv => BytesAreOnce
  BY DEF MeterInv
<1> QED BY InitMeter, NextMeter, <1>1, PTL DEF Spec
----------------------------------------------------------------------------
(* The redraw that comes next.                                             *)

LEMMA InitPlan == Init => PlanInv
<1> QED BY DEF Init, PlanInv

LEMMA PlanKept == [Next]_vars => args' = args /\ cells' = cells
<1> QED
  BY DEF Next, Process, Around, LadderPreflight, Restart, Leave, Start, HeadEnds, HeadTakes, Draw, Crash,
         Open, OpenFails, CheckDirect, OpenPage, Visit, SendQuery, FetchRaises, OnRow, JudgeProbe, Close,
         Move, AskToStop, Interrupt, Age, Done, vars

LEMMA NextPlan == PlanInv /\ [Next]_vars => PlanInv'
<1> QED BY PlanKept DEF PlanInv

LEMMA BudgetIsNat == PlanInv => Budget \in Nat
<1> SUFFICES ASSUME PlanInv PROVE args.identities * Len(cells) \in Nat
  BY DEF Budget
<1>1. args.identities \in Nat /\ Len(cells) \in Nat
  BY PlanAssumption, CellsInSet, LenProperties DEF PlanInv
<1>2. \A m, n \in Nat : m * n \in Nat
  OBVIOUS
<1> QED BY <1>1, <1>2

LEMMA InitWork == Init => WorkInv
<1> SUFFICES ASSUME Init PROVE WorkInv
  OBVIOUS
<1>1. work = <<>> /\ spent = 0 /\ pc \in {"ladder", "start"} /\ PlanInv
  BY InitPlan DEF Init, Fresh
<1>2. 0 <= Budget
  BY <1>1, BudgetIsNat
<1> QED BY <1>1, <1>2 DEF WorkInv, RedrawIsNext

\* The deque, the draw in hand and the count are left alone, and no identity
\* is taken.
LEMMA WorkKept ==
  ASSUME WorkInv, work' = work, spent' = spent, Budget' = Budget, at' = at,
         pc' \in {"draw", "open", "direct", "page", "walk", "row", "judge"} =>
           pc \in {"draw", "open", "direct", "page", "walk", "row", "judge"}
  PROVE  WorkInv'
<1> QED BY DEF WorkInv, RedrawIsNext, Redrawn

\* No redraw is in the deque: none is out of place.
LEMMA WorkPlain ==
  ASSUME NEW S, work' \in Seq(S), spent' \in Nat, spent' <= Budget',
         \A i \in DOMAIN work' : ~(work'[i].redraw > 0)
  PROVE  WorkInv'
<1> QED BY DEF WorkInv, RedrawIsNext

LEMMA NextWork == PlanInv /\ WorkInv /\ [Next]_vars => WorkInv'
<1> SUFFICES ASSUME PlanInv, WorkInv, [Next]_vars PROVE WorkInv'
  OBVIOUS
<1>0. PICK S : work \in Seq(S)
  BY DEF WorkInv
<1>01. /\ Budget \in Nat /\ Budget' = Budget
       /\ spent \in Nat /\ spent <= Budget
  <2>1. args' = args /\ cells' = cells
    BY PlanKept
  <2> QED BY <2>1, BudgetIsNat DEF Budget, WorkInv, RedrawIsNext
<1>1. CASE Start
  <2>1. CASE Accepted(args) /\ ~args.dry
    <3> DEFINE k == args.identities * Len(cells)
               Turn(i) == Slot((i - 1) \div Len(cells), 1 + ((i - 1) % Len(cells)), 0)
    <3>1. work' = [i \in 1..k |-> Turn(i)] /\ spent' = spent
      BY <1>1, <2>1 DEF Start
    <3>2. k \in Nat
      BY <1>01 DEF Budget
    <3> HIDE DEF k
    <3>3. PICK T : \A i \in 1..k : Turn(i) \in T
      <4>1. \A i \in 1..k : Turn(i) \in {Turn(j) : j \in 1..k}
        OBVIOUS
      <4> QED BY <4>1
    <3>30. \A i \in 1..k : Turn(i).redraw = 0
      BY DEF Slot
    <3> HIDE DEF Turn
    <3>31. work' \in [1..k -> T]
      BY <3>1, <3>3
    <3>32. work' \in Seq(T)
      BY <3>2, <3>31
    <3>4. \A i \in DOMAIN work' : work'[i].redraw = 0
      BY <3>1, <3>30
    <3> QED BY <1>01, <3>1, <3>32, <3>4, WorkPlain
  <2>2. CASE ~(Accepted(args) /\ ~args.dry)
    BY <1>01, <1>1, <2>2, WorkKept DEF Start
  <2> QED BY <2>1, <2>2
<1>2. CASE Restart
  <2>1. work' = <<>> /\ spent' = 0
    BY <1>2 DEF Restart, Renewed
  <2> QED BY <1>01, <2>1, WorkPlain
<1>3. CASE HeadTakes
  <2>1. work # <<>> /\ work' = Tail(work) /\ spent' = spent
    BY <1>3 DEF HeadTakes, Rest
  <2>2. /\ work' \in Seq(S) /\ DOMAIN work = 1..Len(work) /\ Len(work) \in Nat
        /\ DOMAIN work' = 1..(Len(work) - 1)
        /\ \A i \in DOMAIN work' : work'[i] = work[i + 1]
    BY <1>0, <2>1
  <2>3. \A i \in DOMAIN work : work[i].redraw > 0 => i = 1
    BY DEF WorkInv, RedrawIsNext
  <2>4. \A i \in DOMAIN work' : ~(work'[i].redraw > 0)
    BY <2>2, <2>3
  <2> QED BY <1>01, <2>1, <2>2, <2>4, WorkPlain
<1>4. CASE JudgeProbe
  <2>1. pc = "judge" /\ pc' = "close" /\ at' = at
    BY <1>4 DEF JudgeProbe
  <2>2. CASE probe = "transport" /\ Redraws
    <3>1. work' = <<Redrawn>> \o work /\ spent' = spent + 1 /\ spent < Budget
      BY <1>4, <2>2 DEF JudgeProbe, PutBack, Redraws
    <3>2. work' \in Seq(S \cup {Redrawn})
      <4>1. work \in Seq(S \cup {Redrawn}) /\ <<Redrawn>> \in Seq(S \cup {Redrawn})
        BY <1>0
      <4> QED BY <3>1, <4>1
    <3>3. /\ DOMAIN work' = 1..(Len(work) + 1) /\ Len(work) \in Nat /\ DOMAIN work = 1..Len(work)
          /\ work'[1] = Redrawn
          /\ \A i \in DOMAIN work' : i # 1 => i - 1 \in DOMAIN work /\ work'[i] = work[i - 1]
      BY <1>0, <3>1
    <3>4. \A i \in DOMAIN work : ~(work[i].redraw > 0)
      BY <2>1 DEF WorkInv
    <3>5. Redrawn' = Redrawn
      BY <2>1 DEF Redrawn
    <3>6. spent' \in Nat /\ spent' <= Budget'
      BY <1>01, <3>1
    <3>7. \A i \in DOMAIN work' : work'[i].redraw > 0 => i = 1 /\ work'[i] = Redrawn'
      BY <3>3, <3>4, <3>5
    <3> QED BY <2>1, <3>2, <3>6, <3>7 DEF WorkInv, RedrawIsNext
  <2>3. CASE ~(probe = "transport" /\ Redraws)
    <3>1. work' = work /\ spent' = spent
      BY <1>4, <2>3 DEF JudgeProbe
    <3> QED BY <1>01, <2>1, <3>1, WorkKept
  <2> QED BY <2>2, <2>3
<1>5. CASE LadderPreflight \/ Leave \/ HeadEnds \/ Crash \/ Close \/ Interrupt
  BY <1>01, <1>5, WorkKept DEF LadderPreflight, Leave, HeadEnds, Crash, Close, Interrupt
<1>6. CASE Draw \/ Open \/ OpenFails \/ CheckDirect \/ OpenPage
  BY <1>01, <1>6, WorkKept DEF Draw, Open, OpenFails, CheckDirect, OpenPage
<1>7. CASE Visit \/ SendQuery \/ FetchRaises \/ OnRow
  BY <1>01, <1>7, WorkKept DEF Visit, SendQuery, FetchRaises, OnRow
<1>8. CASE Move \/ AskToStop \/ Age \/ Done \/ UNCHANGED vars
  BY <1>01, <1>8, WorkKept DEF Move, AskToStop, Age, Done, vars
<1> QED
  BY <1>1, <1>2, <1>3, <1>4, <1>5, <1>6, <1>7, <1>8 DEF Next, Process, Around

\* An identity whose probe never reached its target is the next one drawn, and
\* the redraws of a run stay within their budget (probe_and_hold.py, the deque
\* of main).
THEOREM RedrawNext == Spec => []RedrawIsNext
<1>1. WorkInv => RedrawIsNext
  BY DEF WorkInv
<1> QED BY InitPlan, NextPlan, InitWork, NextWork, <1>1, PTL DEF Spec
----------------------------------------------------------------------------
(* After a stop, and after a trip.                                         *)

LEMMA InitLate == Init => LateInv /\ WalkInv
<1> SUFFICES ASSUME Init PROVE LateInv /\ WalkInv
  OBVIOUS
<1>1. late = [opened |-> 0, sent |-> 0] /\ walk = NoWalk /\ pc \in {"ladder", "start"}
  BY DEF Init, Fresh
<1> QED BY <1>1 DEF LateInv, WalkInv

LEMMA LateKept ==
  ASSUME LateInv, late' = late, stopfile' = stopfile,
         pc' \in {"draw", "open"} => pc \in {"draw", "open"} \/ ~stopfile,
         pc' \in {"direct", "page", "walk"} => pc \in {"draw", "open", "direct", "page", "walk"} \/ ~stopfile
  PROVE  LateInv'
<1> QED BY DEF LateInv

LEMMA NextLate == LateInv /\ [Next]_vars => LateInv'
<1> SUFFICES ASSUME LateInv, [Next]_vars PROVE LateInv'
  OBVIOUS
<1>0. late \in [opened : {0, 1}, sent : {0, 1}]
  BY DEF LateInv
<1>1. CASE LadderPreflight \/ Restart \/ Leave \/ Start \/ HeadEnds \/ HeadTakes \/ Draw \/ Crash
  BY <1>1, LateKept DEF LadderPreflight, Restart, Leave, Start, HeadEnds, HeadTakes, Draw, Crash
<1>2. CASE Open \/ OpenFails
  <2>1. /\ pc = "open" /\ pc' \in {"direct", "page", "close"} /\ stopfile' = stopfile
        /\ late' = [late EXCEPT !.opened = IF stopfile THEN late.opened + 1 ELSE late.opened]
    BY <1>2 DEF Open, OpenFails, CountsOpened
  <2>2. late.opened = 0 /\ late.sent = 0
    BY <2>1 DEF LateInv
  <2>3. late' = [opened |-> IF stopfile THEN 1 ELSE 0, sent |-> 0]
    BY <1>0, <2>1, <2>2
  <2> QED BY <2>1, <2>3 DEF LateInv
<1>3. CASE CheckDirect \/ OpenPage \/ JudgeProbe \/ Close \/ Interrupt
  BY <1>3, LateKept DEF CheckDirect, OpenPage, JudgeProbe, Close, Interrupt
<1>4. CASE Visit \/ SendQuery \/ FetchRaises
  <2>1. /\ pc = "walk" /\ pc' \in {"row", "close"} /\ stopfile' = stopfile
        /\ \/ late' = [late EXCEPT !.sent = IF stopfile THEN late.sent + 1 ELSE late.sent]
           \/ late' = late
    BY <1>4 DEF Visit, SendQuery, FetchRaises, CountsSent
  <2>2. late.sent = 0
    BY <2>1 DEF LateInv
  <2>3. late' = [opened |-> late.opened, sent |-> IF stopfile THEN 1 ELSE 0] \/ late' = late
    BY <1>0, <2>1, <2>2
  <2> QED BY <1>0, <2>1, <2>3 DEF LateInv
<1>5. CASE OnRow
  <2>1. /\ pc = "row" /\ late' = late /\ stopfile' = stopfile /\ pc' \in {"walk", "judge", "close"}
        /\ stopfile => pc' = "close"
    BY <1>5 DEF OnRow, Asked, AfterRow
  <2> QED BY <2>1, LateKept
<1>6. CASE Move \/ Age \/ Done \/ UNCHANGED vars
  BY <1>6, LateKept DEF Move, Age, Done, vars
<1>7. CASE AskToStop
  BY <1>7 DEF AskToStop, LateInv
<1> QED
  BY <1>1, <1>2, <1>3, <1>4, <1>5, <1>6, <1>7 DEF Next, Process, Around

LEMMA NextWalk == WalkInv /\ [Next]_vars => WalkInv'
<1> SUFFICES ASSUME WalkInv, [Next]_vars PROVE WalkInv'
  OBVIOUS
<1>1. CASE LadderPreflight \/ Leave \/ Start \/ HeadEnds \/ HeadTakes \/ Draw \/ Crash
  BY <1>1 DEF LadderPreflight, Leave, Start, HeadEnds, HeadTakes, Draw, Crash, WalkInv
<1>2. CASE Restart \/ Close
  BY <1>2 DEF Restart, Renewed, Close, WalkInv
<1>3. CASE Open \/ OpenFails \/ CheckDirect \/ OpenPage
  BY <1>3 DEF Open, OpenFails, CheckDirect, OpenPage, WalkInv
<1>4. CASE Visit \/ SendQuery \/ FetchRaises \/ JudgeProbe \/ Interrupt
  <2>1. pc' = "row" \/ pc' = "close"
    BY <1>4 DEF Visit, SendQuery, FetchRaises, JudgeProbe, Interrupt
  <2>2. pc' \notin {"ladder", "start", "head", "draw", "open", "direct", "page", "walk"}
    BY <2>1
  <2> QED BY <2>2 DEF WalkInv
<1>5. CASE OnRow
  <2>1. pc' \in {"walk", "judge", "close"}
    BY <1>5 DEF OnRow, AfterRow
  <2>2. watch'.tripped \/ inert'.tripped => pc' = "close"
    BY <1>5 DEF OnRow
  <2> QED BY <2>1, <2>2 DEF WalkInv
<1>6. CASE Move \/ AskToStop \/ Age \/ Done \/ UNCHANGED vars
  BY <1>6 DEF Move, AskToStop, Age, Done, vars, WalkInv
<1> QED
  BY <1>1, <1>2, <1>3, <1>4, <1>5, <1>6 DEF Next, Process, Around

\* At most one session is opened and one attempt sent once the operator has
\* asked, and a session opened on a tripped watch sends no second attempt,
\* whatever fails and whatever is restarted (probe_and_hold.py, on_row).
THEOREM StopPrompt == Spec => []StopIsPrompt
<1>1. LateInv /\ WalkInv => StopIsPrompt
  BY DEF LateInv, WalkInv, StopIsPrompt
<1> QED BY InitLate, NextLate, NextWalk, <1>1, PTL DEF Spec
----------------------------------------------------------------------------
(* The attempts of the supervisor.                                         *)

LEMMA InitEnded == Init => EndedInv
<1> SUFFICES ASSUME Init PROVE EndedInv
  OBVIOUS
<1>1. /\ ended = <<>> /\ pc \in {"ladder", "start"} /\ ladder.attempts = 0
      /\ "attempts" \in DOMAIN ladder
  BY DEF Init
<1>2. ended \in Seq({}) /\ DOMAIN ended = {}
  BY <1>1
<1> QED BY <1>1, <1>2 DEF EndedInv

LEMMA EndedKept ==
  ASSUME EndedInv, ended' = ended, ladder'.attempts = ladder.attempts, DOMAIN ladder' = DOMAIN ladder,
         pc' # "ladder" \/ pc = "ladder", pc' = "done" <=> pc = "done"
  PROVE  EndedInv'
<1> QED BY DEF EndedInv, Repeatable

LEMMA OneMoreEnded ==
  ASSUME EndedInv, Attempted
  PROVE  /\ \E S : ended' \in Seq(S)
         /\ Len(ended') = Len(ended) + 1 /\ Len(ended) \in Nat
         /\ \A i \in DOMAIN ended' : i < Len(ended') => i \in DOMAIN ended /\ ended'[i] = ended[i]
         /\ ended'[Len(ended')] = [code |-> code, aged |-> ladder.aged]
<1> DEFINE new == [code |-> code, aged |-> ladder.aged]
<1>1. PICK S : ended \in Seq(S)
  BY DEF EndedInv
<1>2. ended' = Append(ended, new)
  BY DEF Attempted
<1>3. ended \in Seq(S \cup {new}) /\ new \in S \cup {new}
  BY <1>1
<1> HIDE DEF new
<1>4. /\ ended' \in Seq(S \cup {new}) /\ Len(ended') = Len(ended) + 1 /\ Len(ended) \in Nat
      /\ DOMAIN ended = 1..Len(ended) /\ DOMAIN ended' = 1..(Len(ended) + 1)
      /\ \A i \in 1..Len(ended) : ended'[i] = ended[i]
      /\ ended'[Len(ended) + 1] = new
  BY <1>2, <1>3
<1> QED BY <1>4 DEF new

LEMMA NextEnded == EndedInv /\ [Next]_vars => EndedInv'
<1> SUFFICES ASSUME EndedInv, [Next]_vars PROVE EndedInv'
  OBVIOUS
<1>1. CASE LadderPreflight
  <2>1. /\ pc = "ladder" /\ ended' = ended /\ ended = <<>> /\ ladder.attempts = 0
        /\ "attempts" \in DOMAIN ladder
    BY <1>1 DEF LadderPreflight, EndedInv
  <2>11. \/ pc' = "done" /\ ladder' = ladder
         \/ pc' = "start" /\ ladder' = [ladder EXCEPT !.attempts = ladder.attempts + 1]
    BY <1>1 DEF LadderPreflight
  <2>2. ladder'.attempts \in {0, 1} /\ "attempts" \in DOMAIN ladder'
    <3>1. [ladder EXCEPT !.attempts = ladder.attempts + 1].attempts = 1
      BY <2>1
    <3> QED BY <2>1, <2>11, <3>1
  <2> QED BY <2>1, <2>11, <2>2 DEF EndedInv
<1>2. CASE Restart
  <2>1. /\ pc = "over" /\ pc' = "start" /\ MayRestart /\ Attempted
        /\ ladder'.attempts = ladder.attempts + 1 /\ "attempts" \in DOMAIN ladder'
    BY <1>2 DEF Restart
  <2>2. Repeatable([code |-> code, aged |-> ladder.aged])
    BY <2>1 DEF MayRestart, Repeatable
  <2>3. ladder.attempts \in Nat /\ ladder.attempts <= Len(ended) + 1
    BY <2>1 DEF EndedInv
  <2>4. \A i \in DOMAIN ended : Repeatable(ended[i])
    BY <2>1 DEF EndedInv
  <2>5. \A i \in DOMAIN ended' : Repeatable(ended'[i])
    <3>1. ASSUME NEW i \in DOMAIN ended' PROVE i < Len(ended') \/ i = Len(ended')
      BY <2>1, OneMoreEnded
    <3> QED BY <2>1, <2>2, <2>4, <3>1, OneMoreEnded
  <2> QED BY <2>1, <2>3, <2>5, OneMoreEnded DEF EndedInv
<1>3. CASE Leave
  <2>1. pc = "over" /\ pc' = "done" /\ Attempted /\ ladder' = ladder
    BY <1>3 DEF Leave
  <2>2. ladder.attempts \in Nat /\ ladder.attempts <= Len(ended) + 1
    BY <2>1 DEF EndedInv
  <2>3. \A i \in DOMAIN ended : Repeatable(ended[i])
    BY <2>1 DEF EndedInv
  <2>4. \A i \in DOMAIN ended' : i < Len(ended') => Repeatable(ended'[i])
    BY <2>1, <2>3, OneMoreEnded
  <2> QED BY <2>1, <2>2, <2>4, OneMoreEnded DEF EndedInv
<1>4. CASE Age
  <2>1. ended' = ended /\ pc' = pc /\ ladder' = [ladder EXCEPT !.aged = TRUE]
    BY <1>4 DEF Age
  <2>2. ladder'.attempts = ladder.attempts
    BY <2>1
  <2> QED BY <2>1, <2>2, EndedKept
<1>5. CASE Start \/ HeadEnds \/ HeadTakes \/ Draw \/ Crash \/ Open \/ OpenFails
  BY <1>5, EndedKept DEF Start, HeadEnds, HeadTakes, Draw, Crash, Open, OpenFails
<1>6. CASE CheckDirect \/ OpenPage \/ Visit \/ SendQuery \/ FetchRaises
  BY <1>6, EndedKept DEF CheckDirect, OpenPage, Visit, SendQuery, FetchRaises
<1>7. CASE OnRow
  <2>1. pc = "row" /\ pc' \in {"walk", "judge", "close"} /\ ended' = ended /\ ladder' = ladder
    BY <1>7 DEF OnRow, AfterRow
  <2> QED BY <2>1, EndedKept
<1>8. CASE JudgeProbe \/ Close \/ Move \/ AskToStop \/ Interrupt \/ Done \/ UNCHANGED vars
  BY <1>8, EndedKept DEF JudgeProbe, Close, Move, AskToStop, Interrupt, Done, vars
<1> QED
  BY <1>1, <1>2, <1>3, <1>4, <1>5, <1>6, <1>7, <1>8 DEF Next, Process, Around

\* Only the last attempt can have outlived its first minutes, finished, or been
\* stopped on request, however many are allowed (run_ladder.py, main).
THEOREM SingleWindow == Spec => []OneWindow
<1>1. EndedInv => OneWindow
  <2> SUFFICES ASSUME EndedInv, NEW i \in DOMAIN ended, i < ladder.attempts
               PROVE  Repeatable(ended[i])
    BY DEF OneWindow, Repeatable
  <2>1. i \in Nat /\ Len(ended) \in Nat /\ ended # <<>>
    BY DEF EndedInv
  <2> QED BY <2>1 DEF EndedInv
<1> QED BY InitEnded, NextEnded, <1>1, PTL DEF Spec
----------------------------------------------------------------------------
(* What an accepted plan is made of.                                       *)

LEMMA AcceptedFlags ==
  ASSUME NEW plan, Accepted(plan)
  PROVE  ~BadFlags(plan)
<1> QED BY DEF Accepted, Preflight

LEMMA AcceptedCells ==
  ASSUME NEW plan, Accepted(plan)
  PROVE  /\ ~DirectAsksTheGateway(plan) /\ ~EngineRefused(plan, CellSet(plan))
         /\ ~HandWithoutAClick(CellSet(plan)) /\ ~CheckEntry(CellSet(plan))
         /\ ~WarmRefused(plan, CellSet(plan)) /\ ~CheckInteract(plan, CellSet(plan))
<1> DEFINE S == CellSet(plan)
<1> HIDE DEF S
<1>1. Preflight(plan) = 0
  BY DEF Accepted
<1> QED BY <1>1 DEF Preflight, S

\* The engines' tables, as far as the proofs look at them.
EngineFacts(name) ==
  LET engine == REGISTRY[name]
  IN  /\ engine.session.says \subseteq {"error", "transport"}
      /\ engine.opens.late \subseteq {"profile"}
      /\ name # "patchright" => engine.opens.late = {}
      /\ engine.session.misses \subseteq {"raised", "shown"}

LEMMA EnginesAre == \A name \in EngineNames : EngineFacts(name)
<1> USE DEF EngineFacts, REGISTRY, EngineNames, Opens, Named, Unnamed
<1>1. EngineFacts("http")
  BY DEF HttpEngine, ChromiumEngine, HttpSession, HttpOpen
<1>2. EngineFacts("chromium")
  BY DEF ChromiumEngine, ChromiumSession, ChromiumOpen
<1>3. EngineFacts("camoufox")
  BY DEF CamoufoxEngine, CloakEngine, ChromiumEngine, CamoufoxSession, ChromiumSession, CamoufoxOpen
<1>4. EngineFacts("patchright")
  BY DEF PatchrightEngine, ChromiumEngine, ChromiumSession, PatchrightOpen
<1>5. EngineFacts("obscura")
  BY DEF ObscuraEngine, ChromiumEngine, ObscuraSession, ChromiumSession, ObscuraOpen
<1>6. EngineFacts("cloak")
  BY DEF CloakEngine, ChromiumEngine, ChromiumSession, CloakOpen
<1>7. EngineFacts("curlcffi")
  BY DEF CurlCffiEngine, HttpEngine, ChromiumEngine, CurlCffiSession, HttpSession, CurlCffiOpen
<1>8. EngineFacts("seleniumbase")
  BY DEF SeleniumBaseEngine, HttpEngine, ChromiumEngine, SeleniumBaseSession, SeleniumBaseOpen
<1>9. EngineFacts("zendriver")
  BY DEF ZendriverEngine, BotasaurusEngine, SeleniumBaseEngine, HttpEngine, ChromiumEngine,
         ZendriverSession, BotasaurusSession, ZendriverOpen
<1>10. EngineFacts("rebrowser")
  BY DEF RebrowserEngine, ChromiumEngine, ChromiumSession, RebrowserOpen
<1>11. EngineFacts("botasaurus")
  BY DEF BotasaurusEngine, SeleniumBaseEngine, HttpEngine, ChromiumEngine, BotasaurusSession, BotasaurusOpen
<1> QED
  <2> HIDE DEF EngineFacts
  <2> QED BY <1>1, <1>2, <1>3, <1>4, <1>5, <1>6, <1>7, <1>8, <1>9, <1>10, <1>11

\* A page that is judged gets a verdict of the rules' own, or the two of judge.
Ruled(rules, S) ==
  /\ Len(rules) \in Nat /\ DOMAIN rules = 1..Len(rules)
  /\ \A i \in 1..Len(rules) : rules[i].verdict \in S

LEMMA JudgeIn ==
  ASSUME NEW S, NEW rules, Ruled(rules, S), NEW page
  PROVE  Judge(rules, page) \in S \cup {"empty", "block"}
<1> DEFINE hits == Matching(rules, page)
<1>1. CASE "body" \notin page \/ hits = {}
  BY <1>1 DEF Judge
<1>2. CASE "body" \in page /\ hits # {}
  <2>1. hits \subseteq 1..Len(rules) /\ Len(rules) \in Nat /\ hits \subseteq Nat
    BY DEF Matching, Ruled
  <2>2. \E i \in hits : \A j \in hits : i <= j
    <3> HIDE DEF hits
    <3> QED BY <1>2, <2>1, Least
  <2>3. PICK k \in hits : Judge(rules, page) = rules[k].verdict
    <3> DEFINE k == CHOOSE i \in hits : \A j \in hits : i <= j
    <3>1. Judge(rules, page) = rules[k].verdict
      BY <1>2 DEF Judge
    <3>2. k \in hits
      BY <2>2
    <3> QED BY <3>1, <3>2
  <2>4. rules[k].verdict \in S
    BY <2>1 DEF Ruled
  <2> QED BY <2>3, <2>4
<1> QED BY <1>1, <1>2

RowVerdicts == Verdicts \ {"error"}
ActionKinds == {"type", "settle", "scroll"}
Acted(actions) == \A page \in DOMAIN actions : actions[page] \in Seq(ActionKinds)
TargetFacts(name) ==
  Ruled(TARGETS[name].rules, RowVerdicts) /\ Acted(TARGETS[name].actions)

LEMMA TargetsAre == \A name \in TargetNames : TargetFacts(name)
<1> USE DEF TARGETS, TargetNames, Target, Rule, RowVerdicts, Verdicts
<1>1. Ruled(IpInfoRules, RowVerdicts)
  BY DEF Ruled, IpInfoRules
<1>2. Ruled(GoogleRules, RowVerdicts)
  BY DEF Ruled, GoogleRules
<1>3. Ruled(DuckDuckGoRules, RowVerdicts)
  BY DEF Ruled, DuckDuckGoRules
<1>4. Ruled(BingRules, RowVerdicts)
  BY DEF Ruled, BingRules
<1>5. Ruled(AmazonRules, RowVerdicts)
  BY DEF Ruled, AmazonRules
<1>6. Ruled(WalmartRules, RowVerdicts)
  BY DEF Ruled, WalmartRules
<1>7. Ruled(MapsRules, RowVerdicts)
  BY DEF Ruled, MapsRules
<1>8. Ruled(LazadaRules, RowVerdicts)
  BY DEF Ruled, LazadaRules
<1>9. Ruled(ShopeeRules, RowVerdicts)
  BY DEF Ruled, ShopeeRules
<1>10. Acted(NoActions)
  BY DEF Acted, NoActions
<1>11. Read \in Seq(ActionKinds) /\ Ask \in Seq(ActionKinds) /\ Ask \o Ask \in Seq(ActionKinds)
  BY DEF Read, Ask, ActionKinds
<1>12. Acted(GoogleActions) /\ Acted([page \in {"bestsellers"} |-> Read])
  BY <1>11 DEF Acted, GoogleActions
<1> QED
  BY <1>1, <1>2, <1>3, <1>4, <1>5, <1>6, <1>7, <1>8, <1>9, <1>10, <1>12
  DEF TargetFacts, IpInfo, GoogleSerp, DuckDuckGoSerp, BingSerp, AmazonSearch, WalmartSearch,
      GoogleMapsSearch, LazadaSearch, ShopeeSearch
----------------------------------------------------------------------------
(* The seat: the identity in hand is one of the plan's, its cell one of    *)
(* those that were accepted, and each cell has its breaker and its draws.  *)

Slots == [round : Rounds, cell : DOMAIN cells, redraw : {0} \cup (1..args.redraws)]
InSession == {"open", "direct", "page", "walk", "row", "judge", "close"}

SeatInv ==
  /\ DOMAIN breakers \in {{}, DOMAIN cells} /\ DOMAIN history = DOMAIN breakers
  /\ work \in Seq(Slots)
  /\ pc \in {"ladder", "start"} => DOMAIN breakers = {} /\ work = <<>>
  /\ pc \in {"head", "draw"} \cup InSession => Accepted(args) /\ DOMAIN breakers = DOMAIN cells
  /\ pc \in {"draw"} \cup InSession => at \in Slots

LEMMA CellsAre ==
  ASSUME PlanInv
  PROVE  /\ cells \in Seq(CellSet(args)) /\ Len(cells) \in Nat /\ DOMAIN cells = 1..Len(cells)
         /\ args.identities \in Nat /\ args.redraws \in Int
<1>1. args \in Plans /\ cells = BuildCells(args)
  BY DEF PlanInv
<1>2. cells \in Seq(CellSet(args))
  BY <1>1, CellsInSet
<1> QED BY <1>1, <1>2, LenProperties, PlanAssumption

\* The engine and the target in hand are the tables' own.
LEMMA InHand ==
  ASSUME PlanInv, SeatInv, pc \in {"draw"} \cup InSession
  PROVE  /\ at \in Slots /\ at.cell \in DOMAIN cells /\ Accepted(args) /\ Cell \in CellSet(args)
         /\ Cell.engine \in EngineNames /\ Cell.target \in TargetNames
         /\ Cell.engine \in ToSet(args.engines)
<1>1. at \in Slots /\ at.cell \in DOMAIN cells /\ Accepted(args)
  BY DEF SeatInv, Slots
<1>2. Cell \in CellSet(args)
  BY <1>1, CellsAre, ElementOfSeq DEF Cell
<1>3. Cell.engine \in ToSet(args.engines) /\ Cell.target \in ToSet(args.targets)
  BY <1>2 DEF CellSet
<1>4. ToSet(args.engines) \subseteq EngineNames /\ ToSet(args.targets) \subseteq TargetNames
  BY <1>1, AcceptedFlags DEF BadFlags
<1> QED BY <1>1, <1>2, <1>3, <1>4

LEMMA InitSeat == Init => SeatInv
<1> SUFFICES ASSUME Init PROVE SeatInv
  OBVIOUS
<1>1. work = <<>> /\ breakers = <<>> /\ history = <<>> /\ pc \in {"ladder", "start"}
  BY DEF Init, Fresh
<1>2. work \in Seq(Slots) /\ DOMAIN breakers = {} /\ DOMAIN history = {}
  BY <1>1
<1> QED BY <1>1, <1>2 DEF SeatInv, InSession

LEMMA SlotsKept ==
  ASSUME args' = args, cells' = cells
  PROVE  Slots' = Slots
<1> QED BY DEF Slots, Rounds

\* A step that changes neither the deque nor who is at it.
LEMMA SeatKept ==
  ASSUME SeatInv, args' = args, cells' = cells, work' = work, at' = at,
         DOMAIN breakers' = DOMAIN breakers, DOMAIN history' = DOMAIN history,
         pc' \in {"ladder", "start"} => pc \in {"ladder", "start"},
         pc' \in {"head", "draw"} \cup InSession => pc \in {"head", "draw"} \cup InSession,
         pc' \in {"draw"} \cup InSession => pc \in {"draw"} \cup InSession
  PROVE  SeatInv'
<1>1. Slots' = Slots
  BY SlotsKept
<1> QED BY <1>1 DEF SeatInv

\* The deque a run starts with is of the plan's identities.
LEMMA TurnsAreSlots ==
  ASSUME PlanInv, NEW i \in 1..(args.identities * Len(cells))
  PROVE  Slot((i - 1) \div Len(cells), 1 + ((i - 1) % Len(cells)), 0) \in Slots
<1> DEFINE m == Len(cells)
           k == args.identities
<1>1. m \in Nat /\ k \in Nat /\ DOMAIN cells = 1..m
  BY CellsAre
<1>2. i \in 1..(k * m)
  OBVIOUS
<1> HIDE DEF m, k
<1>3. k * m \in Nat
  BY <1>1
<1>4. m # 0
  BY <1>1, <1>2
<1>5. i - 1 \in Nat /\ i - 1 < k * m
  BY <1>2, <1>3
<1>6. \A a, b \in Nat, n \in Nat \ {0} :
        a < b * n => a \div n < b /\ a \div n \in Nat /\ a % n < n /\ a % n \in Nat
  BY SMTT(60)
<1>7. (i - 1) \div m < k /\ (i - 1) \div m \in Nat /\ (i - 1) % m < m /\ (i - 1) % m \in Nat
  BY <1>1, <1>4, <1>5, <1>6
<1>8. (i - 1) \div m \in 0..(k - 1) /\ 1 + ((i - 1) % m) \in 1..m
  BY <1>1, <1>7
<1> QED BY <1>1, <1>8 DEF Slots, Rounds, Slot, m, k

LEMMA StartSeat == PlanInv /\ SeatInv /\ Start => SeatInv'
<1> SUFFICES ASSUME PlanInv, SeatInv, Start PROVE SeatInv'
  OBVIOUS
<1>1. args' = args /\ cells' = cells /\ at' = at /\ Slots' = Slots
  BY SlotsKept DEF Start
<1>2. CASE Accepted(args) /\ ~args.dry
  <2> DEFINE k == args.identities * Len(cells)
             Turn(i) == Slot((i - 1) \div Len(cells), 1 + ((i - 1) % Len(cells)), 0)
  <2>1. /\ work' = [i \in 1..k |-> Turn(i)] /\ pc' = "head"
        /\ breakers' = [i \in 1..Len(cells) |-> NewCircuitBreaker]
        /\ history' = [i \in 1..Len(cells) |-> <<>>]
    BY <1>2 DEF Start
  <2>2. k \in Nat
    <3>1. \A a, b \in Nat : a * b \in Nat
      OBVIOUS
    <3> QED BY <3>1, CellsAre
  <2>3. \A i \in 1..k : Turn(i) \in Slots
    BY TurnsAreSlots
  <2> HIDE DEF k, Turn
  <2>4. work' \in Seq(Slots')
    <3>1. work' \in [1..k -> Slots]
      BY <2>1, <2>3
    <3> QED BY <1>1, <2>2, <3>1, SeqDef
  <2>5. DOMAIN breakers' = DOMAIN cells /\ DOMAIN history' = DOMAIN cells
    BY <2>1, CellsAre
  <2> QED BY <1>1, <1>2, <2>1, <2>4, <2>5 DEF SeatInv, InSession
<1>3. CASE ~(Accepted(args) /\ ~args.dry)
  <2>1. pc' = "over" /\ work' = work /\ breakers' = breakers /\ history' = history
    BY <1>3 DEF Start
  <2> QED BY <1>1, <2>1, SeatKept DEF InSession
<1> QED BY <1>2, <1>3

LEMMA HeadTakesSeat == PlanInv /\ SeatInv /\ HeadTakes => SeatInv'
<1> SUFFICES ASSUME PlanInv, SeatInv, HeadTakes PROVE SeatInv'
  OBVIOUS
<1>1. /\ work # <<>> /\ work' = Tail(work) /\ pc = "head" /\ Slots' = Slots
      /\ breakers' = breakers /\ history' = history /\ args' = args /\ cells' = cells
  BY SlotsKept DEF HeadTakes, Rest
<1>2. work \in Seq(Slots)
  BY DEF SeatInv
<1>3. Head(work) \in Slots /\ Tail(work) \in Seq(Slots)
  BY <1>1, <1>2, HeadTailProperties
<1>4. pc' = "head" \/ (pc' = "draw" /\ at' = Head(work))
  BY <1>1 DEF HeadTakes
<1> QED BY <1>1, <1>3, <1>4 DEF SeatInv, InSession

\* A redraw is one more draw of the same identity.
LEMMA JudgeProbeSeat == PlanInv /\ SeatInv /\ JudgeProbe => SeatInv'
<1> SUFFICES ASSUME PlanInv, SeatInv, JudgeProbe PROVE SeatInv'
  OBVIOUS
<1>1. /\ pc = "judge" /\ pc' = "close" /\ at' = at /\ history' = history
      /\ args' = args /\ cells' = cells /\ Slots' = Slots
  BY SlotsKept DEF JudgeProbe
<1>2. work \in Seq(Slots) /\ at \in Slots
  BY <1>1 DEF SeatInv, InSession
<1>3. DOMAIN breakers' = DOMAIN breakers
  BY DEF JudgeProbe, Recorded
<1>4. work' \in Seq(Slots)
  <2>1. CASE work' = work
    BY <1>2, <2>1
  <2>2. CASE work' # work
    <3>1. work' = <<Redrawn>> \o work /\ at.redraw < args.redraws
      BY <2>2 DEF JudgeProbe, PutBack, Redraws
    <3>2. Redrawn \in Slots
      <4>1. /\ at.round \in Rounds /\ at.cell \in DOMAIN cells /\ at.redraw \in {0} \cup (1..args.redraws)
            /\ args.redraws \in Int
        BY <1>2, CellsAre DEF Slots
      <4>2. at.redraw + 1 \in 1..args.redraws
        BY <3>1, <4>1
      <4> QED BY <4>1, <4>2 DEF Redrawn, Slot, Slots
    <3>3. <<Redrawn>> \in Seq(Slots)
      BY <3>2
    <3> QED BY <1>2, <3>1, <3>3, ConcatProperties
  <2> QED BY <2>1, <2>2
<1> QED BY <1>1, <1>2, <1>3, <1>4 DEF SeatInv, InSession

LEMMA NextSeat == PlanInv /\ SeatInv /\ [Next]_vars => SeatInv'
<1> SUFFICES ASSUME PlanInv, SeatInv, [Next]_vars PROVE SeatInv'
  OBVIOUS
<1>0. args' = args /\ cells' = cells /\ Slots' = Slots
  BY PlanKept, SlotsKept
<1>1. CASE Start \/ HeadTakes \/ JudgeProbe
  BY <1>1, StartSeat, HeadTakesSeat, JudgeProbeSeat
<1>2. CASE Restart
  <2>1. work' = <<>> /\ breakers' = <<>> /\ history' = <<>> /\ pc' = "start"
    BY <1>2 DEF Restart, Renewed
  <2>2. work' \in Seq(Slots') /\ DOMAIN breakers' = {} /\ DOMAIN history' = {}
    BY <2>1
  <2> QED BY <2>1, <2>2 DEF SeatInv, InSession
<1>3. CASE LadderPreflight \/ Leave \/ HeadEnds \/ Crash
  BY <1>0, <1>3, SeatKept DEF LadderPreflight, Leave, HeadEnds, Crash, InSession
<1>4. CASE Draw
  <2>1. /\ pc = "draw" /\ pc' \in {"over", "head", "open"} /\ work' = work /\ breakers' = breakers /\ at' = at
        /\ DOMAIN history' = DOMAIN history
    BY <1>4 DEF Draw, Noted
  <2> QED BY <1>0, <2>1, SeatKept DEF InSession
<1>5. CASE Open \/ OpenFails \/ OpenPage \/ Visit \/ SendQuery \/ FetchRaises \/ Interrupt
  BY <1>0, <1>5, SeatKept DEF Open, OpenFails, OpenPage, Visit, SendQuery, FetchRaises, Interrupt, InSession
<1>6. CASE CheckDirect
  <2>1. /\ pc = "direct" /\ pc' \in {"page", "close"} /\ work' = work /\ at' = at /\ history' = history
        /\ DOMAIN breakers' = DOMAIN breakers
    BY <1>6 DEF CheckDirect, TrippedFor
  <2> QED BY <1>0, <2>1, SeatKept DEF InSession
<1>7. CASE OnRow
  <2>1. pc = "row" /\ pc' \in {"walk", "judge", "close"} /\ work' = work /\ at' = at /\ history' = history
        /\ breakers' = breakers
    BY <1>7 DEF OnRow, AfterRow
  <2> QED BY <1>0, <2>1, SeatKept DEF InSession
<1>8. CASE Close
  <2>1. /\ pc = "close" /\ pc' \in {"over", "head"} /\ work' = work /\ at' = at
        /\ DOMAIN history' = DOMAIN history
    BY <1>8 DEF Close, Noted
  <2>2. DOMAIN breakers' = DOMAIN breakers
    <3>1. \E why : breakers' = Handled(why)
      BY <1>8 DEF Close
    <3> QED BY <3>1 DEF Handled, Recorded, TrippedFor
  <2> QED BY <1>0, <2>1, <2>2, SeatKept DEF InSession
<1>9. CASE Move \/ AskToStop \/ Age \/ Done \/ UNCHANGED vars
  BY <1>0, <1>9, SeatKept DEF Move, AskToStop, Age, Done, vars
<1> QED
  BY <1>1, <1>2, <1>3, <1>4, <1>5, <1>6, <1>7, <1>8, <1>9 DEF Next, Process, Around
----------------------------------------------------------------------------
(* What a session leaves behind.                                           *)

HeldInv ==
  /\ held # {} => pc \in InSession \ {"open"}
  /\ left \subseteq {"profile"}
  /\ left # {} => "patchright" \in ToSet(args.engines)

LEMMA HeldKept ==
  ASSUME HeldInv, args' = args, held' = held, left' = left,
         pc \in InSession \ {"open"} => pc' \in InSession \ {"open"}
  PROVE  HeldInv'
<1> QED BY DEF HeldInv

LEMMA NextHeld == PlanInv /\ SeatInv /\ HeldInv /\ [Next]_vars => HeldInv'
<1> SUFFICES ASSUME PlanInv, SeatInv, HeldInv, [Next]_vars PROVE HeldInv'
  OBVIOUS
<1>0. args' = args
  BY PlanKept
<1>1. CASE LadderPreflight \/ Leave \/ Start \/ HeadEnds \/ HeadTakes \/ Draw \/ Crash
  BY <1>0, <1>1, HeldKept DEF LadderPreflight, Leave, Start, HeadEnds, HeadTakes, Draw, Crash, InSession
<1>2. CASE Restart
  BY <1>0, <1>2 DEF Restart, Renewed, HeldInv
<1>3. CASE Open \/ OpenFails
  <2>1. left' = left /\ (pc' = "direct" \/ pc' = "page" \/ pc' = "close")
    BY <1>3 DEF Open, OpenFails
  <2>2. pc' \in InSession \ {"open"}
    BY <2>1 DEF InSession
  <2> QED BY <1>0, <2>1, <2>2 DEF HeldInv
<1>4. CASE CheckDirect \/ OpenPage \/ Visit \/ SendQuery \/ FetchRaises \/ JudgeProbe \/ Interrupt
  BY <1>0, <1>4, HeldKept DEF CheckDirect, OpenPage, Visit, SendQuery, FetchRaises, JudgeProbe, Interrupt, InSession
<1>5. CASE OnRow
  <2>1. pc = "row" /\ pc' \in {"walk", "judge", "close"} /\ held' = held /\ left' = left
    BY <1>5 DEF OnRow, AfterRow
  <2> QED BY <1>0, <2>1, HeldKept DEF InSession
<1>6. CASE Close
  <2>1. PICK fails : left' = left \cup Leftover(Engine.opens, held \ {"relay"}, fails)
    BY <1>6 DEF Close
  <2>2. held' = {} /\ pc = "close"
    BY <1>6 DEF Close
  <2>3. Cell.engine \in EngineNames /\ Cell.engine \in ToSet(args.engines)
    BY <2>2, InHand DEF InSession
  <2>4. EngineFacts(Cell.engine)
    BY <2>3, EnginesAre
  <2>5. /\ Leftover(Engine.opens, held \ {"relay"}, fails) \subseteq {"profile"}
        /\ Leftover(Engine.opens, held \ {"relay"}, fails) # {} => "patchright" \in ToSet(args.engines)
    BY <2>3, <2>4 DEF Leftover, EngineFacts, Engine
  <2> QED BY <1>0, <2>1, <2>2, <2>5 DEF HeldInv
<1>7. CASE Move \/ AskToStop \/ Age \/ Done \/ UNCHANGED vars
  BY <1>0, <1>7, HeldKept DEF Move, AskToStop, Age, Done, vars
<1> QED
  BY <1>1, <1>2, <1>3, <1>4, <1>5, <1>6, <1>7 DEF Next, Process, Around

\* Whatever raises in a session, and wherever, nothing that it acquired is held
\* when it is over, and all that can stay behind is patchright's profile
\* (probe_and_hold.py, the ExitStack of main; the open() of each engine).
THEOREM NothingLeft == Spec => []NothingLeftOpen
<1>1. Init => PlanInv /\ SeatInv /\ HeldInv
  <2>1. Init => PlanInv /\ HeldInv
    BY DEF Init, Fresh, PlanInv, HeldInv
  <2> QED BY <2>1, InitSeat
<1>2. PlanInv /\ SeatInv /\ HeldInv /\ [Next]_vars => PlanInv' /\ SeatInv' /\ HeldInv'
  <2>1. PlanInv /\ [Next]_vars => PlanInv'
    BY PlanKept DEF PlanInv
  <2> QED BY <2>1, NextSeat, NextHeld
<1>3. HeldInv => NothingLeftOpen
  BY DEF HeldInv, NothingLeftOpen, InSession
<1> QED BY <1>1, <1>2, <1>3, PTL DEF Spec
----------------------------------------------------------------------------
(* What a cell's breaker was told, a draw more.                            *)

ServedAmong(draws) == {i \in DOMAIN draws : draws[i].judged /\ draws[i].probe = "ok"}
SinceServed(draws) ==
  IF ServedAmong(draws) = {} THEN 0
  ELSE CHOOSE i \in ServedAmong(draws) : \A j \in ServedAmong(draws) : j <= i
FailedSince(draws, since) ==
  {i \in DOMAIN draws : /\ i > since /\ draws[i].judged
                        /\ draws[i].probe \in {"refused", "error"}}
LostSince(draws, since) == {i \in DOMAIN draws : i >= since /\ draws[i].end = "exception"}

LEMMA FailuresAre ==
  \A draws : FailuresIn(draws) = Cardinality(FailedSince(draws, SinceServed(draws)))
                                 + Cardinality(LostSince(draws, SinceServed(draws)))
<1> QED BY DEF FailuresIn, ServedAmong, SinceServed, FailedSince, LostSince

\* The draw last served, or none.
LEMMA SinceIs ==
  ASSUME NEW V, NEW draws \in Seq(V)
  PROVE  /\ SinceServed(draws) \in 0..Len(draws) /\ ServedAmong(draws) \subseteq 1..Len(draws)
         /\ \A i \in ServedAmong(draws) : i <= SinceServed(draws)
         /\ ServedAmong(draws) # {} => SinceServed(draws) \in ServedAmong(draws)
<1> DEFINE S == ServedAmong(draws)
<1>1. S \subseteq 1..Len(draws) /\ Len(draws) \in Nat
  BY LenProperties DEF ServedAmong
<1> HIDE DEF S
<1>2. CASE S = {}
  BY <1>1, <1>2 DEF SinceServed, S
<1>3. CASE S # {}
  <2>1. \E i \in S : \A j \in S : j <= i
    <3>1. S \subseteq Nat /\ Len(draws) \in Nat /\ \A j \in S : j <= Len(draws)
      BY <1>1
    <3> QED BY <1>3, <3>1, Greatest
  <2>2. SinceServed(draws) \in S /\ \A j \in S : j <= SinceServed(draws)
    <3>1. SinceServed(draws) = CHOOSE i \in S : \A j \in S : j <= i
      BY <1>3 DEF SinceServed, S
    <3> QED BY <2>1, <3>1
  <2> QED BY <1>1, <2>2 DEF S
<1> QED BY <1>2, <1>3

LEMMA CountIsNat ==
  ASSUME NEW V, NEW draws \in Seq(V), NEW since
  PROVE  /\ IsFiniteSet(FailedSince(draws, since)) /\ IsFiniteSet(LostSince(draws, since))
         /\ Cardinality(FailedSince(draws, since)) \in Nat
         /\ Cardinality(LostSince(draws, since)) \in Nat
<1>1. Len(draws) \in Nat /\ DOMAIN draws = 1..Len(draws)
  BY LenProperties
<1>2. IsFiniteSet(DOMAIN draws)
  BY <1>1, FS_Interval
<1>3. FailedSince(draws, since) \subseteq DOMAIN draws /\ LostSince(draws, since) \subseteq DOMAIN draws
  BY DEF FailedSince, LostSince
<1>4. IsFiniteSet(FailedSince(draws, since)) /\ IsFiniteSet(LostSince(draws, since))
  BY <1>2, <1>3, FS_Subset
<1> QED BY <1>4, FS_CardinalityType

LEMMA FailuresNat ==
  ASSUME NEW V, NEW draws \in Seq(V)
  PROVE  FailuresIn(draws) \in Nat
<1> QED BY FailuresAre, CountIsNat

LEMMA FailuresInNone == FailuresIn(<<>>) = 0
<1>1. \A since : FailedSince(<<>>, since) = {} /\ LostSince(<<>>, since) = {}
  BY DEF FailedSince, LostSince
<1>2. Cardinality({}) = 0
  BY FS_EmptySet
<1>3. FailuresIn(<<>>) = 0 + 0
  BY <1>1, <1>2, FailuresAre
<1> QED BY <1>3

\* What one draw more makes of the count: a served one starts it again, one
\* that was judged and not served counts, and so does a lost session.
Served1(d) == d.judged /\ d.probe = "ok"
Failed1(d) == d.judged /\ d.probe \in {"refused", "error"}
Lost1(d) == d.end = "exception"
Ones(told) == IF told THEN 1 ELSE 0

LEMMA FailuresGrow ==
  ASSUME NEW V, NEW draws \in Seq(V), NEW d \in V
  PROVE  FailuresIn(Append(draws, d)) =
           (IF Served1(d) THEN 0 ELSE FailuresIn(draws) + Ones(Failed1(d))) + Ones(Lost1(d))
<1> DEFINE longer == Append(draws, d)
           n == Len(draws)
<1>1. /\ longer \in Seq(V) /\ Len(longer) = n + 1 /\ n \in Nat /\ DOMAIN draws = 1..n
      /\ DOMAIN longer = 1..(n + 1) /\ longer[n + 1] = d
      /\ \A i \in 1..n : longer[i] = draws[i]
  BY AppendProperties, LenProperties
<1> HIDE DEF longer, n
<1>2. ServedAmong(longer) = ServedAmong(draws) \cup (IF Served1(d) THEN {n + 1} ELSE {})
  BY <1>1 DEF ServedAmong, Served1
<1>3. /\ SinceServed(draws) \in 0..n /\ ServedAmong(draws) \subseteq 1..n
      /\ SinceServed(longer) \in 0..(n + 1)
      /\ \A i \in ServedAmong(longer) : i <= SinceServed(longer)
  BY <1>1, SinceIs DEF n
<1>4. CASE Served1(d)
  <2>1. SinceServed(longer) = n + 1
    <3>1. n + 1 \in ServedAmong(longer)
      BY <1>2, <1>4
    <3>2. n + 1 <= SinceServed(longer)
      BY <1>3, <3>1
    <3> QED BY <1>1, <1>3, <3>2
  <2>2. FailedSince(longer, n + 1) = {}
    BY <1>1 DEF FailedSince
  <2>3. LostSince(longer, n + 1) = IF Lost1(d) THEN {n + 1} ELSE {}
    BY <1>1 DEF LostSince, Lost1
  <2>4. Cardinality(LostSince(longer, n + 1)) = Ones(Lost1(d)) /\ Cardinality(FailedSince(longer, n + 1)) = 0
    BY <2>2, <2>3, FS_EmptySet, FS_Singleton DEF Ones
  <2> QED BY <1>4, <2>1, <2>4, FailuresAre DEF longer, Ones
<1>5. CASE ~Served1(d)
  <2> DEFINE s == SinceServed(draws)
  <2>1. SinceServed(longer) = s
    <3>1. ServedAmong(longer) = ServedAmong(draws)
      BY <1>2, <1>5
    <3> QED BY <3>1 DEF SinceServed
  <2>2. s \in 0..n
    BY <1>3
  <2> HIDE DEF s
  <2>3. FailedSince(longer, s) = FailedSince(draws, s) \cup (IF Failed1(d) THEN {n + 1} ELSE {})
    BY <1>1, <2>2 DEF FailedSince, Failed1
  <2>4. LostSince(longer, s) = LostSince(draws, s) \cup (IF Lost1(d) THEN {n + 1} ELSE {})
    BY <1>1, <2>2 DEF LostSince, Lost1
  <2>5. n + 1 \notin FailedSince(draws, s) /\ n + 1 \notin LostSince(draws, s)
    BY <1>1 DEF FailedSince, LostSince
  <2>6. /\ Cardinality(FailedSince(longer, s)) = Cardinality(FailedSince(draws, s)) + Ones(Failed1(d))
        /\ Cardinality(FailedSince(draws, s)) \in Nat
    <3>1. IsFiniteSet(FailedSince(draws, s)) /\ Cardinality(FailedSince(draws, s)) \in Nat
      BY CountIsNat
    <3>2. Cardinality(FailedSince(draws, s) \cup {n + 1}) = Cardinality(FailedSince(draws, s)) + 1
      BY <2>5, <3>1, FS_AddElement
    <3>3. CASE Failed1(d)
      <4>1. FailedSince(longer, s) = FailedSince(draws, s) \cup {n + 1} /\ Ones(Failed1(d)) = 1
        BY <2>3, <3>3 DEF Ones
      <4> QED BY <3>1, <3>2, <4>1
    <3>4. CASE ~Failed1(d)
      <4>1. FailedSince(longer, s) = FailedSince(draws, s) /\ Ones(Failed1(d)) = 0
        BY <2>3, <3>4 DEF Ones
      <4> QED BY <3>1, <4>1
    <3> QED BY <3>3, <3>4
  <2>7. /\ Cardinality(LostSince(longer, s)) = Cardinality(LostSince(draws, s)) + Ones(Lost1(d))
        /\ Cardinality(LostSince(draws, s)) \in Nat
    <3>1. IsFiniteSet(LostSince(draws, s)) /\ Cardinality(LostSince(draws, s)) \in Nat
      BY CountIsNat
    <3>2. Cardinality(LostSince(draws, s) \cup {n + 1}) = Cardinality(LostSince(draws, s)) + 1
      BY <2>5, <3>1, FS_AddElement
    <3>3. CASE Lost1(d)
      <4>1. LostSince(longer, s) = LostSince(draws, s) \cup {n + 1} /\ Ones(Lost1(d)) = 1
        BY <2>4, <3>3 DEF Ones
      <4> QED BY <3>1, <3>2, <4>1
    <3>4. CASE ~Lost1(d)
      <4>1. LostSince(longer, s) = LostSince(draws, s) /\ Ones(Lost1(d)) = 0
        BY <2>4, <3>4 DEF Ones
      <4> QED BY <3>1, <4>1
    <3> QED BY <3>3, <3>4
  <2>8. FailuresIn(longer) = Cardinality(FailedSince(longer, s)) + Cardinality(LostSince(longer, s))
    BY <2>1, FailuresAre
  <2>9. FailuresIn(draws) = Cardinality(FailedSince(draws, s)) + Cardinality(LostSince(draws, s))
    BY FailuresAre DEF s
  <2>10. Ones(Failed1(d)) \in Nat /\ Ones(Lost1(d)) \in Nat
    BY DEF Ones
  <2> HIDE DEF longer
  <2>11. FailuresIn(longer) = (FailuresIn(draws) + Ones(Failed1(d))) + Ones(Lost1(d))
    BY <2>6, <2>7, <2>8, <2>9, <2>10
  <2> QED BY <1>5, <2>11 DEF longer
<1> QED BY <1>4, <1>5
----------------------------------------------------------------------------
(* The answer of an attempt: a verdict, and with an error its name.        *)

Replied(result) ==
  /\ result.verdict \in Verdicts
  /\ result.verdict = "error" => result.error \in Named
  /\ result.tab.shows \in Shows

LEMMA JudgedIs ==
  ASSUME NEW target, Ruled(target.rules, RowVerdicts), NEW kind, NEW shown, shown.shows \in Shows, NEW position
  PROVE  Replied(Judged(target, kind, shown, position))
<1>1. Judge(target.rules, Page(target, kind)) \in RowVerdicts
  <2>1. Judge(target.rules, Page(target, kind)) \in RowVerdicts \cup {"empty", "block"}
    BY JudgeIn
  <2> QED BY <2>1 DEF RowVerdicts, Verdicts
<1> QED BY <1>1 DEF Replied, Judged, RowVerdicts

LEMMA StaleIs ==
  ASSUME NEW target, Ruled(target.rules, RowVerdicts), NEW shown, shown.shows \in Shows
  PROVE  Replied(Stale(target, shown))
<1> DEFINE page == IF shown.shows = "answer" THEN Page(target, "results") ELSE FrontPage
<1>1. Judge(target.rules, page) \in RowVerdicts
  <2> HIDE DEF page
  <2>1. Judge(target.rules, page) \in RowVerdicts \cup {"empty", "block"}
    BY JudgeIn
  <2> QED BY <2>1 DEF RowVerdicts, Verdicts
<1> QED BY <1>1 DEF Replied, Stale, RowVerdicts

LEMMA FailedIs ==
  ASSUME NEW error \in Named, NEW shown, shown.shows \in Shows, NEW body
  PROVE  Replied(Failed(error, shown, body))
<1> QED BY DEF Replied, Failed, Verdicts

LEMMA AttemptsAre ==
  ASSUME NEW engine, engine.session.says \subseteq Named, NEW target, Ruled(target.rules, RowVerdicts),
         NEW shown, shown.shows \in Shows, NEW position, NEW world,
         NEW result \in Search(engine, target, shown, position, world)
                          \cup Fetch(engine, target, shown, position, world)
  PROVE  Replied(result)
<1>1. \A entered \in Entry(shown, world) :
        entered.shows \in Shows /\ Dismissed(target, entered).shows \in Shows
  BY DEF Entry, Dismissed, Tab, Shows
<1>2. \A box : Tab("answer", box).shows \in Shows /\ Tab("failure", box).shows \in Shows
  BY DEF Tab, Shows
<1>3. CASE result \in RunSearch(engine, target, shown, position, world)
  BY <1>2, <1>3, JudgedIs, FailedIs DEF RunSearch
<1>4. CASE result \in ZendriverSearch(engine, target, shown, position, world)
  BY <1>1, <1>2, <1>4, JudgedIs, FailedIs, StaleIs DEF ZendriverSearch
<1>5. CASE result \in Fetch(engine, target, shown, position, world)
  <2>1. CASE \E missed : result \in FailedLeaving(engine, LeftBy(missed, shown))
    <3>1. PICK missed : result \in FailedLeaving(engine, LeftBy(missed, shown))
      BY <2>1
    <3>2. LeftBy(missed, shown).shows \in Shows
      BY <1>2 DEF LeftBy
    <3> QED BY <3>1, <3>2, FailedIs DEF FailedLeaving
  <2>2. CASE \E kind : result = Judged(target, kind, Tab("answer", <<position>>), position)
    BY <1>2, <2>2, JudgedIs
  <2> QED BY <1>5, <2>1, <2>2, Zenon DEF Fetch
<1> QED BY <1>3, <1>4, <1>5 DEF Search

LEMMA ResultsAre ==
  ASSUME PlanInv, SeatInv, pc \in {"draw"} \cup InSession, tab.shows \in Shows,
         NEW result \in Results
  PROVE  Replied(result)
<1>1. Cell.engine \in EngineNames /\ Cell.target \in TargetNames
  BY InHand
<1>2. EngineFacts(Cell.engine) /\ TargetFacts(Cell.target)
  BY <1>1, EnginesAre, TargetsAre
<1>3. Engine.session.says \subseteq Named /\ Ruled(TargetOf.rules, RowVerdicts)
  BY <1>2 DEF EngineFacts, TargetFacts, Engine, TargetOf, Named
<1>4. result \in Search(Engine, TargetOf, tab, walk.position, args)
                   \cup Fetch(Engine, TargetOf, tab, walk.position, args)
  BY DEF Results
<1>5. tab.shows \in Shows
  OBVIOUS
<1> QED BY <1>3, <1>4, <1>5, AttemptsAre
----------------------------------------------------------------------------
(* What the two steps that write a row put in it.                          *)

LEMMA RowWith ==
  ASSUME NEW phase, NEW verdict, NEW error, NEW own, NEW body, NEW kept, NEW bytes
  PROVE  LET r == [NoRow EXCEPT !.phase = phase, !.verdict = verdict, !.error = error, !.own = own,
                                !.body = body, !.kept = kept, !.bytes = bytes]
         IN  /\ r.phase = phase /\ r.verdict = verdict /\ r.error = error /\ r.own = own
             /\ r.body = body /\ r.kept = kept /\ r.planned = 0 /\ r.done = 0
<1> QED BY DEF NoRow

LEMMA SendQueryIs ==
  ASSUME SendQuery, ~Refuses
  PROVE  \E result \in Results, fits \in {TRUE} \cup (IF Goes("disk") THEN {FALSE} ELSE {}) :
           /\ tab' = result.tab
           /\ archive' = IF result.body THEN Saved(archive, result.verdict, Key, fits) ELSE archive
           /\ row'.phase = IF walk.position = 0 THEN "probe" ELSE "hold"
           /\ row'.verdict = result.verdict /\ row'.error = result.error
           /\ row'.own = result.own /\ row'.body = result.body
           /\ row'.kept = (result.body /\ fits /\ Wanted(archive, result.verdict, Key))
           /\ row'.planned = 0 /\ row'.done = 0
<1>1. PICK result \in Results, fits \in {TRUE} \cup (IF Goes("disk") THEN {FALSE} ELSE {}) :
        /\ tab' = result.tab
        /\ archive' = IF result.body THEN Saved(archive, result.verdict, Key, fits) ELSE archive
        /\ row' = [NoRow EXCEPT
                     !.phase = IF walk.position = 0 THEN "probe" ELSE "hold",
                     !.verdict = result.verdict, !.error = result.error,
                     !.own = result.own, !.body = result.body,
                     !.kept = result.body /\ fits /\ Wanted(archive, result.verdict, Key),
                     !.bytes = Since]
  BY DEF SendQuery
<1>2. PICK phase : phase = IF walk.position = 0 THEN "probe" ELSE "hold"
  OBVIOUS
<1>3. PICK kept : kept = (result.body /\ fits /\ Wanted(archive, result.verdict, Key))
  OBVIOUS
<1>4. PICK bytes : bytes = Since
  OBVIOUS
<1>5. row' = [NoRow EXCEPT !.phase = phase, !.verdict = result.verdict, !.error = result.error,
                           !.own = result.own, !.body = result.body, !.kept = kept, !.bytes = bytes]
  BY <1>1, <1>2, <1>3, <1>4
<1>6. /\ row'.phase = phase /\ row'.verdict = result.verdict /\ row'.error = result.error
      /\ row'.own = result.own /\ row'.body = result.body /\ row'.kept = kept
      /\ row'.planned = 0 /\ row'.done = 0
  BY <1>5, RowWith
<1>7. /\ tab' = result.tab
      /\ archive' = IF result.body THEN Saved(archive, result.verdict, Key, fits) ELSE archive
  BY <1>1
<1>8. row'.phase = IF walk.position = 0 THEN "probe" ELSE "hold"
  BY <1>2, <1>6
<1>9. row'.kept = (result.body /\ fits /\ Wanted(archive, result.verdict, Key))
  BY <1>3, <1>6
<1> QED BY <1>6, <1>7, <1>8, <1>9, ZenonT(60)
----------------------------------------------------------------------------
(* Where run_identity is: a row of the queries has an answer, one that     *)
(* holds the exit follows a probe, and a probe that was judged said        *)
(* something.                                                              *)

Answers == {"none", "ok", "refused", "error", "transport"}
Raisings == {"none", "unavailable", "exception", "went_direct", "transport_lost", "arm_inert",
             "stopped", "interrupt"}
Walks == [page : Nat, attempt : {1, 2}, delivered : Nat, loaded : Nat, position : Nat]
RowInv ==
  /\ row.phase \in Phases
  /\ row.verdict \in Verdicts \cup {"warm_visit"}
  /\ row.phase # "warm" => row.verdict \in Verdicts
  /\ row.verdict = "error" => row.error \in Named
  /\ row.phase = "hold" => probe # "none"
AnswerInv ==
  /\ probe \in Answers /\ judged \in BOOLEAN /\ raised \in Raisings /\ walk \in Walks
  /\ judged => pc = "close" /\ probe # "none"
  /\ pc = "judge" => probe # "none"
  /\ walk.position > 0 => probe # "none"
  /\ pc = "row" => RowInv
  /\ tab.shows \in Shows

LEMMA InitAnswer == Init => AnswerInv
<1>1. NoWalk \in Walks /\ ~(NoWalk.position > 0)
  BY DEF NoWalk, Walks
<1>2. NoTab.shows \in Shows
  BY DEF NoTab, Tab, Shows
<1> QED BY <1>1, <1>2 DEF Init, Fresh, AnswerInv, Answers, Raisings

LEMMA AnswerKept ==
  ASSUME AnswerInv, probe' = probe, judged' = judged, raised' \in Raisings, walk' = walk, tab' = tab,
         judged => pc' = "close", pc' \notin {"judge", "row"}
  PROVE  AnswerInv'
<1> QED BY DEF AnswerInv

LEMMA AnswerAfresh ==
  ASSUME probe' = "none", judged' = FALSE, raised' = "none", walk' = NoWalk, tab' = NoTab,
         pc' \notin {"judge", "row"}
  PROVE  AnswerInv'
<1>1. NoWalk \in Walks /\ ~(NoWalk.position > 0)
  BY DEF NoWalk, Walks
<1>2. walk' \in Walks /\ ~(walk'.position > 0)
  BY <1>1
<1>3. tab'.shows \in Shows
  BY DEF NoTab, Tab, Shows
<1> QED BY <1>2, <1>3 DEF AnswerInv, Answers, Raisings

LEMMA VisitAnswer == PlanInv /\ SeatInv /\ AnswerInv /\ Visit => AnswerInv'
<1> SUFFICES ASSUME PlanInv, SeatInv, AnswerInv, Visit PROVE AnswerInv'
  OBVIOUS
<1>1. pc = "walk" /\ pc' = "row" /\ probe' = probe /\ judged' = judged /\ raised' = raised
  BY DEF Visit
<1>2. walk' \in Walks /\ walk'.position = walk.position
  <2>1. \E arrived, failed \in BOOLEAN :
          walk' = IF failed /\ walk.attempt = 1
                  THEN [walk EXCEPT !.attempt = 2]
                  ELSE [walk EXCEPT !.page = @ + 1, !.attempt = 1,
                                    !.delivered = IF failed THEN @ ELSE @ + 1,
                                    !.loaded = IF arrived THEN @ + 1 ELSE @]
    BY DEF Visit
  <2>2. walk \in Walks
    BY DEF AnswerInv
  <2>3. PICK d \in {walk.delivered, walk.delivered + 1}, l \in {walk.loaded, walk.loaded + 1} :
          \/ walk' = [walk EXCEPT !.attempt = 2]
          \/ walk' = [walk EXCEPT !.page = walk.page + 1, !.attempt = 1, !.delivered = d, !.loaded = l]
    BY <2>1
  <2>4. d \in Nat /\ l \in Nat /\ walk.page + 1 \in Nat
    BY <2>2 DEF Walks
  <2>5. CASE walk' = [walk EXCEPT !.attempt = 2]
    BY <2>2, <2>5 DEF Walks
  <2>6. CASE walk' = [walk EXCEPT !.page = walk.page + 1, !.attempt = 1, !.delivered = d, !.loaded = l]
    BY <2>2, <2>4, <2>6 DEF Walks
  <2> QED BY <2>3, <2>5, <2>6
<1>3. /\ row'.phase = "warm" /\ row'.verdict = "warm_visit"
  BY DEF Visit, NoRow
<1>4. RowInv'
  BY <1>3 DEF RowInv, Phases
<1>5. tab'.shows \in Shows
  <2>1. PICK came : tab' \in WarmTab(Planned[walk.page], came)
    BY DEF Visit
  <2>2. tab.shows \in Shows
    BY DEF AnswerInv
  <2>3. \A t \in Entry(Tab("warm", <<>>), args) : t.shows \in Shows
    BY DEF Entry, HasBox, Tab, Shows
  <2>4. LeftBy(came, tab).shows \in Shows
    BY <2>2 DEF LeftBy, Tab, Shows
  <2>5. Tab("warm", <<>>).shows \in Shows
    BY DEF Tab, Shows
  <2> QED BY <2>1, <2>3, <2>4, <2>5 DEF WarmTab
<1> QED BY <1>1, <1>2, <1>4, <1>5 DEF AnswerInv

LEMMA SendQueryAnswer == PlanInv /\ SeatInv /\ AnswerInv /\ SendQuery => AnswerInv'
<1> SUFFICES ASSUME PlanInv, SeatInv, AnswerInv, SendQuery PROVE AnswerInv'
  OBVIOUS
<1>1. pc = "walk" /\ probe' = probe /\ judged' = judged /\ walk' = walk
  BY DEF SendQuery
<1>2. CASE Refuses
  <2>1. pc' = "close" /\ raised' = "exception" /\ tab' = tab
    BY <1>2 DEF SendQuery
  <2> QED BY <1>1, <2>1, AnswerKept DEF AnswerInv, Raisings
<1>3. CASE ~Refuses
  <2>1. PICK result \in Results :
          row'.verdict = result.verdict /\ row'.error = result.error /\ tab' = result.tab
          /\ row'.phase = IF walk.position = 0 THEN "probe" ELSE "hold"
    BY <1>3, SendQueryIs
  <2>2. pc' = "row" /\ raised' = raised
    BY <1>3 DEF SendQuery
  <2>3. Replied(result)
    BY <1>1, ResultsAre DEF InSession, AnswerInv
  <2>4. RowInv'
    <3>1. walk.position \in Nat /\ (walk.position > 0 => probe # "none")
      BY DEF AnswerInv, Walks
    <3>2. row'.phase \in {"probe", "hold"} /\ (row'.phase = "hold" => probe' # "none")
      BY <1>1, <2>1, <3>1
    <3> QED BY <2>1, <2>3, <3>2 DEF RowInv, Replied, Phases
  <2> QED BY <1>1, <2>1, <2>2, <2>3, <2>4 DEF AnswerInv, Replied
<1> QED BY <1>2, <1>3

LEMMA OnRowAnswer == PlanInv /\ SeatInv /\ AnswerInv /\ OnRow => AnswerInv'
<1> SUFFICES ASSUME PlanInv, SeatInv, AnswerInv, OnRow PROVE AnswerInv'
  OBVIOUS
<1>1. pc = "row" /\ judged' = judged /\ RowInv /\ tab' = tab
  BY DEF OnRow, AnswerInv
<1>2. raised' \in Raisings
  BY DEF OnRow, AnswerInv, Raisings
<1>3. /\ probe' \in Answers
      /\ row.phase = "probe" => probe' # "none"
      /\ row.phase # "probe" => probe' = probe
  <2>1. probe' = CASE row.phase # "probe" -> probe
                [] row.phase = "probe" /\ row.verdict = "error" -> row.error
                [] row.phase = "probe" /\ row.verdict = "ok" -> "ok"
                [] OTHER -> "refused"
    BY DEF OnRow
  <2>2. probe \in Answers /\ (row.verdict = "error" => row.error \in Named)
    BY <1>1 DEF RowInv, AnswerInv
  <2> QED BY <2>1, <2>2 DEF Answers, Named
<1>4. pc' \in {"walk", "judge", "close"} /\ (pc' = "judge" => row.phase # "warm")
  BY DEF OnRow, AfterRow
<1>5. /\ walk' \in Walks
      /\ walk' = walk \/ (row.phase # "warm" /\ walk'.position = walk.position + 1)
  <2>1. walk' = IF row.phase = "warm" \/ pc' # "walk" THEN walk ELSE [walk EXCEPT !.position = @ + 1]
    BY DEF OnRow
  <2> QED BY <2>1 DEF AnswerInv, Walks
<1>6. row.phase # "warm" => probe' # "none"
  BY <1>1, <1>3 DEF RowInv, Phases
<1>7. walk'.position > 0 => probe' # "none"
  <2>1. CASE row.phase = "warm"
    BY <1>3, <1>5, <2>1 DEF AnswerInv
  <2> QED BY <1>6, <2>1
<1>8. judged' = FALSE
  BY <1>1 DEF AnswerInv
<1> QED BY <1>1, <1>2, <1>3, <1>4, <1>5, <1>6, <1>7, <1>8 DEF AnswerInv

LEMMA NextAnswer == PlanInv /\ SeatInv /\ AnswerInv /\ [Next]_vars => AnswerInv'
<1> SUFFICES ASSUME PlanInv, SeatInv, AnswerInv, [Next]_vars PROVE AnswerInv'
  OBVIOUS
<1>1. CASE Visit \/ SendQuery \/ OnRow
  BY <1>1, VisitAnswer, SendQueryAnswer, OnRowAnswer
<1>2. CASE LadderPreflight \/ Leave \/ Start \/ HeadEnds \/ HeadTakes \/ Draw \/ Crash \/ Open
  <2>1. /\ probe' = probe /\ judged' = judged /\ raised' = raised /\ walk' = walk /\ tab' = tab /\ pc # "close"
        /\ pc' \notin {"judge", "row"}
    BY <1>2 DEF LadderPreflight, Leave, Start, HeadEnds, HeadTakes, Draw, Crash, Open
  <2> QED BY <2>1, AnswerKept DEF AnswerInv
<1>3. CASE OpenFails \/ CheckDirect \/ OpenPage \/ FetchRaises \/ Interrupt
  <2>1. /\ probe' = probe /\ judged' = judged /\ walk' = walk /\ tab' = tab /\ pc # "close"
        /\ pc' \notin {"judge", "row"}
        /\ raised' \in {raised, "unavailable", "exception", "went_direct", "interrupt"}
    BY <1>3 DEF OpenFails, CheckDirect, OpenPage, FetchRaises, Interrupt
  <2> QED BY <2>1, AnswerKept DEF AnswerInv, Raisings
<1>4. CASE Restart \/ Close
  <2>1. /\ probe' = "none" /\ judged' = FALSE /\ raised' = "none" /\ walk' = NoWalk /\ tab' = NoTab
        /\ pc' \notin {"judge", "row"}
    BY <1>4 DEF Restart, Renewed, Close
  <2> QED BY <2>1, AnswerAfresh
<1>5. CASE JudgeProbe
  <2>1. /\ pc = "judge" /\ pc' = "close" /\ probe' = probe /\ judged' = TRUE /\ raised' = raised
        /\ walk' = walk /\ tab' = tab
    BY <1>5 DEF JudgeProbe
  <2> QED BY <2>1 DEF AnswerInv
<1>6. CASE Move \/ AskToStop \/ Age \/ Done \/ UNCHANGED vars
  <2>1. /\ pc' = pc /\ probe' = probe /\ judged' = judged /\ raised' = raised /\ walk' = walk
        /\ row' = row /\ tab' = tab
    BY <1>6 DEF Move, AskToStop, Age, Done, vars
  <2> QED BY <2>1 DEF AnswerInv, RowInv
<1> QED
  BY <1>1, <1>2, <1>3, <1>4, <1>5, <1>6 DEF Next, Process, Around
----------------------------------------------------------------------------
(* A breaker counts what its cell's draws say, the judged one of the       *)
(* session in hand included.                                               *)

Reasons == {Running, "failures", "went_direct", "engine_unavailable"}
Circuits == [consecutive : Nat, reason : Reasons]
Fates == [round : Rounds, redraw : {0} \cup (1..args.redraws), probe : Answers,
          judged : BOOLEAN, end : Raisings \cup {"skipped"}]

\* What the breaker of a cell with these draws has been told, when the
\* judgement in hand, if it is of this cell, is not yet one of them.
Told(draws, mine, answer) ==
  CASE mine /\ answer = "ok" -> 0
    [] mine /\ answer \in {"refused", "error"} -> FailuresIn(draws) + 1
    [] OTHER -> FailuresIn(draws)

\* A cell runs while its count is below the limit, and is stopped for
\* failures once it is not.
Earned(b, limit) ==
  /\ b.reason = "failures" => b.consecutive >= limit
  /\ ~Tripped(b) => b.consecutive = 0 \/ b.consecutive < limit

Counts(b, draws, mine, answer, limit) ==
  /\ b \in Circuits /\ Earned(b, limit)
  /\ b.consecutive = Told(draws, mine, answer)

CircuitInv ==
  /\ \A c \in DOMAIN history :
       /\ history[c] \in Seq(Fates)
       /\ Counts(breakers[c], history[c], judged /\ c = at.cell, probe, args.breaker)
  /\ pc \in {"draw"} \cup (InSession \ {"close"}) => ~Tripped(breakers[at.cell])

\* The methods of a breaker keep it earned.
LEMMA NewCircuitIs ==
  \A limit \in Int : Counts(NewCircuitBreaker, <<>>, FALSE, "none", limit)
<1> QED
  BY FailuresInNone
  DEF Counts, Told, NewCircuitBreaker, Circuits, Reasons, Earned, Tripped, Running

LEMMA FailureCounts ==
  ASSUME NEW b \in Circuits, NEW limit \in Int, Earned(b, limit)
  PROVE  /\ CircuitRecord(b, FALSE, limit) \in Circuits
         /\ Earned(CircuitRecord(b, FALSE, limit), limit)
         /\ CircuitRecord(b, FALSE, limit).consecutive = b.consecutive + 1
<1>1. b.consecutive \in Nat /\ b.reason \in Reasons
  BY DEF Circuits
<1>2. PICK t \in Circuits :
        /\ CircuitRecord(b, FALSE, limit) = [t EXCEPT !.consecutive = b.consecutive + 1]
        /\ t.reason = IF b.reason # Running THEN b.reason
                      ELSE IF b.consecutive + 1 >= limit THEN "failures" ELSE Running
  <2> DEFINE why == IF b.consecutive + 1 >= limit THEN "failures" ELSE Running
             t == Trip(b, why)
  <2>1. why \in Reasons
    BY DEF Reasons
  <2>2. t \in Circuits /\ t.consecutive = b.consecutive
        /\ t.reason = IF b.reason # Running THEN b.reason ELSE why
    <3> HIDE DEF why
    <3> QED BY <2>1 DEF Trip, Tripped, Circuits
  <2>3. CircuitRecord(b, FALSE, limit) = [t EXCEPT !.consecutive = t.consecutive + 1]
    BY DEF CircuitRecord
  <2> HIDE DEF t
  <2>4. CircuitRecord(b, FALSE, limit) = [t EXCEPT !.consecutive = b.consecutive + 1]
    BY <2>2, <2>3
  <2> QED BY <2>2, <2>4
<1> DEFINE after == CircuitRecord(b, FALSE, limit)
<1>3. after \in Circuits /\ after.consecutive = b.consecutive + 1 /\ after.reason = t.reason
  <2> DEFINE n == b.consecutive + 1
  <2>0. CircuitRecord(b, FALSE, limit) = [t EXCEPT !.consecutive = n]
    BY <1>2
  <2>1. n \in Nat
    BY <1>1
  <2> HIDE DEF n, after
  <2>2. \A a : a = [t EXCEPT !.consecutive = n] =>
                a \in Circuits /\ a.consecutive = n /\ a.reason = t.reason
    BY <2>1 DEF Circuits
  <2>3. after \in Circuits /\ after.consecutive = n /\ after.reason = t.reason
    BY <2>0, <2>2 DEF after
  <2> QED BY <2>3 DEF n
<1> HIDE DEF after
<1>4. Earned(after, limit)
  BY <1>1, <1>2, <1>3 DEF Earned, Tripped, Running, Reasons
<1> QED BY <1>3, <1>4 DEF after

LEMMA ServedCounts ==
  ASSUME NEW b \in Circuits, NEW limit \in Int, ~Tripped(b)
  PROVE  /\ CircuitRecord(b, TRUE, limit) \in Circuits
         /\ Earned(CircuitRecord(b, TRUE, limit), limit)
         /\ CircuitRecord(b, TRUE, limit).consecutive = 0
<1> QED BY DEF CircuitRecord, Circuits, Earned, Tripped, Running

LEMMA TripCounts ==
  ASSUME NEW b \in Circuits, NEW limit \in Int, Earned(b, limit),
         NEW why \in {"went_direct", "engine_unavailable"}
  PROVE  /\ Trip(b, why) \in Circuits /\ Earned(Trip(b, why), limit)
         /\ Trip(b, why).consecutive = b.consecutive
<1> QED BY DEF Trip, Circuits, Reasons, Earned, Tripped, Running

LEMMA FatesKept ==
  ASSUME args' = args
  PROVE  Fates' = Fates /\ Rounds' = Rounds
<1> QED BY DEF Fates, Rounds

\* A step in which no breaker is told anything and no draw ends.
Runs == {"draw"} \cup (InSession \ {"close"})
LEMMA CircuitKept ==
  ASSUME CircuitInv, args' = args, history' = history, breakers' = breakers,
         \/ ~judged /\ ~judged'
         \/ at' = at /\ judged' = judged /\ probe' = probe,
         pc' \in Runs => pc \in Runs /\ at' = at
  PROVE  CircuitInv'
<1>1. Fates' = Fates
  BY FatesKept
<1>2. ASSUME NEW c \in DOMAIN history
      PROVE  Told(history[c], judged' /\ c = at'.cell, probe') = Told(history[c], judged /\ c = at.cell, probe)
  BY DEF Told
<1>3. ASSUME NEW c \in DOMAIN history
      PROVE  Counts(breakers[c], history[c], judged' /\ c = at'.cell, probe', args.breaker)
  BY <1>2 DEF CircuitInv, Counts
<1> QED BY <1>1, <1>3 DEF CircuitInv, Runs

LEMMA StartCircuit == PlanInv /\ SeatInv /\ AnswerInv /\ CircuitInv /\ Start => CircuitInv'
<1> SUFFICES ASSUME PlanInv, SeatInv, AnswerInv, CircuitInv, Start PROVE CircuitInv'
  OBVIOUS
<1>1. args' = args /\ pc = "start" /\ judged' = FALSE /\ ~judged
  BY DEF Start, AnswerInv
<1>2. CASE Accepted(args) /\ ~args.dry
  <2>1. /\ pc' = "head" /\ breakers' = [i \in 1..Len(cells) |-> NewCircuitBreaker]
        /\ history' = [i \in 1..Len(cells) |-> <<>>]
    BY <1>2 DEF Start
  <2>2. <<>> \in Seq(Fates') /\ args'.breaker \in Int
    BY <1>1, EmptySeq, PlanAssumption DEF PlanInv
  <2>3. ASSUME NEW c \in DOMAIN history'
        PROVE  Counts(breakers'[c], history'[c], judged' /\ c = at'.cell, probe', args'.breaker)
    <3>1. Counts(NewCircuitBreaker, <<>>, FALSE, "none", args'.breaker)
      BY <2>2, NewCircuitIs
    <3>2. breakers'[c] = NewCircuitBreaker /\ history'[c] = <<>>
      BY <2>1
    <3> QED BY <1>1, <3>1, <3>2 DEF Counts, Told
  <2> QED BY <2>1, <2>2, <2>3 DEF CircuitInv, InSession
<1>3. CASE ~(Accepted(args) /\ ~args.dry)
  <2>1. pc' = "over" /\ breakers' = breakers /\ history' = history
    BY <1>3 DEF Start
  <2> QED BY <1>1, <2>1, CircuitKept DEF InSession, Runs
<1> QED BY <1>2, <1>3

\* The cell in hand, with its breaker and its draws.
LEMMA MineIs ==
  ASSUME PlanInv, SeatInv, CircuitInv, pc \in {"draw"} \cup InSession
  PROVE  /\ at.cell \in DOMAIN history /\ at.cell \in DOMAIN breakers /\ DOMAIN history = DOMAIN breakers
         /\ history[at.cell] \in Seq(Fates) /\ at.round \in Rounds
         /\ at.redraw \in {0} \cup (1..args.redraws) /\ args.breaker \in Int
         /\ Counts(breakers[at.cell], history[at.cell], judged, probe, args.breaker)
<1>1. at \in Slots /\ at.cell \in DOMAIN cells
  BY InHand
<1>2. DOMAIN history = DOMAIN cells /\ DOMAIN breakers = DOMAIN cells
  BY DEF SeatInv
<1>3. Counts(breakers[at.cell], history[at.cell], judged /\ at.cell = at.cell, probe, args.breaker)
  BY <1>1, <1>2 DEF CircuitInv
<1>4. Counts(breakers[at.cell], history[at.cell], judged, probe, args.breaker)
  BY <1>3 DEF Counts, Told
<1>5. args.breaker \in Int
  BY PlanAssumption DEF PlanInv
<1> QED BY <1>1, <1>2, <1>4, <1>5 DEF CircuitInv, Slots

\* The rest of the breakers and the histories are as they were.
MineOnly(b, draws) ==
  /\ DOMAIN history' = DOMAIN history /\ breakers'[at.cell] = b /\ history'[at.cell] = draws
  /\ \A c \in DOMAIN history :
       c # at.cell => breakers'[c] = breakers[c] /\ history'[c] = history[c]

\* A step that ends the draw in hand, or tells its breaker something.
LEMMA MineMoves ==
  ASSUME PlanInv, SeatInv, CircuitInv, pc \in {"draw"} \cup InSession, args' = args, at' = at,
         NEW b, NEW draws, MineOnly(b, draws), draws \in Seq(Fates),
         Counts(b, draws, judged', probe', args.breaker),
         pc' \notin Runs
  PROVE  CircuitInv'
<1>1. Fates' = Fates
  BY FatesKept
<1>2. at.cell \in DOMAIN history /\ DOMAIN history = DOMAIN breakers /\ DOMAIN history' = DOMAIN history
  BY MineIs DEF MineOnly
<1>3. ASSUME NEW c \in DOMAIN history
      PROVE  /\ history'[c] \in Seq(Fates)
             /\ Counts(breakers'[c], history'[c], judged' /\ c = at'.cell, probe', args'.breaker)
  <2>1. CASE c = at.cell
    <3>1. breakers'[c] = b /\ history'[c] = draws
      BY <2>1 DEF MineOnly
    <3> QED BY <2>1, <3>1 DEF Counts, Told
  <2>2. CASE c # at.cell
    <3>1. breakers'[c] = breakers[c] /\ history'[c] = history[c]
      BY <2>2 DEF MineOnly
    <3> QED BY <2>2, <3>1 DEF CircuitInv, Counts, Told
  <2> QED BY <2>1, <2>2
<1> QED BY <1>1, <1>2, <1>3 DEF CircuitInv, Runs

LEMMA DrawCircuit == PlanInv /\ SeatInv /\ AnswerInv /\ CircuitInv /\ Draw => CircuitInv'
<1> SUFFICES ASSUME PlanInv, SeatInv, AnswerInv, CircuitInv, Draw PROVE CircuitInv'
  OBVIOUS
<1>1. /\ pc = "draw" /\ args' = args /\ at' = at /\ probe' = probe /\ judged' = judged /\ ~judged
      /\ breakers' = breakers
  BY DEF Draw, AnswerInv
<1>2. CASE pc' \in {"over", "open"} /\ history' = history
  BY <1>1, <1>2, CircuitKept DEF Runs
<1>3. CASE pc' = "head" /\ history' = Noted("skipped")
  <2> DEFINE b == breakers[at.cell]
             h == history[at.cell]
             d == Fate("skipped")
  <2>1. /\ at.cell \in DOMAIN breakers /\ h \in Seq(Fates) /\ Counts(b, h, judged, probe, args.breaker)
        /\ MineOnly(b, Append(h, d))
    <3>1. /\ at.cell \in DOMAIN breakers /\ DOMAIN history = DOMAIN breakers
          /\ h \in Seq(Fates) /\ Counts(b, h, judged, probe, args.breaker)
      BY <1>1, MineIs
    <3> QED BY <1>1, <1>3, <3>1 DEF Noted, MineOnly
  <2>2. d \in Fates
    BY <1>1, MineIs DEF Fate, Fates, AnswerInv
  <2>3. ~Served1(d) /\ ~Failed1(d) /\ ~Lost1(d)
    BY <1>1 DEF Served1, Failed1, Lost1, Fate
  <2> HIDE DEF b, h, d
  <2>4. Append(h, d) \in Seq(Fates) /\ FailuresIn(h) \in Nat
    BY <2>1, <2>2, AppendProperties, FailuresNat
  <2>5. FailuresIn(Append(h, d)) = FailuresIn(h)
    <3>1. FailuresIn(Append(h, d)) = (FailuresIn(h) + 0) + 0
      BY <2>1, <2>2, <2>3, FailuresGrow DEF Ones
    <3> QED BY <2>4, <3>1
  <2>6. Counts(b, Append(h, d), judged', probe', args.breaker)
    BY <1>1, <2>1, <2>5 DEF Counts, Told
  <2>7. pc' \notin Runs
    BY <1>3 DEF Runs, InSession
  <2> HIDE DEF MineOnly
  <2> QED BY <1>1, <2>1, <2>4, <2>6, <2>7, MineMoves
<1> QED BY <1>2, <1>3 DEF Draw

LEMMA JudgeProbeCircuit == PlanInv /\ SeatInv /\ AnswerInv /\ CircuitInv /\ JudgeProbe => CircuitInv'
<1> SUFFICES ASSUME PlanInv, SeatInv, AnswerInv, CircuitInv, JudgeProbe PROVE CircuitInv'
  OBVIOUS
<1>1. /\ pc = "judge" /\ pc' = "close" /\ args' = args /\ at' = at /\ probe' = probe /\ judged' = TRUE
      /\ ~judged /\ history' = history /\ probe \in Answers \ {"none"}
  BY DEF JudgeProbe, AnswerInv
<1> DEFINE b == breakers[at.cell]
           h == history[at.cell]
<1>2. /\ at.cell \in DOMAIN breakers /\ at.cell \in DOMAIN history
      /\ h \in Seq(Fates) /\ Counts(b, h, judged, probe, args.breaker)
      /\ args.breaker \in Int
  BY <1>1, MineIs DEF InSession
<1>3. ~Tripped(b)
  BY <1>1 DEF CircuitInv, InSession
<1> DEFINE told == IF probe = "transport" THEN b ELSE CircuitRecord(b, probe = "ok", args.breaker)
<1>4. MineOnly(told, h)
  <2>1. CASE probe = "transport"
    <3>1. breakers' = breakers
      BY <2>1 DEF JudgeProbe
    <3> QED BY <1>1, <2>1, <3>1 DEF MineOnly
  <2>2. CASE probe # "transport"
    <3>1. breakers' = [breakers EXCEPT ![at.cell] = told]
      BY <2>2 DEF JudgeProbe, Recorded
    <3> HIDE DEF told
    <3> QED BY <1>1, <1>2, <3>1, MineIs DEF MineOnly
  <2> QED BY <2>1, <2>2
<1>5. b \in Circuits /\ Earned(b, args.breaker) /\ b.consecutive = FailuresIn(h)
  BY <1>1, <1>2 DEF Counts, Told
<1> HIDE DEF b, h
<1>6. Counts(told, h, TRUE, probe, args.breaker)
  <2>1. CASE probe = "transport"
    BY <1>5, <2>1 DEF Counts, Told
  <2>2. CASE probe = "ok"
    <3>1. told = CircuitRecord(b, TRUE, args.breaker)
      BY <2>2
    <3> HIDE DEF told
    <3> QED BY <1>2, <1>3, <1>5, <2>2, <3>1, ServedCounts DEF Counts, Told
  <2>3. CASE probe \in {"refused", "error"}
    <3>1. told = CircuitRecord(b, FALSE, args.breaker)
      BY <2>3
    <3> HIDE DEF told
    <3> QED BY <1>2, <1>5, <2>3, <3>1, FailureCounts DEF Counts, Told
  <2> QED BY <1>1, <2>1, <2>2, <2>3 DEF Answers
<1> HIDE DEF told
<1> QED BY <1>1, <1>2, <1>4, <1>6, MineMoves DEF InSession, Runs

LEMMA CloseCircuit == PlanInv /\ SeatInv /\ AnswerInv /\ CircuitInv /\ Close => CircuitInv'
<1> SUFFICES ASSUME PlanInv, SeatInv, AnswerInv, CircuitInv, Close PROVE CircuitInv'
  OBVIOUS
<1>1. /\ pc = "close" /\ pc' \in {"over", "head"} /\ args' = args /\ at' = at /\ judged' = FALSE
      /\ probe \in Answers /\ judged \in BOOLEAN
  BY DEF Close, AnswerInv
<1>2. PICK why \in Raisings : breakers' = Handled(why) /\ history' = Noted(why)
  <2>1. PICK fails \in BOOLEAN :
          /\ breakers' = Handled(IF fails THEN "exception" ELSE raised)
          /\ history' = Noted(IF fails THEN "exception" ELSE raised)
    BY DEF Close
  <2>2. raised \in Raisings /\ "exception" \in Raisings
    BY DEF AnswerInv, Raisings
  <2> QED BY <2>1, <2>2
<1> DEFINE b == breakers[at.cell]
           h == history[at.cell]
           d == Fate(why)
           told == CASE why = "unavailable" -> Trip(b, "engine_unavailable")
                     [] why = "exception" -> CircuitRecord(b, FALSE, args.breaker)
                     [] OTHER -> b
<1>3. /\ at.cell \in DOMAIN breakers /\ at.cell \in DOMAIN history /\ h \in Seq(Fates)
      /\ Counts(b, h, judged, probe, args.breaker) /\ args.breaker \in Int
  BY <1>1, MineIs DEF InSession
<1>4. MineOnly(told, Append(h, d))
  <2>1. (breakers' = breakers /\ told = b) \/ breakers' = [breakers EXCEPT ![at.cell] = told]
    <3>1. CASE why = "unavailable"
      BY <1>2, <3>1 DEF Handled, TrippedFor
    <3>2. CASE why = "exception"
      BY <1>2, <3>2 DEF Handled, Recorded
    <3>3. CASE why \notin {"unavailable", "exception"}
      BY <1>2, <3>3 DEF Handled
    <3> QED BY <3>1, <3>2, <3>3
  <2>2. history' = [history EXCEPT ![at.cell] = Append(h, d)]
    BY <1>2 DEF Noted
  <2>3. DOMAIN history = DOMAIN breakers
    BY <1>1, MineIs DEF InSession
  <2> HIDE DEF told
  <2> QED BY <1>3, <2>1, <2>2, <2>3 DEF MineOnly
<1>5. d \in Fates
  BY <1>1, <1>2, MineIs DEF Fate, Fates, InSession
<1>6. /\ Served1(d) <=> judged /\ probe = "ok"
      /\ Failed1(d) <=> judged /\ probe \in {"refused", "error"}
      /\ Lost1(d) <=> why = "exception"
  BY DEF Served1, Failed1, Lost1, Fate
<1> HIDE DEF b, h, d
<1>7. FailuresIn(h) \in Nat /\ Append(h, d) \in Seq(Fates)
      /\ FailuresIn(Append(h, d)) =
            (IF Served1(d) THEN 0 ELSE FailuresIn(h) + Ones(Failed1(d))) + Ones(Lost1(d))
  BY <1>3, <1>5, FailuresNat, AppendProperties, FailuresGrow
<1>8. b \in Circuits /\ Earned(b, args.breaker) /\ b.consecutive = Told(h, judged, probe)
  BY <1>3 DEF Counts
<1>9. FailuresIn(Append(h, d)) = Told(h, judged, probe) + Ones(Lost1(d)) /\ Told(h, judged, probe) \in Nat
  <2>1. CASE judged /\ probe = "ok"
    BY <1>6, <1>7, <2>1 DEF Told, Ones
  <2>2. CASE judged /\ probe \in {"refused", "error"}
    BY <1>6, <1>7, <2>2 DEF Told, Ones
  <2>3. CASE ~(judged /\ probe \in {"ok", "refused", "error"})
    BY <1>6, <1>7, <2>3 DEF Told, Ones
  <2> QED BY <2>1, <2>2, <2>3
<1>10. told \in Circuits /\ Earned(told, args.breaker) /\ told.consecutive = FailuresIn(Append(h, d))
  <2>1. CASE why = "unavailable"
    <3>1. told = Trip(b, "engine_unavailable") /\ Ones(Lost1(d)) = 0
      BY <1>6, <2>1 DEF Ones
    <3> HIDE DEF told
    <3>2. told.consecutive = b.consecutive /\ told \in Circuits /\ Earned(told, args.breaker)
      BY <1>3, <1>8, <3>1, TripCounts
    <3> QED BY <1>8, <1>9, <3>1, <3>2
  <2>2. CASE why = "exception"
    <3>1. told = CircuitRecord(b, FALSE, args.breaker) /\ Ones(Lost1(d)) = 1
      BY <1>6, <2>2 DEF Ones
    <3> HIDE DEF told
    <3>2. told.consecutive = b.consecutive + 1 /\ told \in Circuits /\ Earned(told, args.breaker)
      BY <1>3, <1>8, <3>1, FailureCounts
    <3> QED BY <1>8, <1>9, <3>1, <3>2
  <2>3. CASE why \notin {"unavailable", "exception"}
    <3>1. told = b /\ Ones(Lost1(d)) = 0
      BY <1>6, <2>3 DEF Ones
    <3> HIDE DEF told
    <3> QED BY <1>8, <1>9, <3>1
  <2> QED BY <2>1, <2>2, <2>3
<1> HIDE DEF told
<1>11. Counts(told, Append(h, d), judged', probe', args.breaker)
  BY <1>1, <1>10 DEF Counts, Told
<1> QED BY <1>1, <1>4, <1>7, <1>11, MineMoves DEF InSession, Runs

LEMMA NextCircuit ==
  PlanInv /\ SeatInv /\ AnswerInv /\ AnswerInv' /\ CircuitInv /\ [Next]_vars => CircuitInv'
<1> SUFFICES ASSUME PlanInv, SeatInv, AnswerInv, AnswerInv', CircuitInv, [Next]_vars PROVE CircuitInv'
  OBVIOUS
<1>0. args' = args
  BY PlanKept
<1>1. CASE Start \/ Draw \/ JudgeProbe \/ Close
  BY <1>1, StartCircuit, DrawCircuit, JudgeProbeCircuit, CloseCircuit
<1>2. CASE Restart
  BY <1>2 DEF Restart, Renewed, CircuitInv, InSession
<1>3. CASE HeadTakes
  <2>1. /\ pc = "head" /\ ~judged /\ judged' = judged /\ history' = history /\ breakers' = breakers
        /\ pc' = "head" \/ (at' = Head(work) /\ ~Tripped(breakers[Head(work).cell]))
    BY <1>3 DEF HeadTakes, AnswerInv
  <2>2. ASSUME NEW c \in DOMAIN history'
        PROVE  /\ history'[c] \in Seq(Fates')
               /\ Counts(breakers'[c], history'[c], judged' /\ c = at'.cell, probe', args'.breaker)
    <3>1. Fates' = Fates
      BY <1>0, FatesKept
    <3> QED BY <1>0, <2>1, <3>1 DEF CircuitInv, Counts, Told
  <2> QED BY <2>1, <2>2 DEF CircuitInv, InSession
<1>4. CASE LadderPreflight \/ Leave \/ HeadEnds \/ Crash
  BY <1>0, <1>4, CircuitKept
  DEF LadderPreflight, Leave, HeadEnds, Crash, Runs, InSession
<1>5. CASE Open \/ OpenFails \/ OpenPage \/ Visit \/ SendQuery \/ FetchRaises \/ Interrupt
  BY <1>0, <1>5, CircuitKept
  DEF Open, OpenFails, OpenPage, Visit, SendQuery, FetchRaises, Interrupt, Runs, InSession
<1>6. CASE CheckDirect
  <2>1. /\ pc = "direct" /\ at' = at /\ history' = history /\ probe' = probe /\ judged' = judged
    BY <1>6 DEF CheckDirect
  <2>2. CASE pc' = "page" /\ breakers' = breakers
    BY <1>0, <2>1, <2>2, CircuitKept DEF Runs, InSession
  <2>3. CASE pc' = "close" /\ breakers' = TrippedFor("went_direct")
    <3> DEFINE b == breakers[at.cell]
               h == history[at.cell]
    <3>1. /\ at.cell \in DOMAIN history /\ h \in Seq(Fates) /\ Counts(b, h, judged, probe, args.breaker)
          /\ args.breaker \in Int
      BY <2>1, MineIs DEF InSession
    <3>2. MineOnly(Trip(b, "went_direct"), h)
      <4>1. DOMAIN history = DOMAIN breakers /\ at.cell \in DOMAIN breakers
        BY <2>1, MineIs DEF InSession
      <4> QED BY <2>1, <2>3, <3>1, <4>1 DEF TrippedFor, MineOnly
    <3> HIDE DEF b, h
    <3>3. Counts(Trip(b, "went_direct"), h, judged', probe', args.breaker)
      BY <2>1, <3>1, TripCounts DEF Counts
    <3> QED BY <1>0, <2>1, <2>3, <3>1, <3>2, <3>3, MineMoves DEF Runs, InSession
  <2> QED BY <1>6, <2>2, <2>3 DEF CheckDirect
<1>7. CASE OnRow
  <2>1. /\ pc = "row" /\ at' = at /\ history' = history /\ breakers' = breakers /\ judged' = judged
        /\ ~judged /\ pc' \in {"walk", "judge", "close"}
    BY <1>7 DEF OnRow, AfterRow, AnswerInv
  <2> QED BY <1>0, <2>1, CircuitKept DEF Runs, InSession
<1>8. CASE Move \/ AskToStop \/ Age \/ Done \/ UNCHANGED vars
  BY <1>0, <1>8, CircuitKept DEF Move, AskToStop, Age, Done, vars
<1> QED
  BY <1>1, <1>2, <1>3, <1>4, <1>5, <1>6, <1>7, <1>8 DEF Next, Process, Around

\* A cell is stopped for failures when, and only when, as many as --breaker
\* came in a row on its own draws, whatever --breaker is; a probe that never
\* reached its target is not one, a session lost to an exception is, and no
\* draw is lost to the count (probe_and_hold.py, main; circuit.py).
THEOREM StopsEarned == Spec => []StopsAreEarned
<1>1. Init => PlanInv /\ SeatInv /\ AnswerInv /\ CircuitInv
  <2>1. Init => PlanInv
    BY DEF Init, PlanInv
  <2>2. Init => CircuitInv
    BY DEF Init, Fresh, CircuitInv, InSession
  <2> QED BY <2>1, <2>2, InitSeat, InitAnswer
<1>2. PlanInv /\ SeatInv /\ AnswerInv /\ CircuitInv /\ [Next]_vars
        => PlanInv' /\ SeatInv' /\ AnswerInv' /\ CircuitInv'
  <2>1. PlanInv /\ [Next]_vars => PlanInv'
    BY PlanKept DEF PlanInv
  <2> QED BY <2>1, NextSeat, NextAnswer, NextCircuit
<1>3. SeatInv /\ AnswerInv /\ CircuitInv => StopsAreEarned
  <2> SUFFICES ASSUME SeatInv, AnswerInv, CircuitInv, pc \in {"head", "draw", "over", "done"},
                      NEW c \in DOMAIN history
               PROVE  /\ breakers[c].reason = "failures" => FailuresInARow(c) >= args.breaker
                      /\ ~Tripped(breakers[c]) => FailuresInARow(c) = 0 \/ FailuresInARow(c) < args.breaker
    BY DEF StopsAreEarned
  <2>1. Counts(breakers[c], history[c], FALSE, probe, args.breaker)
    BY DEF CircuitInv, AnswerInv
  <2>2. breakers[c].consecutive = FailuresInARow(c)
    BY <2>1 DEF Counts, Told, FailuresInARow
  <2> QED BY <2>1, <2>2 DEF Counts, Earned
<1> QED BY <1>1, <1>2, <1>3, PTL DEF Spec
----------------------------------------------------------------------------
(* What the variables are, that the other invariants do not say.           *)

Codes == {NotExited, 0, 1, 2, ExitStopped, Interrupted}
Inerts == [blank : 0..InertLimit, landed : BOOLEAN, tripped : BOOLEAN]
Watched(w) == w.tripped \in BOOLEAN
RowsInv ==
  /\ \E V : rows \in Seq(V)
  /\ \A i \in DOMAIN rows : rows[i].cell \in DOMAIN cells /\ rows[i].phase \in Phases
KindsInv ==
  /\ pc \in Places /\ code \in Codes
  /\ RowsInv
  /\ watch.tripped \in BOOLEAN /\ inert \in Inerts
  /\ row.verdict \in Verdicts \cup {"none", "warm_visit"}
  /\ row.planned \in Nat /\ row.done \in Nat
  /\ meter.moved <= Traffic
  /\ stopfile \in BOOLEAN /\ ladder.attempts <= Retries + 1

LEMMA InitKinds == Init => KindsInv
<1> SUFFICES ASSUME Init PROVE KindsInv
  OBVIOUS
<1>1. /\ pc \in {"ladder", "start"} /\ code = NotExited /\ rows = <<>> /\ watch = NewWatch
      /\ inert = NewInert /\ row = NoRow /\ meter = NewMeter /\ stopfile = FALSE
      /\ ladder.attempts = 0
  BY DEF Init, Fresh
<1>2. RowsInv
  BY <1>1 DEF RowsInv
<1>3. inert \in Inerts
  BY <1>1, InertAssumption DEF NewInert, Inerts
<1>4. /\ NoRow.verdict = "none" /\ NoRow.planned = 0 /\ NoRow.done = 0 /\ NewMeter.moved = 0
      /\ NewWatch.tripped = FALSE
  BY DEF NoRow, NewMeter, NewWatch
<1>5. ladder.attempts <= Retries + 1 /\ meter.moved <= Traffic
  <2>1. 0 <= Retries + 1 /\ 0 <= Traffic
    BY LadderAssumption
  <2> QED BY <1>1, <1>4, <2>1
<1>6. pc \in Places /\ code \in Codes
  BY <1>1 DEF Places, Codes
<1>7. row.verdict \in Verdicts \cup {"none", "warm_visit"} /\ row.planned \in Nat /\ row.done \in Nat
  BY <1>1, <1>4
<1>8. watch.tripped \in BOOLEAN /\ stopfile \in BOOLEAN
  BY <1>1, <1>4
<1> QED BY <1>2, <1>3, <1>5, <1>6, <1>7, <1>8 DEF KindsInv

LEMMA PreflightCodes == \A plan : Preflight(plan) \in {0, 1, 2}
<1> QED BY DEF Preflight

\* A watch records, one trips.
LEMMA WatchIs == \A w, cell, o : Watched(w) => Watched(WatchRecord(w, cell, o))
<1> QED BY ZenonT(60) DEF WatchRecord, Watched
LEMMA InertIs ==
  ASSUME NEW w \in Inerts, row.planned \in Nat, row.done \in Nat
  PROVE  InertRecord(w) \in Inerts
<1>1. /\ w.blank \in 0..InertLimit /\ w.landed \in BOOLEAN /\ w.tripped \in BOOLEAN
      /\ InertLimit \in Nat
  BY InertAssumption DEF Inerts
<1> DEFINE n == IF w.blank < InertLimit THEN w.blank + 1 ELSE w.blank
           t == w.tripped \/ (~w.landed /\ w.blank + 1 >= InertLimit)
<1>2. n \in 0..InertLimit /\ t \in BOOLEAN
  BY <1>1
<1>3. CASE row.phase # "warm" \/ row.planned = 0
  BY <1>3 DEF InertRecord
<1>4. CASE row.phase = "warm" /\ row.planned > 0 /\ row.done > 0
  <2>1. InertRecord(w) = [w EXCEPT !.landed = TRUE]
    BY <1>4 DEF InertRecord
  <2> QED BY <2>1 DEF Inerts
<1>5. CASE row.phase = "warm" /\ row.planned > 0 /\ row.done = 0
  <2>1. InertRecord(w) = [w EXCEPT !.blank = n, !.tripped = t]
    BY <1>5 DEF InertRecord
  <2> HIDE DEF n, t
  <2> QED BY <1>2, <2>1 DEF Inerts
<1> QED BY <1>3, <1>4, <1>5

\* What is to be done on a page is a list of kinds.
LEMMA ActionsAre ==
  ASSUME NEW target, Acted(target.actions), NEW page, NEW kinds
  PROVE  ActionsFor(target, page, kinds) \in Seq(ActionKinds)
<1>1. CASE page \in DOMAIN target.actions
  <2> DEFINE list == target.actions[page]
             T == {i \in DOMAIN list : list[i] \in kinds}
  <2>1. list \in Seq(ActionKinds)
    BY <1>1 DEF Acted
  <2>2. Picked(list, T) \in Seq(ActionKinds)
    <3>1. \A i \in 1..Len(list) : list[i] \in ActionKinds
      BY <2>1, ElementOfSeq
    <3> HIDE DEF list, T
    <3> QED BY <2>1, <3>1, PickedIn
  <2>3. ActionsFor(target, page, kinds) \in {<<>>, Picked(list, T)}
    BY <1>1 DEF ActionsFor, Select
  <2>4. <<>> \in Seq(ActionKinds)
    BY EmptySeq
  <2> HIDE DEF list, T
  <2> QED BY <2>2, <2>3, <2>4
<1>2. CASE page \notin DOMAIN target.actions
  BY <1>2 DEF ActionsFor
<1> QED BY <1>1, <1>2

LEMMA OnRowKinds == PlanInv /\ SeatInv /\ AnswerInv /\ KindsInv /\ OnRow => KindsInv'
<1> SUFFICES ASSUME PlanInv, SeatInv, AnswerInv, KindsInv, OnRow PROVE KindsInv'
  OBVIOUS
<1>1. /\ pc = "row" /\ pc' \in {"walk", "judge", "close"} /\ code' = code /\ row' = NoRow
      /\ stopfile' = stopfile /\ ladder' = ladder /\ cells' = cells
      /\ rows' = Append(rows, Column) /\ watch' = WatchRecord(watch, at.cell, WatchOutcome)
      /\ inert' \in {inert, InertRecord(inert)}
      /\ meter' = [meter EXCEPT !.at = meter.moved, !.counted = meter.counted + row.bytes]
  BY DEF OnRow, AfterRow, Snapshot
<1>2. NoRow.verdict = "none" /\ NoRow.planned = 0 /\ NoRow.done = 0
  BY DEF NoRow
<1>3. watch'.tripped \in BOOLEAN /\ inert' \in Inerts
  BY <1>1, WatchIs, InertIs DEF KindsInv, Watched
<1>4. RowsInv'
  <2>1. PICK V : rows \in Seq(V)
    BY DEF KindsInv, RowsInv
  <2>2. Column.cell = at.cell /\ Column.phase = row.phase
    BY DEF Column
  <2>3. at.cell \in DOMAIN cells /\ row.phase \in Phases
    BY <1>1, InHand DEF AnswerInv, RowInv, InSession
  <2> DEFINE U == V \cup {Column}
             new == Column
  <2>4. rows \in Seq(U) /\ new \in U
    BY <2>1, SeqMonotonic
  <2> HIDE DEF U
  <2>40. new.cell \in DOMAIN cells /\ new.phase \in Phases
    BY <2>2, <2>3
  <2> HIDE DEF new
  <2>5. /\ Append(rows, new) \in Seq(U) /\ DOMAIN Append(rows, new) = 1..(Len(rows) + 1)
        /\ Len(rows) \in Nat /\ DOMAIN rows = 1..Len(rows)
        /\ \A i \in 1..Len(rows) : Append(rows, new)[i] = rows[i]
        /\ Append(rows, new)[Len(rows) + 1] = new
    BY <2>4, AppendProperties, LenProperties
  <2>6. rows' = Append(rows, new)
    BY <1>1 DEF new
  <2>7. \A i \in DOMAIN rows' : rows'[i].cell \in DOMAIN cells /\ rows'[i].phase \in Phases
    <3> SUFFICES ASSUME NEW i \in DOMAIN rows'
                 PROVE  rows'[i].cell \in DOMAIN cells /\ rows'[i].phase \in Phases
      OBVIOUS
    <3>1. CASE i \in DOMAIN rows
      BY <2>5, <2>6, <3>1 DEF KindsInv, RowsInv
    <3>2. CASE i = Len(rows) + 1
      BY <2>40, <2>5, <2>6, <3>2
    <3>3. i \in 1..(Len(rows) + 1)
      BY <2>5, <2>6
    <3>4. i \in DOMAIN rows \/ i = Len(rows) + 1
      BY <2>5, <3>3
    <3> QED BY <3>1, <3>2, <3>4
  <2> QED BY <1>1, <2>5, <2>6, <2>7 DEF RowsInv
<1>5. meter'.moved <= Traffic
  BY <1>1 DEF KindsInv
<1> QED BY <1>1, <1>2, <1>3, <1>4, <1>5 DEF KindsInv, Places

LEMMA VisitKinds == PlanInv /\ SeatInv /\ KindsInv /\ Visit => KindsInv'
<1> SUFFICES ASSUME PlanInv, SeatInv, KindsInv, Visit PROVE KindsInv'
  OBVIOUS
<1>1. /\ pc = "walk" /\ pc' = "row" /\ code' = code /\ rows' = rows /\ cells' = cells /\ watch' = watch
      /\ inert' = inert /\ meter' = meter /\ stopfile' = stopfile /\ ladder' = ladder
  BY DEF Visit
<1>2. Acted(TargetOf.actions)
  BY <1>1, InHand, TargetsAre DEF TargetFacts, TargetOf, InSession
<1>3. PICK actions \in Seq(ActionKinds) :
        \E done \in Landings(actions) :
          row'.verdict = "warm_visit" /\ row'.planned = Len(actions) /\ row'.done = done
  <2>1. PICK actions :
          /\ \/ actions = <<>>
             \/ actions = ActionsFor(TargetOf, Planned[walk.page], KindsOf(Cell))
          /\ \E done \in Landings(actions) :
               row'.verdict = "warm_visit" /\ row'.planned = Len(actions) /\ row'.done = done
    BY DEF Visit, NoRow
  <2>2. actions \in Seq(ActionKinds)
    BY <1>2, <2>1, ActionsAre, EmptySeq
  <2> QED BY <2>1, <2>2
<1>40. PICK done \in Landings(actions) :
          row'.verdict = "warm_visit" /\ row'.planned = Len(actions) /\ row'.done = done
  BY <1>3
<1>4. Len(actions) \in Nat /\ done \in Nat
  BY LenProperties DEF Landings
<1> QED BY <1>1, <1>40, <1>4 DEF KindsInv, RowsInv, Places

LEMMA NextKinds ==
  PlanInv /\ SeatInv /\ AnswerInv /\ MeterInv /\ EndedInv /\ KindsInv /\ [Next]_vars => KindsInv'
<1> SUFFICES ASSUME PlanInv, SeatInv, AnswerInv, MeterInv, EndedInv, KindsInv, [Next]_vars
             PROVE  KindsInv'
  OBVIOUS
<1>0. cells' = cells
  BY PlanKept
<1>1. CASE Visit \/ OnRow
  BY <1>1, VisitKinds, OnRowKinds
<1>2. CASE LadderPreflight
  <2>1. /\ pc' \in {"done", "start"} /\ code' \in {code, 0, 2} /\ pc = "ladder"
        /\ ladder' = ladder \/ ladder' = [ladder EXCEPT !.attempts = @ + 1]
        /\ rows' = rows /\ watch' = watch /\ inert' = inert /\ row' = row /\ meter' = meter
        /\ stopfile' = stopfile
    BY <1>2 DEF LadderPreflight
  <2>2. ladder.attempts = 0 /\ "attempts" \in DOMAIN ladder
    BY <2>1 DEF EndedInv
  <2>3. ladder'.attempts \in {0, 1}
    BY <2>1, <2>2
  <2>4. ladder'.attempts <= Retries + 1
    BY <2>3, LadderAssumption
  <2> QED BY <1>0, <2>1, <2>4 DEF KindsInv, RowsInv, Places, Codes
<1>3. CASE Restart
  <2>1. /\ pc' = "start" /\ code' = NotExited /\ rows' = <<>> /\ watch' = NewWatch /\ inert' = NewInert
        /\ row' = NoRow /\ meter' = NewMeter /\ stopfile' = stopfile
        /\ ladder'.attempts = ladder.attempts + 1 /\ ladder.attempts <= Retries
    BY <1>3 DEF Restart, Renewed, MayRestart
  <2>2. RowsInv'
    BY <2>1 DEF RowsInv
  <2>3. inert' \in Inerts
    BY <2>1, InertAssumption DEF NewInert, Inerts
  <2>4. /\ NoRow.verdict = "none" /\ NoRow.planned = 0 /\ NoRow.done = 0 /\ NewMeter.moved = 0
        /\ NewWatch.tripped = FALSE
    BY DEF NoRow, NewMeter, NewWatch
  <2>5. ladder'.attempts <= Retries + 1 /\ meter'.moved <= Traffic
    <3>1. ladder.attempts \in Nat /\ ladder.attempts + 1 <= Retries + 1 /\ 0 <= Traffic
      BY <2>1, LadderAssumption DEF EndedInv
    <3> QED BY <2>1, <2>4, <3>1
  <2>6. pc' \in Places /\ code' \in Codes
    BY <2>1 DEF Places, Codes
  <2>7. /\ row'.verdict \in Verdicts \cup {"none", "warm_visit"}
        /\ row'.planned \in Nat /\ row'.done \in Nat
    BY <2>1, <2>4
  <2>8. watch'.tripped \in BOOLEAN /\ stopfile' \in BOOLEAN
    BY <2>1, <2>4 DEF KindsInv
  <2> QED BY <2>2, <2>3, <2>5, <2>6, <2>7, <2>8 DEF KindsInv
<1>4. CASE Leave \/ Start \/ HeadEnds \/ HeadTakes \/ Draw \/ Crash
  <2>1. /\ pc' \in Places /\ code' \in {code, 0, 1, ExitStopped, Preflight(args)} /\ rows' = rows
        /\ watch' = watch /\ inert' = inert /\ row' = row /\ meter' = meter /\ stopfile' = stopfile
        /\ ladder' = ladder
    BY <1>4 DEF Leave, Start, HeadEnds, HeadTakes, Draw, Crash, Places, KindsInv
  <2>2. code' \in Codes
    BY <2>1, PreflightCodes DEF KindsInv, Codes
  <2> QED BY <1>0, <2>1, <2>2 DEF KindsInv, RowsInv
<1>5. CASE Open \/ OpenFails \/ CheckDirect \/ FetchRaises \/ JudgeProbe \/ Interrupt
  <2>1. /\ pc' \in Places /\ code' = code /\ rows' = rows
        /\ watch' = watch /\ inert' = inert /\ row' = row /\ meter' = meter /\ stopfile' = stopfile
        /\ ladder' = ladder
    BY <1>5 DEF Open, OpenFails, CheckDirect, FetchRaises, JudgeProbe, Interrupt, Places
  <2> QED BY <1>0, <2>1 DEF KindsInv, RowsInv
<1>6. CASE OpenPage \/ Close
  <2>1. /\ pc' \in Places /\ code' \in {code, ExitStopped, Interrupted, 0} /\ rows' = rows
        /\ watch' = watch /\ inert' = inert /\ row' = row /\ meter' = NewMeter /\ stopfile' = stopfile
        /\ ladder' = ladder
    BY <1>6 DEF OpenPage, Close, Places
  <2>2. code' \in Codes
    BY <2>1 DEF KindsInv, Codes
  <2>3. meter'.moved <= Traffic
    <3>1. NewMeter.moved = 0 /\ 0 <= Traffic
      BY LadderAssumption DEF NewMeter
    <3> QED BY <2>1, <3>1
  <2> QED BY <1>0, <2>1, <2>2, <2>3 DEF KindsInv, RowsInv
<1>7. CASE SendQuery
  <2>1. /\ pc = "walk" /\ pc' \in {"row", "close"} /\ code' = code /\ rows' = rows
        /\ watch' = watch /\ inert' = inert /\ meter' = meter /\ stopfile' = stopfile /\ ladder' = ladder
    BY <1>7 DEF SendQuery
  <2>2. /\ row'.verdict \in Verdicts \cup {"none", "warm_visit"}
        /\ row'.planned \in Nat /\ row'.done \in Nat
    <3>1. CASE Refuses
      BY <1>7, <3>1 DEF SendQuery, KindsInv
    <3>2. CASE ~Refuses
      <4>1. PICK result \in Results :
              row'.verdict = result.verdict /\ row'.planned = 0 /\ row'.done = 0
        BY <1>7, <3>2, SendQueryIs
      <4>2. Replied(result)
        BY <2>1, ResultsAre DEF InSession, AnswerInv
      <4> QED BY <4>1, <4>2 DEF Replied
    <3> QED BY <3>1, <3>2
  <2> QED BY <1>0, <2>1, <2>2 DEF KindsInv, RowsInv, Places
<1>8. CASE Move
  <2>1. /\ pc' = pc /\ code' = code /\ rows' = rows /\ row' = row
        /\ watch' = watch /\ inert' = inert /\ stopfile' = stopfile /\ ladder' = ladder
        /\ meter.moved < Traffic /\ meter'.moved = meter.moved + 1
    BY <1>8 DEF Move, MeterInv, Readings
  <2>2. meter'.moved <= Traffic
    <3>1. meter.moved \in Nat
      BY DEF MeterInv, Readings
    <3> QED BY <2>1, <3>1, LadderAssumption
  <2> QED BY <1>0, <2>1, <2>2 DEF KindsInv, RowsInv
<1>9. CASE AskToStop \/ Age \/ Done \/ UNCHANGED vars
  <2>1. /\ pc' = pc /\ code' = code /\ rows' = rows /\ row' = row /\ meter' = meter
        /\ watch' = watch /\ inert' = inert /\ stopfile' \in {stopfile, TRUE}
        /\ ladder'.attempts = ladder.attempts
    <3>1. CASE AskToStop \/ Done \/ UNCHANGED vars
      BY <3>1 DEF AskToStop, Done, vars
    <3>2. CASE Age
      BY <3>2 DEF Age, EndedInv
    <3> QED BY <1>9, <3>1, <3>2
  <2> QED BY <1>0, <2>1 DEF KindsInv, RowsInv
<1> QED
  BY <1>1, <1>2, <1>3, <1>4, <1>5, <1>6, <1>7, <1>8, <1>9 DEF Next, Process, Around

\* The variables hold what the code puts in them, for every plan: the slot in
\* hand is of a cell of the plan, a row has a verdict of the target's, an exit
\* code is one of the documented (probe_and_hold.py and run_ladder.py).
THEOREM TypeCorrect == Spec => []TypeOK
<1> DEFINE All == /\ PlanInv /\ SeatInv /\ HeldInv /\ AnswerInv /\ MeterInv /\ WorkInv /\ EndedInv
                  /\ KindsInv
<1>1. Init => All
  <2>1. Init => PlanInv /\ HeldInv
    BY DEF Init, Fresh, PlanInv, HeldInv
  <2> QED
    BY <2>1, InitSeat, InitAnswer, InitMeter, InitWork, InitEnded, InitKinds
<1>2. All /\ [Next]_vars => All'
  BY NextPlan, NextSeat, NextHeld, NextAnswer, NextMeter, NextWork, NextEnded, NextKinds
<1>3. All => TypeOK
  <2> SUFFICES ASSUME All PROVE TypeOK
    OBVIOUS
  <2>1. \A s \in ToSet(work) :
          s.round \in Rounds /\ s.cell \in DOMAIN cells /\ s.redraw \in {0} \cup (1..args.redraws)
    <3>1. \A s \in Slots :
            s.round \in Rounds /\ s.cell \in DOMAIN cells /\ s.redraw \in {0} \cup (1..args.redraws)
      BY DEF Slots
    <3>2. ToSet(work) \subseteq Slots
      BY DEF SeatInv, ToSet
    <3> QED BY <3>1, <3>2
  <2>2. ladder.attempts \in 0..(Retries + 1)
    BY LadderAssumption DEF KindsInv, EndedInv
  <2>3. meter.moved \in 0..Traffic
    BY LadderAssumption DEF KindsInv, MeterInv, Readings
  <2>4. held # {} => pc \in {"direct", "page", "walk", "row", "judge", "close"}
    BY DEF HeldInv, InSession
  <2>5. inert.blank \in 0..InertLimit
    BY DEF KindsInv, Inerts
  <2>6. walk.delivered \in Nat /\ judged \in BOOLEAN /\ tab.shows \in Shows
    BY DEF AnswerInv, Walks
  <2>7. spent \in Nat /\ DOMAIN breakers \in {{}, DOMAIN cells} /\ DOMAIN history = DOMAIN breakers
    BY DEF SeatInv, WorkInv
  <2> QED BY <2>1, <2>2, <2>3, <2>4, <2>5, <2>6, <2>7 DEF TypeOK, KindsInv, Codes, RowsInv
<1> HIDE DEF All
<1> QED BY <1>1, <1>2, <1>3, PTL DEF Spec
----------------------------------------------------------------------------
(* What a target's rules make of the pages it answers with.                *)

Oks(rules) == {i \in DOMAIN rules : rules[i].verdict = "ok"}
Furniture == {"body", "noscript", "consent.google.com"}
\* No mark of a served page is on another page, and the first rule that a
\* served page meets is the one it is meant for.
Plain(rules) ==
  /\ \A i \in Oks(rules) : rules[i].marks \cap (Furniture \cup {"enablejs"}) = {}
  /\ \A i \in Oks(rules), j \in DOMAIN rules :
       rules[j].verdict = "captcha" => rules[i].marks \cap rules[j].marks = {}
  /\ Oks(rules) # {} =>
       \E k \in Oks(rules) :
         /\ rules[k].marks # {}
         /\ \A j \in DOMAIN rules :
              j < k => /\ rules[j].marks \cap Furniture = {}
                       /\ \A i \in Oks(rules) : rules[i].marks \cap rules[j].marks = {}

LEMMA MarksAre ==
  \A rules, verdict, mark :
    mark \in MarksOf(rules, verdict) <=>
      \E j \in DOMAIN rules : rules[j].verdict = verdict /\ mark \in rules[j].marks
<1> QED BY DEF MarksOf

LEMMA OkPages ==
  ASSUME NEW target, Ruled(target.rules, RowVerdicts), Plain(target.rules), NEW kind \in Kinds,
         Judge(target.rules, Page(target, kind)) = "ok"
  PROVE  HasResults(kind)
<1> SUFFICES ASSUME ~HasResults(kind) PROVE FALSE
  OBVIOUS
<1> DEFINE rules == target.rules
           page == Page(target, kind)
           hits == Matching(rules, page)
<1>1. "body" \in page /\ hits # {}
  BY DEF Judge
<1>2. page \subseteq Furniture \cup {"enablejs"} \cup MarksOf(rules, "captcha")
  BY DEF Page, Kinds, HasResults, Furniture, WallPage
<1>3. hits \subseteq Nat /\ hits \subseteq DOMAIN rules
  BY DEF Matching, Ruled
<1>4. \E i \in hits : \A j \in hits : i <= j
  <2> HIDE DEF hits
  <2> QED BY <1>1, <1>3, Least
<1>5. PICK k \in hits : rules[k].verdict = "ok"
  <2> DEFINE k == CHOOSE i \in hits : \A j \in hits : i <= j
  <2>1. Judge(rules, page) = rules[k].verdict
    BY <1>1 DEF Judge
  <2>2. k \in hits
    BY <1>4
  <2> QED BY <2>1, <2>2
<1>6. PICK mark : mark \in rules[k].marks /\ mark \in page
  BY DEF Matching
<1>7. k \in Oks(rules)
  BY <1>3, <1>5 DEF Oks
<1>8. mark \notin Furniture \cup {"enablejs"}
  BY <1>6, <1>7 DEF Plain
<1>9. PICK j \in DOMAIN rules : rules[j].verdict = "captcha" /\ mark \in rules[j].marks
  BY <1>2, <1>6, <1>8, MarksAre
<1> QED BY <1>6, <1>7, <1>9 DEF Plain

LEMMA OkRead ==
  ASSUME NEW target, Ruled(target.rules, RowVerdicts), Plain(target.rules),
         MarksOf(target.rules, "ok") # {}, NEW kind, HasResults(kind)
  PROVE  Judge(target.rules, Page(target, kind)) = "ok"
<1> DEFINE rules == target.rules
           page == Page(target, kind)
           hits == Matching(rules, page)
<1>1. Oks(rules) # {}
  BY MarksAre DEF Oks
<1>2. PICK k \in Oks(rules) :
         /\ rules[k].marks # {}
         /\ \A j \in DOMAIN rules :
              j < k => /\ rules[j].marks \cap Furniture = {}
                       /\ \A i \in Oks(rules) : rules[i].marks \cap rules[j].marks = {}
  BY <1>1 DEF Plain
<1>3. /\ page \subseteq Furniture \cup MarksOf(rules, "ok")
      /\ "body" \in page /\ MarksOf(rules, "ok") \subseteq page
  BY DEF Page, HasResults, Furniture
<1>4. rules[k].marks \subseteq MarksOf(rules, "ok") /\ k \in DOMAIN rules /\ rules[k].verdict = "ok"
  BY MarksAre DEF Oks
<1>5. k \in hits
  BY <1>2, <1>3, <1>4 DEF Matching
<1>6. \A j \in DOMAIN rules : j < k => j \notin hits
  <2> SUFFICES ASSUME NEW j \in DOMAIN rules, j < k, j \in hits PROVE FALSE
    OBVIOUS
  <2>1. PICK mark : mark \in rules[j].marks /\ mark \in page
    BY DEF Matching
  <2>2. mark \notin Furniture
    BY <1>2, <2>1
  <2>3. PICK i \in DOMAIN rules : rules[i].verdict = "ok" /\ mark \in rules[i].marks
    BY <1>3, <2>1, <2>2, MarksAre
  <2> QED BY <1>2, <2>1, <2>3 DEF Oks
<1>7. hits \subseteq DOMAIN rules /\ DOMAIN rules \subseteq Nat
  BY DEF Matching, Ruled
<1>8. (CHOOSE i \in hits : \A j \in hits : i <= j) = k
  <2> HIDE DEF hits
  <2>1. \A j \in hits : k <= j
    BY <1>4, <1>6, <1>7
  <2>2. \A i \in hits : (\A j \in hits : i <= j) => i = k
    BY <1>4, <1>5, <1>7, <2>1
  <2> QED BY <1>5, <2>1, <2>2
<1> QED BY <1>3, <1>4, <1>5, <1>8 DEF Judge

LEMMA RulesArePlain == \A name \in TargetNames : Plain(TARGETS[name].rules)
<1> USE DEF Rule, Furniture, Plain, Oks
<1>1. Plain(IpInfoRules)
  BY DEF IpInfoRules
<1>2. Plain(GoogleRules)
  BY DEF GoogleRules
<1>3. Plain(DuckDuckGoRules)
  BY DEF DuckDuckGoRules
<1>4. Plain(BingRules)
  BY DEF BingRules
<1>5. Plain(AmazonRules)
  BY DEF AmazonRules
<1>6. Plain(WalmartRules)
  BY DEF WalmartRules
<1>7. Plain(MapsRules)
  BY DEF MapsRules
<1>8. Plain(LazadaRules)
  BY DEF LazadaRules
<1>9. Plain(ShopeeRules)
  BY DEF ShopeeRules
<1> HIDE DEF Plain
<1> QED
  BY <1>1, <1>2, <1>3, <1>4, <1>5, <1>6, <1>7, <1>8, <1>9
  DEF TARGETS, TargetNames, Target, IpInfo, GoogleSerp, DuckDuckGoSerp, BingSerp, AmazonSearch, WalmartSearch,
      GoogleMapsSearch, LazadaSearch, ShopeeSearch
----------------------------------------------------------------------------
(* A row says what happened: its verdict against the results it stands     *)
(* for.                                                                    *)

\* `loose` is the two ways an answer may be served and not be its own.
Telling(result, target, loose) ==
  /\ result.verdict = "ok" => result.own \/ loose
  /\ result.own /\ MarksOf(target.rules, "ok") # {} => result.verdict = "ok"

LEMMA JudgedTells ==
  ASSUME NEW target, Ruled(target.rules, RowVerdicts), Plain(target.rules), NEW kind \in Kinds,
         NEW shown, NEW position, NEW loose \in BOOLEAN, shown.box = <<position>> \/ loose
  PROVE  Telling(Judged(target, kind, shown, position), target, loose)
<1> DEFINE v == Judge(target.rules, Page(target, kind))
           o == HasResults(kind) /\ shown.box = <<position>>
<1>1. v = "ok" => HasResults(kind)
  BY OkPages
<1>2. HasResults(kind) /\ MarksOf(target.rules, "ok") # {} => v = "ok"
  BY OkRead
<1>3. Judged(target, kind, shown, position).verdict = v /\ Judged(target, kind, shown, position).own = o
  BY DEF Judged
<1> HIDE DEF v
<1> QED BY <1>1, <1>2, <1>3 DEF Telling

LEMMA FailedTells ==
  \A target, loose, error, shown, body : Telling(Failed(error, shown, body), target, loose)
<1> QED BY DEF Telling, Failed

LEMMA StaleTells ==
  \A target, shown : Telling(Stale(target, shown), target, TRUE)
<1> QED BY DEF Telling, Stale

\* A box that can be read holds the row's query when it is submitted.
LEMMA TypedIs ==
  ASSUME NEW shown, NEW position, NEW world, NEW box \in SubmitQuery(shown, position, world)
  PROVE  box = <<position>> \/ ~Readable(world)
<1> QED BY DEF SubmitQuery, VerifyBox

Fits(target, world) ==
  Ruled(target.rules, RowVerdicts) /\ Plain(target.rules) /\ world.web \subseteq Kinds

LEMMA RunSearchTells ==
  ASSUME NEW engine, NEW target, NEW world, Fits(target, world), NEW shown, NEW position,
         NEW result \in RunSearch(engine, target, shown, position, world)
  PROVE  Telling(result, target, ~Readable(world))
<1>1. CASE \E why, read : result = Failed(why, shown, read)
  BY <1>1, FailedTells
<1>2. CASE \E kind \in world.web : \E box :
             /\ box = <<position>> \/ ~Readable(world)
             /\ result = Judged(target, kind, Tab("answer", box), position)
  <2>1. PICK kind \in world.web : \E box :
             /\ box = <<position>> \/ ~Readable(world)
             /\ result = Judged(target, kind, Tab("answer", box), position)
    BY <1>2
  <2>2. PICK box :
             /\ box = <<position>> \/ ~Readable(world)
             /\ result = Judged(target, kind, Tab("answer", box), position)
    BY <2>1
  <2>3. kind \in Kinds
    BY DEF Fits
  <2>4. Tab("answer", box).box = <<position>> \/ ~Readable(world)
    BY <2>2 DEF Tab
  <2>5. (~Readable(world)) \in BOOLEAN
    OBVIOUS
  <2> QED BY <2>2, <2>3, <2>4, <2>5, JudgedTells DEF Fits
<1>3. \/ \E why, read : result = Failed(why, shown, read)
      \/ \E kind \in world.web : \E box :
             /\ box = <<position>> \/ ~Readable(world)
             /\ result = Judged(target, kind, Tab("answer", box), position)
  BY TypedIs DEF RunSearch
<1> QED BY <1>1, <1>2, <1>3

LEMMA ZendriverSearchTells ==
  ASSUME NEW engine, NEW target, NEW world, Fits(target, world), NEW shown, NEW position,
         NEW result \in ZendriverSearch(engine, target, shown, position, world)
  PROVE  Telling(result, target, TRUE)
<1>1. CASE \E why, read : result = Failed(why, shown, read)
  BY <1>1, FailedTells
<1>2. CASE \E kind \in world.web : result = Judged(target, kind, Tab("answer", <<position>>), position)
  BY <1>2, JudgedTells DEF Fits
<1>3. CASE \E t : result = Stale(target, t)
  BY <1>3, StaleTells
<1>4. \/ \E why, read : result = Failed(why, shown, read)
      \/ \E kind \in world.web : result = Judged(target, kind, Tab("answer", <<position>>), position)
      \/ \E t : result = Stale(target, t)
  BY DEF ZendriverSearch
<1> QED BY <1>1, <1>2, <1>3, <1>4

LEMMA FetchTells ==
  ASSUME NEW engine, NEW target, NEW world, Fits(target, world), NEW shown, NEW position,
         NEW result \in Fetch(engine, target, shown, position, world)
  PROVE  Telling(result, target, FALSE)
<1>1. CASE \E why, t : result = Failed(why, t, FALSE)
  BY <1>1, FailedTells
<1>2. CASE \E kind \in Kinds : result = Judged(target, kind, Tab("answer", <<position>>), position)
  <2>1. PICK kind \in Kinds : result = Judged(target, kind, Tab("answer", <<position>>), position)
    BY <1>2
  <2>2. Tab("answer", <<position>>).box = <<position>>
    BY DEF Tab
  <2> QED BY <2>1, <2>2, JudgedTells DEF Fits
<1>3. \/ \E why, t : result = Failed(why, t, FALSE)
      \/ \E kind \in Kinds : result = Judged(target, kind, Tab("answer", <<position>>), position)
  <2>1. \A first \in world.web : Behind(engine, target, first, world) \subseteq Kinds
    BY DEF Behind, Fits, Kinds
  <2>2. CASE \E missed : result \in FailedLeaving(engine, LeftBy(missed, shown))
    BY <2>2, Zenon DEF FailedLeaving
  <2>3. CASE result \in {Judged(target, kind, Tab("answer", <<position>>), position) :
                           kind \in UNION {Behind(engine, target, first, world) : first \in world.web}}
    BY <2>1, <2>3, Zenon
  <2> QED BY <2>2, <2>3, Zenon DEF Fetch
<1> QED BY <1>1, <1>2, <1>3

LEMMA SelectedTells ==
  ASSUME PlanInv, SeatInv, pc \in {"draw"} \cup InSession, NEW result \in Results
  PROVE  Telling(result, TargetOf, TypedOnTheTab \/ ~Readable(args))
<1>1. Cell.engine \in EngineNames /\ Cell.target \in TargetNames /\ args \in Plans
  BY InHand DEF PlanInv
<1>2. Fits(TargetOf, args)
  BY <1>1, TargetsAre, RulesArePlain, PlanAssumption DEF Fits, TargetFacts, TargetOf
<1>3. CASE Cell.entry = "home" /\ Engine.session.types = "tab"
  <2>1. result \in ZendriverSearch(Engine, TargetOf, tab, walk.position, args)
    BY <1>3 DEF Results, Search
  <2>2. Telling(result, TargetOf, TRUE)
    BY <1>2, <2>1, ZendriverSearchTells
  <2> QED BY <1>3, <2>2 DEF Telling, TypedOnTheTab
<1>4. CASE Cell.entry = "home" /\ Engine.session.types # "tab"
  <2>1. result \in RunSearch(Engine, TargetOf, tab, walk.position, args)
    BY <1>4 DEF Results, Search
  <2>2. Telling(result, TargetOf, ~Readable(args))
    BY <1>2, <2>1, RunSearchTells
  <2> QED BY <2>2 DEF Telling
<1>5. CASE Cell.entry # "home"
  <2>1. result \in Fetch(Engine, TargetOf, tab, walk.position, args)
    BY <1>5 DEF Results
  <2>2. Telling(result, TargetOf, FALSE)
    BY <1>2, <2>1, FetchTells
  <2> QED BY <2>2 DEF Telling
<1> QED BY <1>3, <1>4, <1>5
----------------------------------------------------------------------------
(* The archive: while the disk holds, as many served pages are written as  *)
(* places of the sample were given away, and no more than there are.       *)

Even(store, keys) ==
  \A key \in keys : store[key].given = store[key].written /\ store[key].given <= SampleOk
ArchiveInv ==
  /\ pc \in {"head", "draw"} \cup InSession => archive \in [Keys -> [given : Nat, written : Nat]]
  /\ ~Goes("disk") => Even(archive, DOMAIN archive)
\* The row in hand.
TrueInv ==
  /\ pc \in {"draw"} \cup InSession => ("shown" \notin Engine.session.misses => walk.delivered = walk.loaded)
  /\ pc = "row" =>
       /\ row.verdict = "ok" => row.own \/ TypedOnTheTab \/ ~Readable(args)
       /\ row.own /\ MarksOf(TargetOf.rules, "ok") # {} => row.verdict = "ok"
       /\ row.planned > 0 => row.error = "none"
       /\ row.body /\ ~row.kept /\ ~Goes("disk") =>
            row.verdict = "ok" /\ archive[Key].written = SampleOk

LEMMA InitArchive == Init => ArchiveInv /\ TrueInv
<1> SUFFICES ASSUME Init PROVE ArchiveInv /\ TrueInv
  OBVIOUS
<1>1. archive = <<>> /\ pc \in {"ladder", "start"} /\ DOMAIN archive = {}
  BY DEF Init, Fresh
<1> QED BY <1>1 DEF ArchiveInv, Even, TrueInv, InSession

LEMMA KeyIs ==
  ASSUME PlanInv, SeatInv, pc \in {"draw"} \cup InSession
  PROVE  Key \in Keys
<1>1. at.cell \in DOMAIN cells
  BY InHand
<1>2. Cell \in ToSet(cells)
  BY <1>1 DEF Cell, ToSet
<1> QED BY <1>2 DEF Key, Keys

LEMMA SavedIs ==
  ASSUME NEW K, NEW store \in [K -> [given : Nat, written : Nat]], NEW key \in K, NEW verdict,
         NEW fits \in BOOLEAN
  PROVE  /\ Saved(store, verdict, key, fits) \in [K -> [given : Nat, written : Nat]]
         /\ fits /\ Even(store, K) => Even(Saved(store, verdict, key, fits), K)
<1>1. CASE verdict \in ALWAYS_KEEP \/ ~Wanted(store, verdict, key)
  BY <1>1 DEF Saved
<1>2. CASE verdict \notin ALWAYS_KEEP /\ Wanted(store, verdict, key)
  <2> DEFINE new == [given |-> store[key].given + 1,
                     written |-> IF fits THEN store[key].written + 1 ELSE store[key].written]
  <2>1. Saved(store, verdict, key, fits) = [store EXCEPT ![key] = new]
    BY <1>2 DEF Saved
  <2>2. store[key] \in [given : Nat, written : Nat] /\ store[key].given < SampleOk /\ SampleOk \in Nat
    BY <1>2, SampleAssumption DEF Wanted
  <2>3. new \in [given : Nat, written : Nat]
    BY <2>2
  <2>4. new.given = store[key].given + 1 /\ (fits => new.written = store[key].written + 1)
    OBVIOUS
  <2> HIDE DEF new
  <2>5. Saved(store, verdict, key, fits) \in [K -> [given : Nat, written : Nat]]
    BY <2>1, <2>3
  <2>6. \A k \in K : Saved(store, verdict, key, fits)[k] = IF k = key THEN new ELSE store[k]
    BY <2>1
  <2> QED BY <2>2, <2>4, <2>5, <2>6 DEF Even
<1> QED BY <1>1, <1>2
----------------------------------------------------------------------------
LEMMA ArchiveKept ==
  ASSUME ArchiveInv, archive' = archive, args' = args, cells' = cells,
         pc' \in {"head", "draw"} \cup InSession => pc \in {"head", "draw"} \cup InSession
  PROVE  ArchiveInv'
<1>1. Keys' = Keys /\ Goes("disk")' = Goes("disk")
  BY DEF Keys, Goes
<1> QED BY <1>1 DEF ArchiveInv, Even

LEMMA TrueKept ==
  ASSUME TrueInv, args' = args, cells' = cells, at' = at, walk' = walk, row' = row, archive' = archive,
         pc' = "row" => pc = "row",
         pc' \in {"draw"} \cup InSession => pc \in {"draw"} \cup InSession
  PROVE  TrueInv'
<1>1. /\ Cell' = Cell /\ Engine' = Engine /\ TargetOf' = TargetOf /\ Key' = Key
      /\ TypedOnTheTab' = TypedOnTheTab /\ Readable(args)' = Readable(args)
      /\ Goes("disk")' = Goes("disk")
  BY DEF Cell, Engine, TargetOf, Key, TypedOnTheTab, Goes, Readable
<1> QED BY <1>1 DEF TrueInv

LEMMA StartArchive == ArchiveInv /\ Start => ArchiveInv'
<1> SUFFICES ASSUME ArchiveInv, Start PROVE ArchiveInv'
  OBVIOUS
<1>1. args' = args /\ cells' = cells /\ Keys' = Keys
  BY DEF Start, Keys
<1>2. CASE archive' = NoBodies(Keys)
  <2>1. archive' \in [Keys' -> [given : Nat, written : Nat]]
    BY <1>1, <1>2 DEF NoBodies
  <2>2. \A key \in DOMAIN archive' : archive'[key].given = 0 /\ archive'[key].written = 0
    BY <1>2 DEF NoBodies
  <2>3. 0 <= SampleOk
    BY SampleAssumption
  <2> QED BY <2>1, <2>2, <2>3 DEF ArchiveInv, Even
<1>3. CASE pc' = "over" /\ archive' = archive
  BY <1>1, <1>3, ArchiveKept DEF InSession
<1> QED BY <1>2, <1>3 DEF Start

LEMMA SendQueryTrue ==
  PlanInv /\ SeatInv /\ ArchiveInv /\ AnswerInv /\ TrueInv /\ SendQuery => ArchiveInv' /\ TrueInv'
<1> SUFFICES ASSUME PlanInv, SeatInv, ArchiveInv, AnswerInv, TrueInv, SendQuery
             PROVE  ArchiveInv' /\ TrueInv'
  OBVIOUS
<1>1. /\ pc = "walk" /\ args' = args /\ cells' = cells /\ at' = at /\ walk' = walk
      /\ pc' \in {"close", "row"}
  BY DEF SendQuery
<1>2. CASE Refuses
  <2>1. pc' = "close" /\ row' = row /\ archive' = archive
    BY <1>2 DEF SendQuery
  <2> QED BY <1>1, <2>1, ArchiveKept, TrueKept DEF InSession
<1>3. CASE ~Refuses
  <2>1. PICK result \in Results, fits \in {TRUE} \cup (IF Goes("disk") THEN {FALSE} ELSE {}) :
          /\ archive' = IF result.body THEN Saved(archive, result.verdict, Key, fits) ELSE archive
          /\ row'.verdict = result.verdict /\ row'.own = result.own /\ row'.body = result.body
          /\ row'.kept = (result.body /\ fits /\ Wanted(archive, result.verdict, Key))
          /\ row'.planned = 0
    BY <1>3, SendQueryIs
  <2>2. /\ Cell' = Cell /\ Engine' = Engine /\ TargetOf' = TargetOf /\ Key' = Key /\ Keys' = Keys
        /\ TypedOnTheTab' = TypedOnTheTab /\ Readable(args)' = Readable(args)
        /\ Goes("disk")' = Goes("disk")
    BY <1>1 DEF Cell, Engine, TargetOf, Key, Keys, TypedOnTheTab, Goes, Readable
  <2>3. Telling(result, TargetOf, TypedOnTheTab \/ ~Readable(args))
    BY <1>1, SelectedTells DEF InSession
  <2>4. Key \in Keys /\ archive \in [Keys -> [given : Nat, written : Nat]]
    BY <1>1, KeyIs DEF InSession, ArchiveInv
  <2>5. fits \in BOOLEAN /\ (~Goes("disk") => fits)
    BY <2>1
  <2>6. ArchiveInv'
    <3>1. CASE archive' = archive
      BY <1>1, <3>1, ArchiveKept DEF InSession
    <3>2. CASE archive' = Saved(archive, result.verdict, Key, fits)
      <4>1. archive' \in [Keys -> [given : Nat, written : Nat]]
        BY <2>4, <2>5, <3>2, SavedIs
        <4>2. fits /\ Even(archive, Keys) => Even(archive', Keys)
          BY <2>4, <2>5, <3>2, SavedIs
      <4>3. DOMAIN archive = Keys /\ DOMAIN archive' = Keys
        BY <2>4, <4>1
      <4> QED BY <2>2, <2>5, <4>1, <4>2, <4>3 DEF ArchiveInv
    <3> QED BY <2>1, <3>1, <3>2
  <2>7. /\ row'.verdict = "ok" => row'.own \/ TypedOnTheTab' \/ ~Readable(args)'
        /\ row'.own /\ MarksOf(TargetOf.rules, "ok")' # {} => row'.verdict = "ok"
    BY <2>1, <2>2, <2>3 DEF Telling
  <2>8. row'.body /\ ~row'.kept /\ ~Goes("disk")' =>
          row'.verdict = "ok" /\ archive'[Key'].written = SampleOk
    <3> SUFFICES ASSUME row'.body, ~row'.kept, ~Goes("disk")
                 PROVE  row'.verdict = "ok" /\ archive'[Key].written = SampleOk
      BY <2>2
    <3>1. ~Wanted(archive, result.verdict, Key)
      BY <2>1, <2>5
    <3>2. result.verdict \notin ALWAYS_KEEP /\ ~(archive[Key].given < SampleOk)
      BY <3>1 DEF Wanted
    <3>3. archive' = archive
      BY <2>1, <3>1 DEF Saved
    <3>4. result.verdict \in Verdicts
      BY <1>1, ResultsAre DEF InSession, AnswerInv, Replied
    <3>5. archive[Key].written = SampleOk
      <4>1. DOMAIN archive = Keys /\ archive[Key].given \in Nat
        BY <2>4
      <4>2. archive[Key].given = archive[Key].written /\ archive[Key].given <= SampleOk
        BY <2>4, <4>1 DEF ArchiveInv, Even
      <4> QED BY <3>2, <4>1, <4>2, SampleAssumption
    <3> QED BY <2>1, <3>2, <3>3, <3>4, <3>5 DEF Verdicts, ALWAYS_KEEP
  <2>9. "shown" \notin Engine'.session.misses => walk'.delivered = walk'.loaded
    BY <1>1, <2>2 DEF TrueInv, InSession
  <2>10. ~(row'.planned > 0)
    BY <2>1
  <2> QED BY <2>6, <2>7, <2>8, <2>9, <2>10 DEF TrueInv
<1> QED BY <1>2, <1>3

LEMMA VisitTrue == PlanInv /\ SeatInv /\ AnswerInv /\ TrueInv /\ Visit => TrueInv'
<1> SUFFICES ASSUME PlanInv, SeatInv, AnswerInv, TrueInv, Visit PROVE TrueInv'
  OBVIOUS
<1>1. pc = "walk" /\ args' = args /\ cells' = cells /\ at' = at /\ archive' = archive
  BY DEF Visit
<1>2. Cell' = Cell /\ Engine' = Engine
  BY <1>1 DEF Cell, Engine
<1>3. PICK came \in {"loaded"} \cup Engine.session.misses :
        walk' = IF came = "raised" /\ walk.attempt = 1
                THEN [walk EXCEPT !.attempt = 2]
                ELSE [walk EXCEPT !.page = @ + 1, !.attempt = 1,
                                  !.delivered = IF came = "raised" THEN @ ELSE @ + 1,
                                  !.loaded = IF came = "loaded" THEN @ + 1 ELSE @]
  BY DEF Visit
<1>4. walk \in Walks /\ ("shown" \notin Engine.session.misses => walk.delivered = walk.loaded)
  BY <1>1 DEF AnswerInv, TrueInv, InSession
<1>40. Engine.session.misses \subseteq {"raised", "shown"}
  BY <1>1, InHand, EnginesAre DEF Engine, EngineFacts, InSession
<1>5. "shown" \notin Engine.session.misses => walk'.delivered = walk'.loaded
  <2> SUFFICES ASSUME "shown" \notin Engine.session.misses PROVE walk'.delivered = walk'.loaded
    OBVIOUS
  <2>1. came \in {"loaded", "raised"}
    BY <1>3, <1>40
  <2> QED BY <1>3, <1>4, <2>1 DEF Walks
<1>6. /\ row'.verdict = "warm_visit" /\ row'.own = FALSE /\ row'.body = FALSE
  BY DEF Visit, NoRow
<1>7. row'.planned > 0 => row'.error = "none"
  <2>1. PICK way :
          LET failed  == way = "raised"
              actions == IF failed THEN <<>>
                         ELSE ActionsFor(TargetOf, Planned[walk.page], KindsOf(Cell))
          IN  \E why \in IF failed THEN Engine.session.says ELSE {"none"} :
                row'.planned = Len(actions) /\ row'.error = why
    BY ZenonT(60) DEF Visit, NoRow
  <2> DEFINE lost == way = "raised"
  <2>2. CASE lost
    <3>1. row'.planned = Len(<<>>)
      BY <2>1, <2>2
    <3> QED BY <3>1
  <2>3. CASE ~lost
    <3>1. row'.error = "none"
      BY <2>1, <2>3
    <3> QED BY <3>1
  <2> QED BY <2>2, <2>3
<1> QED BY <1>2, <1>5, <1>6, <1>7 DEF TrueInv

LEMMA NextTrue ==
  PlanInv /\ SeatInv /\ AnswerInv /\ WalkInv /\ ArchiveInv /\ TrueInv /\ [Next]_vars => ArchiveInv' /\ TrueInv'
<1> SUFFICES ASSUME PlanInv, SeatInv, AnswerInv, WalkInv, ArchiveInv, TrueInv, [Next]_vars
             PROVE  ArchiveInv' /\ TrueInv'
  OBVIOUS
<1>0. args' = args /\ cells' = cells
  BY PlanKept
<1>1. CASE SendQuery
  BY <1>1, SendQueryTrue
<1>2. CASE Visit
  <2>1. archive' = archive /\ pc = "walk"
    BY <1>2 DEF Visit
  <2> QED BY <1>0, <1>2, <2>1, VisitTrue, ArchiveKept DEF InSession
<1>3. CASE Start
  <2>1. pc' \in {"head", "over"}
    BY <1>3 DEF Start
  <2> QED BY <1>3, <2>1, StartArchive DEF TrueInv, InSession
<1>4. CASE Restart
  <2>1. pc' = "start" /\ archive' = <<>>
    BY <1>4 DEF Restart, Renewed
  <2>2. DOMAIN archive' = {}
    BY <2>1
  <2> QED BY <2>1, <2>2 DEF ArchiveInv, Even, TrueInv, InSession
<1>5. CASE LadderPreflight \/ Leave \/ HeadEnds \/ Crash
  <2>1. /\ archive' = archive /\ pc' \in {"done", "start", "over", "ladder"}
    BY <1>5 DEF LadderPreflight, Leave, HeadEnds, Crash
  <2> QED BY <1>0, <2>1, ArchiveKept DEF TrueInv, InSession
<1>6. CASE HeadTakes
  <2>1. archive' = archive /\ pc = "head" /\ pc' \in {"head", "draw"} /\ walk' = walk
    BY <1>6 DEF HeadTakes
  <2>2. walk' = NoWalk
    BY <2>1 DEF WalkInv
  <2>3. walk'.delivered = walk'.loaded
    BY <2>2 DEF NoWalk
  <2> QED BY <1>0, <2>1, <2>3, ArchiveKept DEF TrueInv, InSession
<1>7. CASE Close
  <2>1. archive' = archive /\ pc = "close" /\ pc' \in {"head", "over"}
    BY <1>7 DEF Close
  <2> QED BY <1>0, <2>1, ArchiveKept DEF TrueInv, InSession
<1>8. CASE OnRow
  <2>1. /\ archive' = archive /\ pc = "row" /\ pc' \in {"walk", "judge", "close"} /\ at' = at
    BY <1>8 DEF OnRow, AfterRow
  <2>2. walk' \in Walks => walk'.delivered = walk.delivered /\ walk'.loaded = walk.loaded
    BY <1>8 DEF OnRow, AnswerInv, Walks
  <2>3. walk'.delivered = walk.delivered /\ walk'.loaded = walk.loaded
    BY <1>8, <2>1 DEF OnRow, AnswerInv, Walks
  <2>4. Engine' = Engine
    BY <1>0, <2>1 DEF Engine, Cell
  <2> QED BY <1>0, <2>1, <2>3, <2>4, ArchiveKept DEF TrueInv, InSession
<1>9. CASE Draw \/ Open \/ OpenFails \/ CheckDirect \/ OpenPage \/ FetchRaises \/ JudgeProbe \/ Interrupt
  <2>1. /\ archive' = archive /\ pc \in {"draw"} \cup InSession /\ pc # "row" /\ pc' # "row" /\ at' = at /\ walk' = walk
        /\ row' = row
    BY <1>9 DEF Draw, Open, OpenFails, CheckDirect, OpenPage, FetchRaises, JudgeProbe, Interrupt, InSession
  <2> QED BY <1>0, <2>1, ArchiveKept, TrueKept
<1>10. CASE Move \/ AskToStop \/ Age \/ Done \/ UNCHANGED vars
  <2>1. /\ archive' = archive /\ pc' = pc /\ at' = at /\ walk' = walk /\ row' = row
    BY <1>10 DEF Move, AskToStop, Age, Done, vars
  <2> QED BY <1>0, <2>1, ArchiveKept, TrueKept
<1> QED
  BY <1>1, <1>2, <1>3, <1>4, <1>5, <1>6, <1>7, <1>8, <1>9, <1>10 DEF Next, Process, Around
----------------------------------------------------------------------------
(* What the rows say of the exits.                                         *)

\* An address has one label, given for good, and "none" has none.
Register(labels) ==
  /\ \E V : labels \in Seq(V)
  /\ "none" \notin Published(labels)
  /\ \A i, j \in DOMAIN labels : labels[i] = labels[j] => i = j
Numbered(r, labels) ==
  \/ r.ip = "none" /\ r.label = 0
  \/ r.label \in DOMAIN labels /\ labels[r.label] = r.ip
\* A country that is known is the address's own, when the service answers.
Placed(ip, country) ==
  \A exit \in ToSet(args.exits) :
    ip = exit.ip => country = exit.country \/ (country = "none" /\ Goes("locate"))
Locations(found) ==
  /\ {"known", "misses"} \subseteq DOMAIN found
  /\ "none" \notin DOMAIN found.known
  /\ found.misses \in Nat /\ (~Goes("locate") => found.misses = 0)
  /\ \A ip \in DOMAIN found.known : Placed(ip, found.known[ip])
Remembered(r, found) ==
  r.country # "none" => r.ip \in DOMAIN found.known /\ found.known[r.ip] = r.country
Identified(r) == Numbered(r, registry) /\ Placed(r.ip, r.country) /\ Remembered(r, located)
LookInv ==
  /\ Register(registry) /\ Locations(located)
  /\ pc \in InSession => Identified(identity) /\ identity.country = Kept(located, identity.ip)
  /\ \A i \in DOMAIN rows : Identified(rows[i])
  /\ \A i, j \in DOMAIN rows :
       rows[i].ip = rows[j].ip /\ i < j /\ rows[i].country # "none" => rows[j].country = rows[i].country

LEMMA LabelsAgree ==
  ASSUME NEW labels, Register(labels), NEW r, NEW s, Numbered(r, labels), Numbered(s, labels)
  PROVE  r.ip = s.ip <=> r.label = s.label
<1>1. \A i \in DOMAIN labels : labels[i] # "none"
  BY DEF Register, Published
<1>2. 0 \notin DOMAIN labels
  <2>1. PICK V : labels \in Seq(V)
    BY DEF Register
  <2>2. DOMAIN labels = 1..Len(labels)
    BY <2>1, LenProperties
  <2> QED BY <2>2
<1> QED BY <1>1, <1>2 DEF Register, Numbered

LEMMA LooksTrue == ASSUME LookInv PROVE LookUpsAreTrue
<1>1. \A i, j \in DOMAIN rows : rows[i].ip = rows[j].ip <=> rows[i].label = rows[j].label
  BY LabelsAgree DEF LookInv, Identified
<1>2. \A i \in DOMAIN rows : Placed(rows[i].ip, rows[i].country)
  BY DEF LookInv, Identified
<1> QED BY <1>1, <1>2 DEF LookInv, LookUpsAreTrue, Placed

LEMMA EnrolledIs ==
  ASSUME NEW labels, Register(labels), NEW ip
  PROVE  /\ Register(Enrolled(labels, ip))
         /\ ip # "none" => ip \in Published(Enrolled(labels, ip))
         /\ \A i \in DOMAIN labels : /\ i \in DOMAIN Enrolled(labels, ip)
                                     /\ Enrolled(labels, ip)[i] = labels[i]
<1>1. CASE ip = "none" \/ ip \in Published(labels)
  BY <1>1 DEF Enrolled
<1>2. CASE ip # "none" /\ ip \notin Published(labels)
  <2> DEFINE new == Append(labels, ip)
  <2>1. Enrolled(labels, ip) = new
    BY <1>2 DEF Enrolled
  <2>2. PICK V : labels \in Seq(V)
    BY DEF Register
  <2>3. labels \in Seq(V \cup {ip}) /\ ip \in V \cup {ip}
    BY <2>2, SeqMonotonic
  <2>4. /\ new \in Seq(V \cup {ip}) /\ DOMAIN new = 1..(Len(labels) + 1)
        /\ Len(labels) \in Nat /\ DOMAIN labels = 1..Len(labels)
        /\ \A i \in 1..Len(labels) : new[i] = labels[i]
        /\ new[Len(labels) + 1] = ip
    BY <2>3, AppendProperties, LenProperties
  <2> HIDE DEF new
  <2>5. Published(new) = Published(labels) \cup {ip}
    <3>1. DOMAIN new = DOMAIN labels \cup {Len(labels) + 1}
      BY <2>4
    <3> QED BY <2>4, <3>1 DEF Published
  <2>6. \A i \in DOMAIN labels : labels[i] # ip
    BY <1>2 DEF Published
  <2>7. \A i, j \in DOMAIN new : new[i] = new[j] => i = j
    <3>1. \A i \in DOMAIN new : i \in DOMAIN labels \/ i = Len(labels) + 1
      BY <2>4
    <3> QED BY <2>4, <2>6, <3>1 DEF Register
  <2>8. Register(new)
    BY <1>2, <2>4, <2>5, <2>7 DEF Register
  <2>9. \A i \in DOMAIN labels : i \in DOMAIN new /\ new[i] = labels[i]
    BY <2>4
  <2> QED BY <2>1, <2>5, <2>8, <2>9
<1> QED BY <1>1, <1>2

LEMMA LabelOfIs ==
  ASSUME NEW labels, Register(labels), NEW ip, ip # "none" => ip \in Published(labels)
  PROVE  /\ ip = "none" => LabelOf(labels, ip) = 0
         /\ ip # "none" => LabelOf(labels, ip) \in DOMAIN labels /\ labels[LabelOf(labels, ip)] = ip
<1>1. CASE ip = "none"
  BY <1>1 DEF LabelOf, Register
<1>2. CASE ip # "none"
  <2>1. \E i \in DOMAIN labels : labels[i] = ip
    BY <1>2 DEF Published
  <2> QED BY <1>2, <2>1 DEF LabelOf
<1> QED BY <1>1, <1>2

\* A label that was given stays.
LEMMA NumberedKept ==
  ASSUME NEW labels, NEW r, Numbered(r, labels), NEW more,
         \A i \in DOMAIN labels : i \in DOMAIN more /\ more[i] = labels[i]
  PROVE  Numbered(r, more)
<1> QED BY DEF Numbered

\* What is known of an address stays, whatever a call of locate brings.
LEMMA LocateIs ==
  ASSUME args \in Plans, NEW found, Locations(found), NEW exit \in ToSet(args.exits) \cup {NoExit},
         NEW next \in Locate(found, exit, Goes("locate"))
  PROVE  /\ Locations(next) /\ Placed(exit.ip, Kept(next, exit.ip))
         /\ \A ip \in DOMAIN found.known : ip \in DOMAIN next.known /\ next.known[ip] = found.known[ip]
<1>0. /\ \A a, b \in ToSet(args.exits) \cup {NoExit} : a.ip = b.ip => a.country = b.country
      /\ NoExit.ip = "none" /\ NoExit.country = "none"
  BY PlanAssumption DEF NoExit
<1>1. Placed(exit.ip, exit.country) /\ (Goes("locate") => Placed(exit.ip, "none"))
  BY <1>0 DEF Placed
<1>2. CASE ~Asks(found, exit.ip)
  <2>1. next = found
    BY <1>2 DEF Locate
  <2>2. CASE exit.ip = "none"
    <3>1. exit.country = "none"
      BY <1>0, <2>2
    <3>2. Kept(found, exit.ip) = "none"
      BY <2>2 DEF Kept, Locations
    <3> QED BY <1>1, <2>1, <3>1, <3>2
  <2>3. CASE exit.ip \in DOMAIN found.known
    BY <2>1, <2>3 DEF Kept, Locations
  <2>4. CASE exit.ip # "none" /\ exit.ip \notin DOMAIN found.known
    <3>1. Latched(found)
      BY <1>2, <2>4 DEF Asks
    <3>2. Goes("locate")
      BY <3>1, LocateAssumption DEF Latched, Locations
    <3>3. Kept(found, exit.ip) = "none"
      BY <2>4 DEF Kept
    <3> QED BY <1>1, <2>1, <3>2, <3>3
  <2> QED BY <2>2, <2>3, <2>4
<1>3. CASE Asks(found, exit.ip)
  <2>1. exit.ip # "none" /\ exit.ip \notin DOMAIN found.known
    BY <1>3 DEF Asks
  <2>2. \/ \E country \in {exit.country, "none"} :
             /\ country = "none" => Goes("locate") \/ country = exit.country
             /\ next = Answered(found, exit.ip, country)
        \/ Goes("locate") /\ next = Missed(found)
    BY <1>3 DEF Locate
  <2>3. CASE Goes("locate") /\ next = Missed(found)
    <3>1. next.known = found.known /\ next.misses = found.misses + 1 /\ DOMAIN next = DOMAIN found
      BY <2>3 DEF Missed, Locations
    <3>2. Locations(next)
      BY <2>3, <3>1 DEF Locations
    <3>3. Kept(next, exit.ip) = "none"
      BY <2>1, <3>1 DEF Kept
    <3> QED BY <1>1, <2>3, <3>1, <3>2, <3>3
  <2>4. CASE \E country \in {exit.country, "none"} :
             /\ country = "none" => Goes("locate") \/ country = exit.country
             /\ next = Answered(found, exit.ip, country)
    <3>1. PICK country \in {exit.country, "none"} :
             /\ country = "none" => Goes("locate") \/ country = exit.country
             /\ next = Answered(found, exit.ip, country)
      BY <2>4
    <3>2. Placed(exit.ip, country)
      BY <1>1, <3>1
    <3>3. /\ DOMAIN next.known = DOMAIN found.known \cup {exit.ip} /\ next.misses = 0
          /\ DOMAIN next = {"known", "misses"} /\ next.known[exit.ip] = country
          /\ \A ip \in DOMAIN found.known : next.known[ip] = found.known[ip]
      BY <2>1, <3>1 DEF Answered
    <3>4. Kept(next, exit.ip) = country
      BY <3>3 DEF Kept
    <3>5. Locations(next)
      BY <2>1, <3>2, <3>3 DEF Locations
    <3> QED BY <3>2, <3>3, <3>4, <3>5
  <2> QED BY <2>2, <2>3, <2>4
<1> QED BY <1>2, <1>3
----------------------------------------------------------------------------
LEMMA InitLook == Init => LookInv
<1> SUFFICES ASSUME Init PROVE LookInv
  OBVIOUS
<1>1. registry = <<>> /\ rows = <<>> /\ located = NothingLocated /\ pc \in {"ladder", "start"}
  BY DEF Init, Fresh
<1>2. Register(<<>>)
  <2>1. <<>> \in Seq({}) /\ DOMAIN <<>> = {}
    OBVIOUS
  <2> QED BY <2>1 DEF Register, Published
<1>3. Locations(NothingLocated)
  <2>1. DOMAIN NothingLocated.known = {} /\ NothingLocated.misses = 0
        /\ DOMAIN NothingLocated = {"known", "misses"}
    BY DEF NothingLocated
  <2> QED BY <2>1 DEF Locations
<1>4. DOMAIN rows = {}
  BY <1>1
<1> QED BY <1>1, <1>2, <1>3, <1>4 DEF LookInv, InSession

LEMMA LookKept ==
  ASSUME LookInv, args' = args, rows' = rows, registry' = registry, located' = located,
         pc' \in InSession => pc \in InSession /\ identity' = identity
  PROVE  LookInv'
<1>1. \A ip, country : Placed(ip, country)' = Placed(ip, country)
  BY DEF Placed, Goes
<1>2. Locations(located)' = Locations(located)
  BY DEF Locations, Placed, Goes
<1>3. \A i \in DOMAIN rows : Identified(rows[i])' 
  BY <1>1 DEF LookInv, Identified
<1>4. pc' \in InSession => Identified(identity)'
  BY <1>1 DEF LookInv, Identified
<1> QED BY <1>2, <1>3, <1>4 DEF LookInv

\* The exit of a draw is one of the plan's, or none.
LEMMA ExitIs ==
  ASSUME PlanInv, SeatInv, pc = "draw"
  PROVE  Exit \in ToSet(args.exits) \cup {NoExit}
<1>1. args.exits \in Seq(ToSet(args.exits)) /\ args.exits # <<>>
  BY PlanAssumption DEF PlanInv
<1>2. Len(args.exits) \in Nat /\ Len(args.exits) # 0 /\ DOMAIN args.exits = 1..Len(args.exits)
  BY <1>1, LenProperties, EmptySeq
<1>3. at.round \in Nat /\ at.redraw \in Nat
  BY InHand, CellsAre DEF Slots, Rounds
<1> DEFINE n == Len(args.exits)
           k == at.round + at.redraw
<1>4. k \in Nat /\ n \in Nat /\ n # 0
  BY <1>2, <1>3
<1>5. \A i \in 1..n : args.exits[i] \in ToSet(args.exits)
  BY <1>2 DEF ToSet
<1>6. 1 \in 1..n /\ 1 + (k % n) \in 1..n
  <2> HIDE DEF k, n
  <2>1. \A a \in Nat, b \in Nat \ {0} : a % b \in Nat /\ a % b < b
    BY SMTT(60)
  <2> QED BY <1>4, <2>1
<1> QED BY <1>5, <1>6 DEF Exit

LEMMA DrawLook == PlanInv /\ SeatInv /\ LookInv /\ Draw => LookInv'
<1> SUFFICES ASSUME PlanInv, SeatInv, LookInv, Draw PROVE LookInv'
  OBVIOUS
<1>1. pc = "draw" /\ rows' = rows /\ args' = args /\ at' = at
  BY DEF Draw
<1>2. CASE NamedTwice(args)
  <2>1. pc' = "over" /\ registry' = registry /\ located' = located
    BY <1>2 DEF Draw
  <2> QED BY <1>1, <2>1, LookKept DEF InSession
<1>3. CASE ~NamedTwice(args)
  <2> DEFINE exit == Exit
  <2>1. /\ registry' = Enrolled(registry, exit.ip)
        /\ located' \in Locate(located, exit, Goes("locate"))
        /\ identity' = [ip |-> exit.ip, label |-> LabelOf(registry', exit.ip),
                        country |-> Kept(located', exit.ip)]
    BY <1>3 DEF Draw
  <2>2. exit \in ToSet(args.exits) \cup {NoExit} /\ args \in Plans
    BY <1>1, ExitIs DEF PlanInv
  <2> HIDE DEF exit
  <2>3. /\ Register(registry') /\ (exit.ip # "none" => exit.ip \in Published(registry'))
        /\ \A i \in DOMAIN registry : i \in DOMAIN registry' /\ registry'[i] = registry[i]
    BY <2>1, EnrolledIs DEF LookInv
  <2>4. /\ exit.ip = "none" => LabelOf(registry', exit.ip) = 0
        /\ exit.ip # "none" => LabelOf(registry', exit.ip) \in DOMAIN registry'
                               /\ registry'[LabelOf(registry', exit.ip)] = exit.ip
    BY <2>3, LabelOfIs
  <2>5. /\ Locations(located') /\ Placed(exit.ip, Kept(located', exit.ip))
        /\ \A ip \in DOMAIN located.known : ip \in DOMAIN located'.known /\ located'.known[ip] = located.known[ip]
    BY <2>1, <2>2, LocateIs DEF LookInv
  <2>6. /\ identity'.ip = exit.ip /\ identity'.label = LabelOf(registry', exit.ip)
        /\ identity'.country = Kept(located', exit.ip)
    BY <2>1
  <2>7. \A ip, country : Placed(ip, country)' = Placed(ip, country)
    BY <1>1 DEF Placed, Goes
  <2>8. Numbered(identity', registry')
    BY <2>4, <2>6 DEF Numbered
  <2>9. Remembered(identity', located')
    BY <2>6 DEF Remembered, Kept
  <2>10. Identified(identity)'
    BY <2>5, <2>6, <2>7, <2>8, <2>9 DEF Identified
  <2>11. \A i \in DOMAIN rows : Identified(rows[i])'
    <3> SUFFICES ASSUME NEW i \in DOMAIN rows PROVE Identified(rows[i])'
      OBVIOUS
    <3>1. Numbered(rows[i], registry) /\ Placed(rows[i].ip, rows[i].country) /\ Remembered(rows[i], located)
      BY DEF LookInv, Identified
    <3>2. Numbered(rows[i], registry')
      BY <2>3, <3>1, NumberedKept
    <3>3. Remembered(rows[i], located')
      BY <2>5, <3>1 DEF Remembered
    <3> QED BY <1>1, <2>7, <3>1, <3>2, <3>3 DEF Identified
  <2>12. Locations(located)'
    BY <1>1, <2>5 DEF Locations, Placed, Goes
  <2> QED BY <1>1, <2>3, <2>6, <2>10, <2>11, <2>12 DEF LookInv
<1> QED BY <1>2, <1>3

LEMMA OnRowLook == LookInv /\ KindsInv /\ OnRow => LookInv'
<1> SUFFICES ASSUME LookInv, KindsInv, OnRow PROVE LookInv'
  OBVIOUS
<1> DEFINE new == Column
<1>1. /\ pc = "row" /\ args' = args /\ registry' = registry /\ located' = located
      /\ identity' = identity /\ rows' = Append(rows, new)
  BY DEF OnRow
<1>2. new.ip = identity.ip /\ new.label = identity.label /\ new.country = identity.country
  BY DEF Column
<1>3. Identified(identity) /\ identity.country = Kept(located, identity.ip)
  BY <1>1 DEF LookInv, InSession
<1>4. PICK V : rows \in Seq(V)
  BY DEF KindsInv, RowsInv
<1>5. rows \in Seq(V \cup {new}) /\ new \in V \cup {new}
  BY <1>4, SeqMonotonic
<1> HIDE DEF new
<1>6. /\ DOMAIN rows' = 1..(Len(rows) + 1) /\ Len(rows) \in Nat /\ DOMAIN rows = 1..Len(rows)
      /\ \A i \in 1..Len(rows) : rows'[i] = rows[i]
      /\ rows'[Len(rows) + 1] = new
  BY <1>1, <1>5, AppendProperties, LenProperties
<1>7. Identified(new)
  BY <1>2, <1>3 DEF Identified, Numbered, Remembered
<1>8. \A i \in DOMAIN rows' : i \in DOMAIN rows \/ i = Len(rows) + 1
  BY <1>6
<1>9. \A i \in DOMAIN rows' : Identified(rows'[i])
  BY <1>6, <1>7, <1>8 DEF LookInv
<1>10. \A i, j \in DOMAIN rows' :
         rows'[i].ip = rows'[j].ip /\ i < j /\ rows'[i].country # "none" => rows'[j].country = rows'[i].country
  <2> SUFFICES ASSUME NEW i \in DOMAIN rows', NEW j \in DOMAIN rows',
                      rows'[i].ip = rows'[j].ip, i < j, rows'[i].country # "none"
               PROVE  rows'[j].country = rows'[i].country
    OBVIOUS
  <2>1. i \in DOMAIN rows /\ rows'[i] = rows[i]
    BY <1>6
  <2>2. CASE j \in DOMAIN rows
    BY <1>6, <2>1, <2>2 DEF LookInv
  <2>3. CASE j = Len(rows) + 1
    <3>1. rows'[j] = new
      BY <1>6, <2>3
    <3>2. rows[i].ip = identity.ip
      BY <1>2, <2>1, <3>1
    <3>3. identity.ip \in DOMAIN located.known /\ located.known[identity.ip] = rows[i].country
      BY <2>1, <3>2 DEF LookInv, Identified, Remembered
    <3> QED BY <1>2, <1>3, <2>1, <3>1, <3>3 DEF Kept
  <2> QED BY <1>8, <2>2, <2>3
<1>12. Locations(located)'
  BY <1>1 DEF LookInv, Locations, Placed, Goes
<1>13. Register(registry)'
  BY <1>1 DEF LookInv
<1>14. \A i \in DOMAIN rows' : Identified(rows[i])'
  BY <1>1, <1>9 DEF Identified, Placed, Goes
<1>15. Identified(identity)' /\ identity'.country = Kept(located', identity'.ip)
  BY <1>1, <1>3 DEF Identified, Placed, Goes
<1> QED BY <1>10, <1>12, <1>13, <1>14, <1>15 DEF LookInv

LEMMA NextLook == PlanInv /\ SeatInv /\ KindsInv /\ LookInv /\ [Next]_vars => LookInv'
<1> SUFFICES ASSUME PlanInv, SeatInv, KindsInv, LookInv, [Next]_vars PROVE LookInv'
  OBVIOUS
<1>0. args' = args
  BY PlanKept
<1>1. CASE Draw
  BY <1>1, DrawLook
<1>2. CASE OnRow
  BY <1>2, OnRowLook
<1>3. CASE Restart
  <2>1. registry' = <<>> /\ rows' = <<>> /\ located' = NothingLocated /\ pc' = "start"
    BY <1>3 DEF Restart, Renewed
  <2>2. Register(<<>>)
    <3>1. <<>> \in Seq({}) /\ DOMAIN <<>> = {}
      OBVIOUS
    <3> QED BY <3>1 DEF Register, Published
  <2>3. Locations(located)'
    <3>1. DOMAIN NothingLocated.known = {} /\ NothingLocated.misses = 0
          /\ DOMAIN NothingLocated = {"known", "misses"}
      BY DEF NothingLocated
    <3> QED BY <2>1, <3>1 DEF Locations
  <2>4. DOMAIN rows' = {}
    BY <2>1
  <2> QED BY <2>1, <2>2, <2>3, <2>4 DEF LookInv, InSession
<1>4. CASE LadderPreflight \/ Leave \/ Start \/ HeadEnds \/ HeadTakes \/ Crash \/ Close
  <2>1. /\ rows' = rows /\ registry' = registry /\ located' = located /\ pc' \notin InSession
    BY <1>4 DEF LadderPreflight, Leave, Start, HeadEnds, HeadTakes, Crash, Close, InSession
  <2> QED BY <1>0, <2>1, LookKept
<1>5. CASE Open \/ OpenFails \/ CheckDirect \/ OpenPage \/ Visit \/ SendQuery \/ FetchRaises \/ JudgeProbe
           \/ Interrupt
  <2>1. /\ rows' = rows /\ registry' = registry /\ located' = located /\ pc \in InSession
        /\ identity' = identity
    BY <1>5 DEF Open, OpenFails, CheckDirect, OpenPage, Visit, SendQuery, FetchRaises, JudgeProbe, Interrupt,
                InSession
  <2> QED BY <1>0, <2>1, LookKept
<1>6. CASE Move \/ AskToStop \/ Age \/ Done \/ UNCHANGED vars
  <2>1. /\ rows' = rows /\ registry' = registry /\ located' = located /\ pc' = pc
        /\ identity' = identity
    BY <1>6 DEF Move, AskToStop, Age, Done, vars
  <2> QED BY <1>0, <2>1, LookKept
<1> QED
  BY <1>1, <1>2, <1>3, <1>4, <1>5, <1>6 DEF Next, Process, Around

\* A row is ok for the target's own page only, or where nothing told them
\* apart; its warm-up is counted as it went; a judged page is left out of the
\* archive, while the disk takes pages, only when its sample is full; and one
\* exit has one label and one country in all rows (probe_and_hold.py, on_row;
\* run_search; judge(); save() of the archive; ExitRegistry and locate()).
THEOREM RowsTrue == Spec => []RowsAreTrue
<1> DEFINE All == /\ PlanInv /\ SeatInv /\ HeldInv /\ AnswerInv /\ MeterInv /\ WorkInv /\ EndedInv
                  /\ KindsInv /\ WalkInv /\ ArchiveInv /\ TrueInv /\ LookInv
<1>1. Init => All
  <2>1. Init => PlanInv /\ HeldInv
    BY DEF Init, Fresh, PlanInv, HeldInv
  <2> QED
    BY <2>1, InitSeat, InitAnswer, InitMeter, InitWork, InitEnded, InitKinds, InitLate, InitArchive, InitLook
<1>2. All /\ [Next]_vars => All'
  BY NextPlan, NextSeat, NextHeld, NextAnswer, NextMeter, NextWork, NextEnded, NextKinds, NextWalk, NextTrue,
     NextLook
<1>3. All => RowsAreTrue
  BY LooksTrue DEF TrueInv, InSession, RowsAreTrue
<1> HIDE DEF All
<1> QED BY <1>1, <1>2, <1>3, PTL DEF Spec
----------------------------------------------------------------------------
(* The draws of an identity.                                               *)

LEMMA PickedNone == ASSUME NEW T PROVE Picked(<<>>, T) = <<>>
<1>1. <<>> \in Seq({}) /\ Len(<<>>) = 0 /\ 1..0 = {}
  OBVIOUS
<1>2. PICK f \in [0..Len(<<>>) -> Seq({})] : Picking(<<>>, T, f) /\ Picked(<<>>, T) = f[Len(<<>>)]
  BY <1>1, PickedIs
<1>3. Picked(<<>>, T) = f[0] /\ f \in [{0} -> Seq({})]
  BY <1>1, <1>2
<1>4. Seq({}) = {<<>>}
  BY EmptySeq
<1> QED BY <1>3, <1>4

LEMMA DrawsGrow ==
  ASSUME NEW V, NEW draws \in Seq(V), NEW fate \in V, NEW round
  PROVE  /\ DrawsIn(draws, round) \in Seq(V)
         /\ DrawsIn(Append(draws, fate), round) =
              IF fate.round = round THEN Append(DrawsIn(draws, round), fate) ELSE DrawsIn(draws, round)
<1> DEFINE more == Append(draws, fate)
           T == {i \in DOMAIN draws : draws[i].round = round}
           U == {i \in DOMAIN more : more[i].round = round}
<1>1. /\ more \in Seq(V) /\ Len(more) = Len(draws) + 1 /\ Len(draws) \in Nat
      /\ DOMAIN draws = 1..Len(draws) /\ DOMAIN more = 1..(Len(draws) + 1)
      /\ \A i \in 1..Len(draws) : more[i] = draws[i]
      /\ more[Len(draws) + 1] = fate
  BY AppendProperties, LenProperties
<1> HIDE DEF more
<1>2. \A i \in 1..Len(draws) : i \in T <=> i \in U
  BY <1>1
<1>3. Len(more) \in U <=> fate.round = round
  BY <1>1
<1>4. \A i \in 1..Len(draws) : draws[i] = more[i]
  BY <1>1
<1> HIDE DEF T, U
<1>5. /\ Picked(draws, T) \in Seq(V)
      /\ Picked(more, U) = IF Len(more) \in U THEN Append(Picked(draws, T), more[Len(more)])
                           ELSE Picked(draws, T)
  BY <1>1, <1>2, <1>4, PickedGrows
<1>6. DrawsIn(draws, round) = Picked(draws, T) /\ DrawsIn(more, round) = Picked(more, U)
  BY DEF DrawsIn, T, U
<1>7. DrawsIn(more, round) = IF fate.round = round THEN Append(DrawsIn(draws, round), fate)
                             ELSE DrawsIn(draws, round)
  BY <1>1, <1>3, <1>5, <1>6
<1> QED BY <1>5, <1>6, <1>7 DEF more

LEMMA DrawsNone == \A round : DrawsIn(<<>>, round) = <<>>
<1> QED BY PickedNone DEF DrawsIn

\* An identity to be drawn for the k-th time has been drawn k - 1 times, and
\* the last of them never reached the target.
Ready(draws, k) ==
  Len(draws) = k /\ (k > 0 => Unreached(draws[k]))

LEMMA OneMoreDraw ==
  ASSUME NEW V, NEW draws \in Seq(V), NEW fate \in V, InOrder(draws), Ready(draws, fate.redraw)
  PROVE  /\ InOrder(Append(draws, fate)) /\ Len(Append(draws, fate)) = fate.redraw + 1
         /\ Append(draws, fate)[fate.redraw + 1] = fate
<1> DEFINE n == Len(draws)
           more == Append(draws, fate)
<1>1. /\ n \in Nat /\ DOMAIN draws = 1..n /\ DOMAIN more = 1..(n + 1) /\ Len(more) = n + 1
      /\ \A i \in 1..n : more[i] = draws[i]
      /\ more[n + 1] = fate
  BY AppendProperties, LenProperties
<1>2. fate.redraw = n /\ (n > 0 => Unreached(draws[n]))
  BY DEF Ready
<1> HIDE DEF n, more
<1>3. \A i \in 1..n : draws[i].redraw = i - 1 /\ (i < n => Unreached(draws[i]))
  BY <1>1 DEF InOrder, n
<1>4. \A i \in 1..(n + 1) : more[i].redraw = i - 1 /\ (i < n + 1 => Unreached(more[i]))
  <2> SUFFICES ASSUME NEW i \in 1..(n + 1)
               PROVE  more[i].redraw = i - 1 /\ (i < n + 1 => Unreached(more[i]))
    OBVIOUS
  <2>1. CASE i = n + 1
    BY <1>1, <1>2, <2>1
  <2>2. CASE i \in 1..n
    <3>1. more[i] = draws[i] /\ (i < n => Unreached(draws[i])) /\ draws[i].redraw = i - 1
      BY <1>1, <1>3, <2>2
    <3>2. i = n => Unreached(draws[i])
      BY <1>1, <1>2, <2>2
    <3> QED BY <1>1, <2>2, <3>1, <3>2
  <2> QED BY <1>1, <2>1, <2>2
<1>5. InOrder(more)
  BY <1>1, <1>4 DEF InOrder
<1> QED BY <1>1, <1>2, <1>5 DEF more
----------------------------------------------------------------------------
(* Where the identities are.                                               *)

Hand == {"draw"} \cup InSession
PutBackNow == pc = "close" /\ judged /\ probe = "transport"
Same(slot, c, round) == slot.cell = c /\ slot.round = round
GivenUp(n) == n > args.redraws \/ spent = Budget
Settled(draws) == Len(draws) > 0 /\ (Unreached(draws[Len(draws)]) => GivenUp(Len(draws)))
Accounted(c, round) ==
  \/ Tripped(breakers[c])
  \/ \E i \in DOMAIN work : Same(work[i], c, round)
  \/ pc \in Hand /\ Same(at, c, round)
  \/ Settled(DrawsOf(c, round))
Going == pc \in {"head"} \cup Hand \/ (pc \in {"over", "done"} /\ code = 0)
TurnInv ==
  /\ \A c \in DOMAIN history, round \in Rounds : InOrder(DrawsOf(c, round))
  /\ \A i, j \in DOMAIN work : Same(work[i], work[j].cell, work[j].round) => i = j
  /\ \A i \in DOMAIN work :
       \/ PutBackNow /\ work[i] = Redrawn
       \/ Ready(DrawsOf(work[i].cell, work[i].round), work[i].redraw)
  /\ pc \in Hand =>
       /\ Ready(DrawsOf(at.cell, at.round), at.redraw)
       /\ \A i \in DOMAIN work :
            Same(work[i], at.cell, at.round) => PutBackNow /\ work[i] = Redrawn
  /\ Going => \A c \in DOMAIN history, round \in Rounds : Accounted(c, round)
  /\ PutBackNow => (\E i \in DOMAIN work : work[i] = Redrawn) \/ GivenUp(at.redraw + 1)

LEMMA InitTurn == Init => TurnInv
<1> SUFFICES ASSUME Init PROVE TurnInv
  OBVIOUS
<1>1. work = <<>> /\ history = <<>> /\ pc \in {"ladder", "start"}
  BY DEF Init, Fresh
<1>2. DOMAIN work = {} /\ DOMAIN history = {} /\ pc \notin Hand /\ ~PutBackNow
  BY <1>1 DEF Hand, InSession, PutBackNow
<1> QED BY <1>1, <1>2 DEF TurnInv

\* A step that draws nothing, ends no draw and puts nothing back.
LEMMA TurnKept ==
  ASSUME TurnInv, args' = args, cells' = cells, work' = work, spent' = spent, history' = history,
         \A c \in DOMAIN history : Tripped(breakers[c]) => Tripped(breakers'[c]),
         ~PutBackNow, ~PutBackNow',
         pc' \in Hand => pc \in Hand /\ at' = at,
         Going' => Going /\ (pc \in Hand => pc' \in Hand)
  PROVE  TurnInv'
<1>1. /\ Rounds' = Rounds /\ \A c, round : DrawsOf(c, round)' = DrawsOf(c, round)
      /\ \A n : GivenUp(n)' = GivenUp(n)
  BY DEF Rounds, DrawsOf, GivenUp, Budget
<1>2. \A i \in DOMAIN work : Ready(DrawsOf(work[i].cell, work[i].round), work[i].redraw)
  BY DEF TurnInv
<1>3. Going' => \A c \in DOMAIN history, round \in Rounds : Accounted(c, round)'
  BY <1>1 DEF TurnInv, Accounted, Settled
<1> QED BY <1>1, <1>2, <1>3 DEF TurnInv
----------------------------------------------------------------------------
\* The turn a round and a cell have in the deque a run starts with.
LEMMA TurnNumbers ==
  ASSUME NEW m \in Nat \ {0}, NEW k \in Nat
  PROVE  /\ \A i \in 1..(k * m) : (i - 1) \div m \in Nat /\ (i - 1) % m \in 0..(m - 1)
                                  /\ i = m * ((i - 1) \div m) + ((i - 1) % m) + 1
         /\ \A r \in 0..(k - 1), c \in 1..m :
              \E i \in 1..(k * m) : (i - 1) \div m = r /\ 1 + ((i - 1) % m) = c
<1>1. k * m \in Nat
  OBVIOUS
<1>2. \A a \in Nat : a \div m \in Nat /\ a % m \in 0..(m - 1) /\ a = m * (a \div m) + (a % m)
  BY SMTT(60)
<1>3. \A i \in 1..(k * m) : i - 1 \in Nat /\ i = (i - 1) + 1
  BY <1>1
<1>4. \A i \in 1..(k * m) : (i - 1) \div m \in Nat /\ (i - 1) % m \in 0..(m - 1)
                                  /\ i = m * ((i - 1) \div m) + ((i - 1) % m) + 1
  BY <1>2, <1>3
<1>5. ASSUME NEW r \in 0..(k - 1), NEW c \in 1..m
      PROVE  \E i \in 1..(k * m) : (i - 1) \div m = r /\ 1 + ((i - 1) % m) = c
  <2> DEFINE a == m * r + (c - 1)
  <2>1. r \in Nat /\ c - 1 \in Nat /\ c - 1 < m /\ m * r \in Nat
    OBVIOUS
  <2>2. a \in Nat
    BY <2>1
  <2>3. a \div m = r /\ a % m = c - 1
    BY <2>1, SMTT(60)
  <2>4. r + 1 <= k /\ m * (r + 1) <= m * k
    BY SMTT(60)
  <2>5. m * (r + 1) = m * r + m
    BY <2>1
  <2>6. a + 1 <= k * m
    <3>1. m * k = k * m
      OBVIOUS
    <3> QED BY <1>1, <2>1, <2>4, <2>5, <3>1
  <2>7. 1 + (c - 1) = c
    OBVIOUS
  <2> HIDE DEF a
  <2>8. a + 1 \in 1..(k * m) /\ (a + 1) - 1 = a
    BY <1>1, <2>2, <2>6
  <2> QED BY <2>3, <2>7, <2>8
<1> QED BY <1>4, <1>5

LEMMA StartTurn == PlanInv /\ SeatInv /\ TurnInv /\ Start => TurnInv'
<1> SUFFICES ASSUME PlanInv, SeatInv, TurnInv, Start PROVE TurnInv'
  OBVIOUS
<1>1. pc = "start" /\ args' = args /\ cells' = cells /\ spent' = spent
  BY DEF Start
<1>2. DOMAIN history = {} /\ work = <<>>
  BY <1>1 DEF SeatInv
<1>3. CASE ~(Accepted(args) /\ ~args.dry)
  <2>1. pc' = "over" /\ work' = work /\ history' = history
    BY <1>3 DEF Start
  <2>2. DOMAIN work' = {} /\ DOMAIN history' = {} /\ pc' \notin Hand /\ ~PutBackNow'
    BY <1>2, <2>1 DEF Hand, InSession, PutBackNow
  <2> QED BY <2>2 DEF TurnInv
<1>4. CASE Accepted(args) /\ ~args.dry
  <2> DEFINE m == Len(cells)
             k == args.identities
             Turn(i) == Slot((i - 1) \div m, 1 + ((i - 1) % m), 0)
  <2>1. /\ work' = [i \in 1..(k * m) |-> Turn(i)] /\ pc' = "head"
        /\ history' = [i \in 1..m |-> <<>>]
    BY <1>4 DEF Start
  <2>2. m \in Nat /\ k \in Nat /\ DOMAIN cells = 1..m /\ k * m \in Nat
    <3>1. \A a, b \in Nat : a * b \in Nat
      OBVIOUS
    <3> QED BY <3>1, CellsAre
  <2>3. Rounds' = 0..(k - 1) /\ DOMAIN history' = 1..m /\ DOMAIN work' = 1..(k * m)
    BY <1>1, <2>1 DEF Rounds
  <2>4. \A c \in DOMAIN history' : \A round : DrawsOf(c, round)' = <<>>
    BY <2>1, DrawsNone DEF DrawsOf
  <2>5. \A i \in DOMAIN work' : /\ work'[i].round = (i - 1) \div m
                                /\ work'[i].cell = 1 + ((i - 1) % m) /\ work'[i].redraw = 0
    BY <2>1 DEF Slot
  <2> HIDE DEF m, k, Turn
  <2>6. pc' \notin Hand /\ ~PutBackNow'
    BY <2>1 DEF Hand, InSession, PutBackNow
  <2>7. InOrder(<<>>) /\ Ready(<<>>, 0)
    BY DEF InOrder, Ready
  <2>8. CASE m = 0
    <3>1. k * m = 0
      BY <2>2, <2>8
    <3>2. DOMAIN history' = {} /\ DOMAIN work' = {}
      BY <2>3, <2>8, <3>1
    <3> QED BY <2>6, <3>2 DEF TurnInv
  <2>9. CASE m # 0
    <3>1. \A i \in 1..(k * m) : (i - 1) \div m \in Nat /\ (i - 1) % m \in 0..(m - 1)
                                  /\ i = m * ((i - 1) \div m) + ((i - 1) % m) + 1
      BY <2>2, <2>9, TurnNumbers
    <3>2. \A r \in 0..(k - 1), c \in 1..m :
              \E i \in 1..(k * m) : (i - 1) \div m = r /\ 1 + ((i - 1) % m) = c
      BY <2>2, <2>9, TurnNumbers
    <3>3. \A i, j \in DOMAIN work' : Same(work'[i], work'[j].cell, work'[j].round) => i = j
      <4> SUFFICES ASSUME NEW i \in 1..(k * m), NEW j \in 1..(k * m),
                          (i - 1) \div m = (j - 1) \div m, 1 + ((i - 1) % m) = 1 + ((j - 1) % m)
                   PROVE  i = j
        BY <2>3, <2>5 DEF Same
      <4> DEFINE a == (i - 1) % m
                 b == (j - 1) % m
      <4>1. a \in 0..(m - 1) /\ b \in 0..(m - 1) /\ 1 + a = 1 + b
        BY <3>1
      <4>2. a = b
        <5> HIDE DEF a, b
        <5> QED BY <2>2, <4>1
      <4> QED BY <3>1, <4>2
    <3>4. \A c \in DOMAIN history', round \in Rounds' : \E i \in DOMAIN work' : Same(work'[i], c, round)
      <4> SUFFICES ASSUME NEW c \in 1..m, NEW round \in 0..(k - 1)
                   PROVE  \E i \in DOMAIN work' : Same(work'[i], c, round)
        BY <2>3
      <4>1. PICK i \in 1..(k * m) : (i - 1) \div m = round /\ 1 + ((i - 1) % m) = c
        BY <3>2
      <4> QED BY <2>3, <2>5, <4>1 DEF Same
    <3>5. \A i \in DOMAIN work' : work'[i].cell \in DOMAIN history'
      <4> SUFFICES ASSUME NEW i \in 1..(k * m) PROVE 1 + ((i - 1) % m) \in 1..m
        BY <2>3, <2>5
      <4> DEFINE a == (i - 1) % m
      <4>1. a \in 0..(m - 1)
        BY <3>1
      <4> HIDE DEF a
      <4>2. 1 + a \in 1..m
        BY <2>2, <4>1
      <4> QED BY <4>2 DEF a
    <3>6. \A c \in DOMAIN history', round \in Rounds' : Accounted(c, round)'
      BY <3>4 DEF Accounted
    <3>7. \A i \in DOMAIN work' : Ready(DrawsOf(work[i].cell, work[i].round), work[i].redraw)'
      BY <2>4, <2>5, <2>7, <3>5
    <3> QED BY <2>4, <2>6, <2>7, <3>3, <3>6, <3>7 DEF TurnInv
  <2> QED BY <2>8, <2>9
<1> QED BY <1>3, <1>4

LEMMA HeadTakesTurn == PlanInv /\ SeatInv /\ TurnInv /\ HeadTakes => TurnInv'
<1> SUFFICES ASSUME PlanInv, SeatInv, TurnInv, HeadTakes PROVE TurnInv'
  OBVIOUS
<1>1. /\ pc = "head" /\ args' = args /\ cells' = cells /\ spent' = spent /\ history' = history
      /\ breakers' = breakers /\ work # <<>> /\ work' = Tail(work)
  BY DEF HeadTakes, Rest
<1>2. /\ work \in Seq(Slots) /\ work[1] = Head(work)
      /\ Len(work) \in Nat /\ Len(work) > 0 /\ DOMAIN work = 1..Len(work)
      /\ DOMAIN work' = 1..(Len(work) - 1)
      /\ \A i \in DOMAIN work' : work'[i] = work[i + 1] /\ i + 1 \in DOMAIN work /\ i \in Nat
  <2>1. work \in Seq(Slots)
    BY DEF SeatInv
  <2>2. Len(work) \in Nat /\ DOMAIN work = 1..Len(work) /\ Len(work) > 0
    BY <1>1, <2>1, LenProperties, EmptySeq
  <2>3. /\ Len(Tail(work)) = Len(work) - 1 /\ Tail(work) \in Seq(Slots)
        /\ \A i \in 1..Len(Tail(work)) : Tail(work)[i] = work[i + 1]
    BY <1>1, <2>1, HeadTailProperties
  <2>4. DOMAIN Tail(work) = 1..Len(Tail(work))
    BY <2>3, LenProperties
  <2>5. work[1] = Head(work)
    BY <2>1
  <2> QED BY <1>1, <2>1, <2>2, <2>3, <2>4, <2>5
<1>3. /\ Rounds' = Rounds /\ \A c, round : DrawsOf(c, round)' = DrawsOf(c, round)
      /\ \A n : GivenUp(n)' = GivenUp(n)
  BY <1>1 DEF Rounds, DrawsOf, GivenUp, Budget
<1>4. pc \notin Hand /\ ~PutBackNow /\ ~PutBackNow' /\ Going
  BY <1>1 DEF Hand, InSession, PutBackNow, HeadTakes, Going
<1>5. \A i \in DOMAIN work : Ready(DrawsOf(work[i].cell, work[i].round), work[i].redraw)
  BY <1>4 DEF TurnInv
<1>6. \A i \in DOMAIN work' : Ready(DrawsOf(work[i].cell, work[i].round), work[i].redraw)'
  BY <1>2, <1>3, <1>5
<1>7. \A i, j \in DOMAIN work' : Same(work'[i], work'[j].cell, work'[j].round) => i = j
  <2> SUFFICES ASSUME NEW i \in DOMAIN work', NEW j \in DOMAIN work',
                      Same(work'[i], work'[j].cell, work'[j].round)
               PROVE  i = j
    OBVIOUS
  <2>1. i + 1 = j + 1
    BY <1>2 DEF TurnInv
  <2> QED BY <1>2, <2>1
<1>8. ASSUME NEW c \in DOMAIN history, NEW round \in Rounds,
             \/ Tripped(breakers[Head(work).cell])
             \/ pc' \in Hand /\ at' = Head(work)
      PROVE  Accounted(c, round)'
  <2>1. CASE Tripped(breakers[c])
    BY <1>1, <2>1 DEF Accounted
  <2>2. CASE \E i \in DOMAIN work : Same(work[i], c, round)
    <3>1. PICK i \in DOMAIN work : Same(work[i], c, round)
      BY <2>2
    <3>2. CASE i = 1
      <4>1. Same(Head(work), c, round)
        BY <1>2, <3>1, <3>2
      <4> QED BY <1>1, <1>8, <4>1 DEF Accounted, Same
    <3>3. CASE i # 1
      <4>1. i - 1 \in DOMAIN work' /\ (i - 1) + 1 = i
        BY <1>2, <3>3
      <4>2. Same(work'[i - 1], c, round)
        BY <1>2, <3>1, <4>1
      <4> QED BY <4>1, <4>2 DEF Accounted
    <3> QED BY <3>2, <3>3
  <2>3. CASE Settled(DrawsOf(c, round))
    BY <1>3, <2>3 DEF Accounted, Settled
  <2> QED BY <1>4, <2>1, <2>2, <2>3 DEF TurnInv, Accounted
<1>9. CASE Tripped(breakers[Head(work).cell])
  <2>1. pc' = "head"
    BY <1>1, <1>9 DEF HeadTakes
  <2>2. pc' \notin Hand
    BY <2>1 DEF Hand, InSession
  <2>3. \A c \in DOMAIN history', round \in Rounds' : Accounted(c, round)'
    BY <1>1, <1>3, <1>8, <1>9
  <2>4. \A c \in DOMAIN history', round \in Rounds' : InOrder(DrawsOf(c, round))'
    BY <1>1, <1>3 DEF TurnInv
  <2> QED BY <1>4, <1>6, <1>7, <2>2, <2>3, <2>4 DEF TurnInv
<1>10. CASE ~Tripped(breakers[Head(work).cell])
  <2>1. pc' = "draw" /\ at' = Head(work)
    BY <1>1, <1>10 DEF HeadTakes
  <2>2. pc' \in Hand
    BY <2>1 DEF Hand
  <2>3. \A c \in DOMAIN history', round \in Rounds' : Accounted(c, round)'
    BY <1>1, <1>3, <1>8, <2>1, <2>2
  <2>4. \A c \in DOMAIN history', round \in Rounds' : InOrder(DrawsOf(c, round))'
    BY <1>1, <1>3 DEF TurnInv
  <2>5. Ready(DrawsOf(at.cell, at.round), at.redraw)'
    BY <1>2, <1>3, <1>5, <2>1
  <2>6. \A i \in DOMAIN work' : ~Same(work'[i], at'.cell, at'.round)
    <3> SUFFICES ASSUME NEW i \in DOMAIN work', Same(work'[i], at'.cell, at'.round) PROVE FALSE
      OBVIOUS
    <3>1. 1 \in DOMAIN work /\ Same(work[i + 1], work[1].cell, work[1].round)
      BY <1>2, <2>1
    <3>2. i + 1 = 1
      BY <1>2, <3>1 DEF TurnInv
    <3> QED BY <1>2, <3>2
  <2> QED BY <1>4, <1>6, <1>7, <2>2, <2>3, <2>4, <2>5, <2>6 DEF TurnInv
<1> QED BY <1>9, <1>10
----------------------------------------------------------------------------
\* A breaker that has tripped stays so.
Steady == \A c \in DOMAIN history : Tripped(breakers[c]) => Tripped(breakers'[c])

LEMMA StaysTripped ==
  ASSUME NEW b \in Circuits, Tripped(b)
  PROVE  /\ \A served, limit : Tripped(CircuitRecord(b, served, limit))
         /\ \A why : Tripped(Trip(b, why))
<1> QED BY DEF CircuitRecord, Trip, Tripped, Circuits

LEMMA SteadyIs ==
  ASSUME PlanInv, SeatInv, CircuitInv, pc \in {"draw"} \cup InSession,
         \/ breakers' = breakers
         \/ \E served : breakers' = Recorded(served)
         \/ \E why : breakers' = TrippedFor(why)
  PROVE  Steady
<1>1. /\ at.cell \in DOMAIN breakers /\ DOMAIN breakers = DOMAIN history
      /\ breakers[at.cell] \in Circuits
  BY MineIs DEF Counts
<1>2. CASE breakers' = breakers
  BY <1>2 DEF Steady
<1>3. CASE \E served : breakers' = Recorded(served)
  <2>1. PICK served : breakers' = Recorded(served)
    BY <1>3
  <2>2. \A c \in DOMAIN history : breakers'[c] = IF c = at.cell
                                               THEN CircuitRecord(breakers[c], served, args.breaker)
                                               ELSE breakers[c]
    BY <1>1, <2>1 DEF Recorded
  <2> QED BY <1>1, <2>2, StaysTripped DEF Steady
<1>4. CASE \E why : breakers' = TrippedFor(why)
  <2>1. PICK why : breakers' = TrippedFor(why)
    BY <1>4
  <2>2. \A c \in DOMAIN history : breakers'[c] = IF c = at.cell THEN Trip(breakers[c], why)
                                               ELSE breakers[c]
    BY <1>1, <2>1 DEF TrippedFor
  <2> QED BY <1>1, <2>2, StaysTripped DEF Steady
<1> QED BY <1>2, <1>3, <1>4

\* The judgement of a probe: what never reached the target goes back to the
\* front, while there is a redraw for it.
LEMMA JudgeProbeTurn == PlanInv /\ SeatInv /\ AnswerInv /\ WorkInv /\ CircuitInv /\ TurnInv /\ JudgeProbe => TurnInv'
<1> SUFFICES ASSUME PlanInv, SeatInv, AnswerInv, WorkInv, CircuitInv, TurnInv, JudgeProbe PROVE TurnInv'
  OBVIOUS
<1>1. /\ pc = "judge" /\ pc' = "close" /\ judged' = TRUE /\ probe' = probe /\ at' = at
      /\ args' = args /\ cells' = cells /\ history' = history
  BY DEF JudgeProbe
<1>2. pc \in Hand /\ pc' \in Hand /\ ~PutBackNow /\ Going
  BY <1>1 DEF Hand, InSession, PutBackNow, Going
<1>3. Steady
  BY <1>1, SteadyIs DEF JudgeProbe, InSession
<1>4. /\ Rounds' = Rounds /\ \A c, round : DrawsOf(c, round)' = DrawsOf(c, round)
      /\ Redrawn' = Redrawn /\ Budget' = Budget
  BY <1>1 DEF Rounds, DrawsOf, Redrawn, Budget
<1>5. \A i \in DOMAIN work : ~Same(work[i], at.cell, at.round)
  BY <1>2 DEF TurnInv
<1>6. \A i \in DOMAIN work : Ready(DrawsOf(work[i].cell, work[i].round), work[i].redraw)
  BY <1>2 DEF TurnInv
<1>7. \A c \in DOMAIN history', round \in Rounds' : InOrder(DrawsOf(c, round))'
  BY <1>1, <1>4 DEF TurnInv
<1>8. Ready(DrawsOf(at.cell, at.round), at.redraw)'
  BY <1>1, <1>2, <1>4 DEF TurnInv
<1>9. CASE probe = "transport" /\ Redraws
  <2>1. work' = PutBack /\ spent' = spent + 1 /\ spent < Budget
    BY <1>9 DEF JudgeProbe, Redraws
  <2>2. PutBackNow'
    BY <1>1, <1>9 DEF PutBackNow
  <2>3. /\ Len(work) \in Nat /\ DOMAIN work = 1..Len(work)
        /\ DOMAIN work' = 1..(Len(work) + 1) /\ work'[1] = Redrawn
        /\ \A i \in DOMAIN work : work'[i + 1] = work[i]
        /\ \A i \in DOMAIN work' : i = 1 \/ (i - 1 \in DOMAIN work /\ work'[i] = work[i - 1])
    <3>1. work \in Seq(Slots)
      BY DEF SeatInv
    <3>2. work \in Seq(Slots \cup {Redrawn}) /\ <<Redrawn>> \in Seq(Slots \cup {Redrawn})
          /\ Len(<<Redrawn>>) = 1 /\ <<Redrawn>>[1] = Redrawn
      BY <3>1, SeqMonotonic
    <3>3. Len(work) \in Nat /\ DOMAIN work = 1..Len(work)
      BY <3>1, LenProperties
    <3> DEFINE one == <<Redrawn>>
    <3> HIDE DEF one
    <3>4. /\ one \o work \in Seq(Slots \cup {Redrawn}) /\ Len(one \o work) = Len(one) + Len(work)
          /\ \A i \in 1..(Len(one) + Len(work)) :
               (one \o work)[i] = IF i <= Len(one) THEN one[i] ELSE work[i - Len(one)]
      BY <3>2, ConcatProperties DEF one
    <3>5. Len(one) = 1 /\ one[1] = Redrawn /\ work' = one \o work
      BY <2>1, <3>2 DEF one, PutBack
    <3>6. DOMAIN work' = 1..(Len(work) + 1)
      BY <3>3, <3>4, <3>5, LenProperties
    <3>7. \A i \in 1..(Len(work) + 1) : work'[i] = IF i <= 1 THEN Redrawn ELSE work[i - 1]
      BY <3>3, <3>4, <3>5
    <3> HIDE DEF one
    <3> QED BY <3>3, <3>6, <3>7
  <2>4. Same(Redrawn, at.cell, at.round)
    BY DEF Same, Redrawn, Slot
  <2>5. \A i, j \in DOMAIN work' : Same(work'[i], work'[j].cell, work'[j].round) => i = j
    <3> SUFFICES ASSUME NEW i \in DOMAIN work', NEW j \in DOMAIN work',
                        Same(work'[i], work'[j].cell, work'[j].round)
                 PROVE  i = j
      OBVIOUS
    <3>1. CASE i # 1 /\ j # 1
      <4>1. /\ i - 1 \in DOMAIN work /\ work'[i] = work[i - 1]
            /\ j - 1 \in DOMAIN work /\ work'[j] = work[j - 1]
        BY <2>3, <3>1
      <4>2. i - 1 = j - 1
        BY <4>1 DEF TurnInv
      <4> QED BY <2>3, <4>2
    <3>2. CASE i = 1 /\ j # 1
      <4>1. j - 1 \in DOMAIN work /\ work'[j] = work[j - 1] /\ work'[i] = Redrawn
        BY <2>3, <3>2
      <4>2. Same(work[j - 1], at.cell, at.round)
        BY <2>4, <4>1 DEF Same
      <4> QED BY <1>5, <4>1, <4>2
    <3>3. CASE i # 1 /\ j = 1
      <4>1. i - 1 \in DOMAIN work /\ work'[i] = work[i - 1] /\ work'[j] = Redrawn
        BY <2>3, <3>3
      <4>2. Same(work[i - 1], at.cell, at.round)
        BY <2>4, <4>1 DEF Same
      <4> QED BY <1>5, <4>1, <4>2
    <3> QED BY <3>1, <3>2, <3>3
  <2>6. \A i \in DOMAIN work' :
          (PutBackNow' /\ work'[i] = Redrawn') \/ Ready(DrawsOf(work[i].cell, work[i].round), work[i].redraw)'
    BY <1>4, <1>6, <2>2, <2>3
  <2>7. \A i \in DOMAIN work' : Same(work'[i], at'.cell, at'.round) => PutBackNow' /\ work'[i] = Redrawn'
    BY <1>1, <1>4, <1>5, <2>2, <2>3
  <2>8. ASSUME NEW c \in DOMAIN history, NEW round \in Rounds PROVE Accounted(c, round)'
    <3>1. CASE Tripped(breakers[c])
      BY <1>3, <3>1 DEF Steady, Accounted
    <3>2. CASE \E i \in DOMAIN work : Same(work[i], c, round)
      <4>1. PICK i \in DOMAIN work : Same(work[i], c, round)
        BY <3>2
      <4>2. i + 1 \in DOMAIN work' /\ work'[i + 1] = work[i]
        BY <2>3, <4>1
      <4> QED BY <4>1, <4>2 DEF Accounted
    <3>3. CASE Same(at, c, round)
      BY <1>1, <1>2, <3>3 DEF Accounted
    <3>4. CASE Settled(DrawsOf(c, round))
      <4>1. \A n : GivenUp(n) => GivenUp(n)'
        BY <1>1, <2>1, CellsAre DEF GivenUp, WorkInv
      <4>2. Settled(DrawsOf(c, round))'
        BY <1>4, <3>4, <4>1 DEF Settled
      <4> QED BY <4>2 DEF Accounted
    <3> QED BY <1>2, <3>1, <3>2, <3>3, <3>4 DEF TurnInv, Accounted
  <2>9. \E i \in DOMAIN work' : work'[i] = Redrawn'
    BY <1>4, <2>3
  <2> QED BY <1>1, <1>4, <1>7, <1>8, <2>5, <2>6, <2>7, <2>8, <2>9 DEF TurnInv
<1>10. CASE ~(probe = "transport" /\ Redraws)
  <2>1. work' = work /\ spent' = spent
    BY <1>10 DEF JudgeProbe
  <2>2. \A n : GivenUp(n)' = GivenUp(n)
    BY <1>1, <1>4, <2>1 DEF GivenUp
  <2>3. PutBackNow' => GivenUp(at.redraw + 1)'
    <3> SUFFICES ASSUME PutBackNow' PROVE GivenUp(at.redraw + 1)
      BY <1>1, <2>2
    <3>1. probe = "transport" /\ ~Redraws
      BY <1>1, <1>10 DEF PutBackNow
    <3>2. /\ at.redraw \in Int /\ args.redraws \in Int /\ spent \in Nat /\ Budget \in Nat /\ spent <= Budget
      <4>1. at.redraw \in {0} \cup (1..args.redraws) /\ args.redraws \in Int
        BY <1>1, InHand, CellsAre DEF Slots, InSession
      <4>2. spent \in Nat /\ Budget \in Nat /\ spent <= Budget
        BY BudgetIsNat DEF WorkInv, RedrawIsNext
      <4> QED BY <4>1, <4>2
    <3> QED BY <3>1, <3>2 DEF Redraws, GivenUp
  <2>4. ASSUME NEW c \in DOMAIN history, NEW round \in Rounds PROVE Accounted(c, round)'
    <3>1. Accounted(c, round)
      BY <1>2 DEF TurnInv
    <3>2. Settled(DrawsOf(c, round)) => Settled(DrawsOf(c, round))'
      BY <1>4, <2>2 DEF Settled
    <3> QED BY <1>1, <1>2, <1>3, <2>1, <3>1, <3>2 DEF Accounted, Steady
  <2>5. \A i \in DOMAIN work' : Ready(DrawsOf(work[i].cell, work[i].round), work[i].redraw)'
    BY <1>4, <1>6, <2>1
  <2>6. \A i \in DOMAIN work' : ~Same(work'[i], at'.cell, at'.round)
    BY <1>1, <1>5, <2>1
  <2>7. \A i, j \in DOMAIN work' : Same(work'[i], work'[j].cell, work'[j].round) => i = j
    BY <2>1 DEF TurnInv
  <2> QED BY <1>1, <1>4, <1>7, <1>8, <2>3, <2>4, <2>5, <2>6, <2>7 DEF TurnInv
<1> QED BY <1>9, <1>10
----------------------------------------------------------------------------
\* The end of a draw: one more of its identity, and of no other.
LEMMA RetiredDraws ==
  ASSUME PlanInv, SeatInv, AnswerInv, CircuitInv, TurnInv, pc \in Hand,
         NEW end \in Raisings \cup {"skipped"}, history' = Noted(end), args' = args
  PROVE  /\ DOMAIN history' = DOMAIN history
         /\ \A c \in DOMAIN history : \A round :
              ~Same(at, c, round) => DrawsOf(c, round)' = DrawsOf(c, round)
         /\ InOrder(DrawsIn(history'[at.cell], at.round))
         /\ Len(DrawsIn(history'[at.cell], at.round)) = at.redraw + 1
         /\ DrawsIn(history'[at.cell], at.round)[at.redraw + 1] = Fate(end)
<1>1. /\ at.cell \in DOMAIN history /\ history[at.cell] \in Seq(Fates) /\ at.round \in Rounds
      /\ at.redraw \in {0} \cup (1..args.redraws)
  BY MineIs DEF Hand
<1> DEFINE fate == Fate(end)
<1>2. fate \in Fates /\ fate.round = at.round /\ fate.redraw = at.redraw
  BY <1>1 DEF Fate, Fates, AnswerInv
<1> HIDE DEF fate
<1>3. /\ DOMAIN history' = DOMAIN history /\ history'[at.cell] = Append(history[at.cell], fate)
      /\ \A c \in DOMAIN history : c # at.cell => history'[c] = history[c]
  BY <1>1 DEF Noted, fate
<1>4. \A round : DrawsIn(Append(history[at.cell], fate), round) =
                   IF fate.round = round THEN Append(DrawsIn(history[at.cell], round), fate)
                   ELSE DrawsIn(history[at.cell], round)
  <2> DEFINE h == history[at.cell]
  <2>1. h \in Seq(Fates) /\ fate \in Fates
    BY <1>1, <1>2
  <2> HIDE DEF h
  <2>2. \A round : DrawsIn(Append(h, fate), round) =
                     IF fate.round = round THEN Append(DrawsIn(h, round), fate) ELSE DrawsIn(h, round)
    BY <2>1, DrawsGrow
  <2> QED BY <2>2 DEF h
<1>5. ASSUME NEW c \in DOMAIN history, NEW round, ~Same(at, c, round)
      PROVE  DrawsIn(history'[c], round) = DrawsIn(history[c], round)
  <2>1. CASE c # at.cell
    BY <1>3, <2>1
  <2>2. CASE c = at.cell
    BY <1>2, <1>3, <1>4, <1>5, <2>2 DEF Same
  <2> QED BY <2>1, <2>2
<1>6. /\ DrawsIn(history[at.cell], at.round) \in Seq(Fates)
      /\ InOrder(DrawsIn(history[at.cell], at.round))
      /\ Ready(DrawsIn(history[at.cell], at.round), fate.redraw)
  BY <1>1, <1>2, DrawsGrow DEF TurnInv, DrawsOf
<1>7. DrawsIn(history'[at.cell], at.round) = Append(DrawsIn(history[at.cell], at.round), fate)
  BY <1>2, <1>3, <1>4
<1>8. /\ InOrder(DrawsIn(history'[at.cell], at.round))
      /\ Len(DrawsIn(history'[at.cell], at.round)) = at.redraw + 1
      /\ DrawsIn(history'[at.cell], at.round)[at.redraw + 1] = fate
  BY <1>2, <1>6, <1>7, OneMoreDraw
<1>9. \A c \in DOMAIN history : \A round : ~Same(at, c, round) => DrawsOf(c, round)' = DrawsOf(c, round)
  BY <1>5 DEF DrawsOf
<1>10. fate = Fate(end)
  BY DEF fate
<1> QED BY <1>3, <1>8, <1>9, <1>10
----------------------------------------------------------------------------
LEMMA DrawsAre ==
  ASSUME NEW V, NEW h \in Seq(V), NEW round PROVE DrawsIn(h, round) \in Seq(V)
<1> QED BY PickedIn, LenProperties DEF DrawsIn

LEMMA RetireTurn ==
  ASSUME PlanInv, SeatInv, AnswerInv, CircuitInv, TurnInv, pc \in Hand, pc' \in {"head", "over"},
         NEW end \in Raisings \cup {"skipped"}, history' = Noted(end),
         args' = args, cells' = cells, at' = at, work' = work, spent' = spent, Steady
  PROVE  TurnInv'
<1> DEFINE fate == Fate(end)
<1>a. PICK done : done = DrawsIn(history'[at.cell], at.round)
  OBVIOUS
<1>1. /\ at.cell \in DOMAIN history /\ at.round \in Rounds /\ DOMAIN history = DOMAIN cells
      /\ at.redraw \in {0} \cup (1..args.redraws)
  BY MineIs DEF Hand, SeatInv, InSession
<1>2. /\ DOMAIN history' = DOMAIN history
      /\ \A c \in DOMAIN history : \A round :
           ~Same(at, c, round) => DrawsOf(c, round)' = DrawsOf(c, round)
      /\ InOrder(done) /\ Len(done) = at.redraw + 1 /\ done[at.redraw + 1] = fate
  BY <1>a, RetiredDraws
<1>3. \A c \in DOMAIN history : \A round : Same(at, c, round) => DrawsOf(c, round)' = done
  BY <1>a DEF Same, DrawsOf
<1>4. /\ Rounds' = Rounds /\ Redrawn' = Redrawn /\ \A n : GivenUp(n)' = GivenUp(n)
  BY DEF Rounds, Redrawn, GivenUp, Budget
<1>5. pc' \notin Hand /\ ~PutBackNow' /\ Going
  BY DEF Hand, InSession, PutBackNow, Going
<1>6. Unreached(fate) <=> PutBackNow
  BY DEF Unreached, Fate, PutBackNow, AnswerInv
<1>7. /\ Redrawn.redraw = at.redraw + 1 /\ Redrawn.cell = at.cell /\ Redrawn.round = at.round
  BY DEF Redrawn, Slot
<1> HIDE DEF fate
<1>8. \A c \in DOMAIN history', round \in Rounds' : InOrder(DrawsOf(c, round))'
  <2> SUFFICES ASSUME NEW c \in DOMAIN history, NEW round \in Rounds PROVE InOrder(DrawsOf(c, round))'
    BY <1>2, <1>4
  <2>1. CASE Same(at, c, round)
    BY <1>2, <1>3, <2>1
  <2>2. CASE ~Same(at, c, round)
    BY <1>2, <2>2 DEF TurnInv
  <2> QED BY <2>1, <2>2
<1>9. \A i \in DOMAIN work' : Ready(DrawsOf(work[i].cell, work[i].round), work[i].redraw)'
  <2> SUFFICES ASSUME NEW i \in DOMAIN work
               PROVE  Ready(DrawsOf(work[i].cell, work[i].round), work[i].redraw)'
    OBVIOUS
  <2>0. work[i].cell \in DOMAIN history
    <3>1. work \in Seq(Slots)
      BY DEF SeatInv
    <3>2. work[i] \in Slots
      BY <3>1, ElementOfSeq, LenProperties
    <3> QED BY <1>1, <3>2 DEF Slots
  <2>1. CASE Same(work[i], at.cell, at.round)
    <3>1. PutBackNow /\ work[i] = Redrawn
      BY <2>1 DEF TurnInv
    <3>2. DrawsOf(work[i].cell, work[i].round)' = done
      BY <1>3, <2>0, <2>1 DEF Same
    <3>3. work'[i].redraw = at.redraw + 1
      BY <1>7, <3>1
    <3> QED BY <1>2, <1>6, <3>1, <3>2, <3>3 DEF Ready
  <2>2. CASE ~Same(work[i], at.cell, at.round)
    <3>1. work[i] # Redrawn
      BY <1>7, <2>2 DEF Same
    <3>2. Ready(DrawsOf(work[i].cell, work[i].round), work[i].redraw)
      BY <3>1 DEF TurnInv
    <3>3. DrawsOf(work[i].cell, work[i].round)' = DrawsOf(work[i].cell, work[i].round)
      BY <1>2, <2>0, <2>2 DEF Same
    <3> QED BY <3>2, <3>3
  <2> QED BY <2>1, <2>2
<1>10. ASSUME NEW c \in DOMAIN history, NEW round \in Rounds PROVE Accounted(c, round)'
  <2>1. CASE Same(at, c, round)
    <3>1. DrawsOf(c, round)' = done
      BY <1>3, <2>1
    <3>2. CASE PutBackNow /\ \E i \in DOMAIN work : work[i] = Redrawn
      <4>1. PICK i \in DOMAIN work : work[i] = Redrawn
        BY <3>2
      <4>2. Same(work'[i], c, round)
        BY <1>7, <2>1, <4>1 DEF Same
      <4> QED BY <4>1, <4>2 DEF Accounted
    <3>3. CASE PutBackNow => GivenUp(at.redraw + 1)
      <4>1. Len(done) > 0 /\ (Unreached(done[Len(done)]) => GivenUp(Len(done))')
        <5>1. at.redraw + 1 > 0
          BY <1>1
        <5> QED BY <1>2, <1>4, <1>6, <3>3, <5>1
      <4>2. Settled(DrawsOf(c, round))'
        BY <3>1, <4>1 DEF Settled
      <4> QED BY <4>2 DEF Accounted
    <3> QED BY <3>2, <3>3 DEF TurnInv
  <2>2. CASE ~Same(at, c, round)
    <3>1. DrawsOf(c, round)' = DrawsOf(c, round)
      BY <1>2, <2>2
    <3>2. Accounted(c, round)
      BY <1>5 DEF TurnInv
    <3>3. Settled(DrawsOf(c, round)) => Settled(DrawsOf(c, round))'
      BY <1>4, <3>1 DEF Settled
    <3> QED BY <2>2, <3>2, <3>3 DEF Accounted, Steady
  <2> QED BY <2>1, <2>2
<1>11. \A i, j \in DOMAIN work' : Same(work'[i], work'[j].cell, work'[j].round) => i = j
  BY DEF TurnInv
<1> QED BY <1>2, <1>4, <1>5, <1>8, <1>9, <1>10, <1>11 DEF TurnInv

LEMMA NextTurn ==
  PlanInv /\ SeatInv /\ AnswerInv /\ WorkInv /\ CircuitInv /\ TurnInv /\ [Next]_vars => TurnInv'
<1> SUFFICES ASSUME PlanInv, SeatInv, AnswerInv, WorkInv, CircuitInv, TurnInv, [Next]_vars PROVE TurnInv'
  OBVIOUS
<1>0. args' = args /\ cells' = cells
  BY PlanKept
<1>1. CASE Start \/ HeadTakes \/ JudgeProbe
  BY <1>1, StartTurn, HeadTakesTurn, JudgeProbeTurn
<1>2. CASE Close
  <2>1. /\ pc = "close" /\ pc' \in {"head", "over"} /\ at' = at /\ work' = work /\ spent' = spent
    BY <1>2 DEF Close
  <2>2. PICK why \in Raisings : breakers' = Handled(why) /\ history' = Noted(why)
    <3>1. PICK fails \in BOOLEAN :
            /\ breakers' = Handled(IF fails THEN "exception" ELSE raised)
            /\ history' = Noted(IF fails THEN "exception" ELSE raised)
      BY <1>2 DEF Close
    <3>2. raised \in Raisings /\ "exception" \in Raisings
      BY DEF AnswerInv, Raisings
    <3> QED BY <3>1, <3>2
  <2>3. \/ breakers' = breakers
        \/ \E served : breakers' = Recorded(served)
        \/ \E reason : breakers' = TrippedFor(reason)
    BY <2>2 DEF Handled
  <2>4. Steady
    BY <2>1, <2>3, SteadyIs DEF InSession
  <2>5. pc \in Hand
    BY <2>1 DEF Hand, InSession
  <2> QED BY <1>0, <2>1, <2>2, <2>4, <2>5, RetireTurn
<1>3. CASE Draw /\ pc' = "head"
  <2>1. /\ pc = "draw" /\ at' = at /\ work' = work /\ spent' = spent /\ breakers' = breakers
        /\ history' = Noted("skipped")
    BY <1>3 DEF Draw
  <2>2. Steady /\ pc \in Hand
    BY <2>1 DEF Steady, Hand
  <2> QED BY <1>0, <1>3, <2>1, <2>2, RetireTurn
<1>4. CASE Restart
  <2>1. work' = <<>> /\ history' = <<>> /\ pc' = "start"
    BY <1>4 DEF Restart, Renewed
  <2>2. DOMAIN work' = {} /\ DOMAIN history' = {} /\ pc' \notin Hand /\ ~PutBackNow'
    BY <2>1 DEF Hand, InSession, PutBackNow
  <2> QED BY <2>2 DEF TurnInv
<1>5. CASE LadderPreflight
  <2>1. work' = work /\ history' = history /\ pc' \in {"start", "done"} /\ pc = "ladder"
    BY <1>5 DEF LadderPreflight
  <2>2. DOMAIN work' = {} /\ DOMAIN history' = {} /\ pc' \notin Hand /\ ~PutBackNow'
    BY <2>1 DEF Hand, InSession, PutBackNow, SeatInv
  <2> QED BY <2>2 DEF TurnInv
<1>6. CASE Leave \/ HeadEnds \/ Crash \/ (Draw /\ pc' = "over")
  <2>1. /\ work' = work /\ history' = history /\ spent' = spent /\ breakers' = breakers
        /\ pc \in {"over", "head", "draw"} /\ pc' \in {"over", "done"}
        /\ \/ pc = "head"
           \/ pc = "over" /\ code' = code
           \/ code' = 1
    BY <1>6 DEF Leave, HeadEnds, Crash, Draw
  <2>2. ~PutBackNow /\ ~PutBackNow' /\ pc' \notin Hand /\ (Going' => Going /\ pc \notin Hand)
    BY <2>1 DEF Hand, InSession, PutBackNow, Going
  <2> QED BY <1>0, <2>1, <2>2, TurnKept
<1>7. CASE Draw /\ pc' = "open"
  <2>1. /\ work' = work /\ history' = history /\ spent' = spent /\ breakers' = breakers
        /\ pc = "draw" /\ at' = at
    BY <1>7 DEF Draw
  <2>2. ~PutBackNow /\ ~PutBackNow' /\ pc \in Hand /\ pc' \in Hand /\ Going
    BY <1>7, <2>1 DEF Hand, InSession, PutBackNow, Going
  <2> QED BY <1>0, <2>1, <2>2, TurnKept
<1>8. CASE Open \/ OpenFails \/ CheckDirect \/ OpenPage \/ Visit \/ SendQuery \/ FetchRaises \/ OnRow
           \/ Interrupt
  <2>1. /\ work' = work /\ history' = history /\ spent' = spent /\ at' = at /\ judged' = judged
        /\ pc \in InSession \ {"close"} /\ pc' \in InSession
        /\ (breakers' = breakers \/ \E why : breakers' = TrippedFor(why))
    BY <1>8 DEF Open, OpenFails, CheckDirect, OpenPage, Visit, SendQuery, FetchRaises, OnRow, AfterRow,
                Interrupt, InSession
  <2>2. Steady
    BY <2>1, SteadyIs
  <2>3. ~judged'
    BY <2>1 DEF AnswerInv
  <2>4. ~PutBackNow /\ ~PutBackNow' /\ pc \in Hand /\ pc' \in Hand /\ Going
    BY <2>1, <2>3 DEF Hand, InSession, PutBackNow, Going
  <2> QED BY <1>0, <2>1, <2>2, <2>4, TurnKept DEF Steady
<1>9. CASE Move \/ AskToStop \/ Age \/ Done \/ UNCHANGED vars
  <2>1. /\ work' = work /\ history' = history /\ spent' = spent /\ at' = at /\ judged' = judged
        /\ pc' = pc /\ breakers' = breakers /\ probe' = probe /\ code' = code
    BY <1>9 DEF Move, AskToStop, Age, Done, vars
  <2>2. /\ Rounds' = Rounds /\ \A c, round : DrawsOf(c, round)' = DrawsOf(c, round)
        /\ \A n : GivenUp(n)' = GivenUp(n)
        /\ Redrawn' = Redrawn /\ PutBackNow' = PutBackNow /\ Going' = Going
    BY <1>0, <2>1 DEF Rounds, DrawsOf, GivenUp, Budget, Redrawn, PutBackNow, Going
  <2>3. \A c, round : Accounted(c, round)' = Accounted(c, round)
    BY <2>1, <2>2 DEF Accounted, Settled
  <2> QED BY <1>0, <2>1, <2>2, <2>3 DEF TurnInv
<1>10. Draw => pc' \in {"head", "over", "open"}
  BY DEF Draw
<1> QED
  BY <1>1, <1>2, <1>3, <1>4, <1>5, <1>6, <1>7, <1>8, <1>9, <1>10 DEF Next, Process, Around

\* However probes fail and breakers trip, the draws of an identity are numbered
\* in order and each follows a probe that never reached its target; and a run
\* that emptied its deque has drawn every identity of every cell it did not
\* stop, giving one up unreached only with no redraw left (probe_and_hold.py,
\* the loop of main).
THEOREM DrawnOnce == Spec => []IdentitiesDrawn
<1> DEFINE All == PlanInv /\ SeatInv /\ AnswerInv /\ WorkInv /\ CircuitInv /\ TurnInv
<1>1. Init => All
  <2>1. Init => PlanInv
    BY DEF Init, PlanInv
  <2>2. Init => CircuitInv
    BY DEF Init, Fresh, CircuitInv, InSession
  <2> QED BY <2>1, <2>2, InitSeat, InitAnswer, InitWork, InitTurn
<1>2. All /\ [Next]_vars => All'
  BY NextPlan, NextSeat, NextAnswer, NextWork, NextCircuit, NextTurn
<1>3. All => IdentitiesDrawn
  <2> SUFFICES ASSUME All, NEW c \in DOMAIN history, NEW round \in Rounds
               PROVE  LET draws == DrawsOf(c, round)
                          n == Len(draws)
                      IN  /\ InOrder(draws) /\ (n <= 1 \/ n <= args.redraws + 1)
                          /\ Finished /\ ~Tripped(breakers[c]) =>
                               n > 0 /\ (Unreached(draws[n]) => n > args.redraws \/ spent = Budget)
    BY DEF IdentitiesDrawn
  <2> DEFINE draws == DrawsOf(c, round)
             n == Len(draws)
  <2>1. InOrder(draws)
    BY DEF TurnInv
  <2>2. draws \in Seq(Fates)
    BY DrawsAre DEF CircuitInv, DrawsOf
  <2>3. n <= 1 \/ n <= args.redraws + 1
    <3>1. n \in Nat /\ DOMAIN draws = 1..n
      BY <2>2, LenProperties
    <3>2. CASE n > 1
      <4>1. draws[n] \in Fates /\ draws[n].redraw = n - 1
        BY <2>1, <2>2, <3>1, <3>2, ElementOfSeq DEF InOrder
      <4>2. draws[n].redraw \in {0} \cup (1..args.redraws)
        BY <4>1 DEF Fates
      <4>3. args.redraws \in Int
        BY CellsAre
      <4> HIDE DEF draws, n
      <4> QED BY <3>1, <3>2, <4>1, <4>2, <4>3
    <3> QED BY <3>1, <3>2
  <2>4. ASSUME Finished, ~Tripped(breakers[c])
        PROVE  n > 0 /\ (Unreached(draws[n]) => n > args.redraws \/ spent = Budget)
    <3>1. Going /\ DOMAIN work = {} /\ pc \notin Hand
      BY <2>4 DEF Finished, Going, Hand, InSession
    <3>2. Accounted(c, round)
      BY <3>1 DEF TurnInv
    <3> QED BY <2>4, <3>1, <3>2 DEF Accounted, Settled, GivenUp
  <2> QED BY <2>1, <2>3, <2>4
<1> HIDE DEF All
<1> QED BY <1>1, <1>2, <1>3, PTL DEF Spec
----------------------------------------------------------------------------
(* The rows of a draw: where they stand, what the probe among them says,   *)
(* which query follows which, and the pages that came before.              *)

Now == Len(history[at.cell])
OfDraw(r, c, d) == r.cell = c /\ r.draw = d
Here(r) == OfDraw(r, at.cell, Now)
Walking == {"open", "direct", "page", "walk", "row"}

\* A row is of a draw that is over, or of the session in hand.
PlacedInv ==
  \A i \in DOMAIN rows :
    /\ rows[i].cell \in DOMAIN history /\ rows[i].draw \in Nat
    /\ rows[i].draw < Len(history[rows[i].cell]) \/ (pc \in InSession /\ Here(rows[i]))

\* What a row can be: the probe is the query of position 0, and an attempt has
\* a verdict.
Column1(r) ==
  /\ r.phase \in Phases
  /\ r.phase = "probe" => r.position = 0
  /\ r.phase = "hold" => r.position \in Nat \ {0}
  /\ r.phase # "warm" => r.verdict \in Verdicts /\ (r.verdict = "error" => r.error \in Named)
ColumnsInv == \A i \in DOMAIN rows : Column1(rows[i])

\* The answer of a draw is what its probe row says, and each draw that has an
\* answer has such a row.
Said(r) ==
  CASE r.verdict = "error" -> r.error
    [] r.verdict = "ok" -> "ok"
    [] OTHER -> "refused"
AnswerTo(r) ==
  IF r.draw < Len(history[r.cell]) THEN history[r.cell][r.draw + 1].probe ELSE probe
HasProbe(c, d) == \E i \in Probes(rows) : OfDraw(rows[i], c, d)
SaidInv ==
  /\ \A i \in Probes(rows) : AnswerTo(rows[i]) = Said(rows[i])
  /\ \A c \in DOMAIN history : \A d \in DOMAIN history[c] :
       history[c][d].probe # "none" => HasProbe(c, d - 1)
  /\ pc \in InSession /\ probe # "none" => HasProbe(at.cell, Now)
  /\ pc \notin InSession => probe = "none"

\* A query that holds the exit follows a served one of the position before.
Follows(j, c, d, position) ==
  /\ j \in DOMAIN rows /\ OfDraw(rows[j], c, d)
  /\ rows[j].verdict = "ok" /\ rows[j].position = position - 1
  /\ rows[j].phase = IF position = 1 THEN "probe" ELSE "hold"
OneEach ==
  \A i, j \in Attempts(rows) :
    OfDraw(rows[i], rows[j].cell, rows[j].draw) /\ rows[i].position = rows[j].position => i = j
Chained ==
  \A i \in Holds(rows) :
    \E j \in DOMAIN rows : Follows(j, rows[i].cell, rows[i].draw, rows[i].position)
Reached ==
  /\ walk.position > 0 => probe = "ok" /\ \E j \in DOMAIN rows : Follows(j, at.cell, Now, walk.position)
  /\ walk.position > 0 => walk.page > Len(Planned)
  /\ pc = "row" /\ row.phase # "warm" => walk.page > Len(Planned)
  /\ pc = "row" => /\ row.phase = "hold" => walk.position > 0
                   /\ row.phase # "hold" => walk.position = 0
  /\ \A i \in Attempts(rows) : Here(rows[i]) => rows[i].position < walk.position
ChainInv == OneEach /\ Chained /\ (pc \in Walking => Reached)

\* The pages an identity has are those its own visits brought.
Visited(c, d) ==
  {j \in DOMAIN rows : rows[j].phase = "warm" /\ rows[j].error = "none" /\ OfDraw(rows[j], c, d)}
Bringing == pc = "row" /\ row.phase = "warm" /\ row.error = "none"
PagesInv ==
  /\ \A i \in Probes(rows) :
       rows[i].delivered = Cardinality(Visited(rows[i].cell, rows[i].draw))
  /\ pc \in Walking => walk.delivered = Cardinality(Visited(at.cell, Now)) + Ones(Bringing)

DrawRowsInv == PlacedInv /\ ColumnsInv /\ SaidInv /\ ChainInv /\ PagesInv
----------------------------------------------------------------------------
LEMMA RowsAreList ==
  ASSUME RowsInv
  PROVE  /\ Len(rows) \in Nat /\ DOMAIN rows = 1..Len(rows) /\ IsFiniteSet(DOMAIN rows)
         /\ Probes(rows) \subseteq DOMAIN rows /\ Holds(rows) \subseteq DOMAIN rows
         /\ Attempts(rows) \subseteq DOMAIN rows
<1>1. PICK V : rows \in Seq(V)
  BY DEF RowsInv
<1>2. Len(rows) \in Nat /\ DOMAIN rows = 1..Len(rows)
  BY <1>1, LenProperties
<1>3. IsFiniteSet(1..Len(rows))
  BY <1>2, FS_Interval
<1> QED BY <1>2, <1>3 DEF Probes, Holds, Attempts, Where

LEMMA NoRows ==
  ASSUME DOMAIN rows = {}
  PROVE  /\ PlacedInv /\ ColumnsInv /\ OneEach /\ Chained
         /\ \A i \in Probes(rows) : FALSE
         /\ \A c, d : Visited(c, d) = {}
<1> QED BY DEF PlacedInv, ColumnsInv, OneEach, Chained, Visited, Probes, Holds, Attempts, Where

\* Before a run's first identity there are no draws, and so no rows.
LEMMA DrawRowsNone ==
  ASSUME DOMAIN rows = {}, DOMAIN history = {}, probe = "none", pc \notin InSession
  PROVE  DrawRowsInv
<1>1. SaidInv
  BY NoRows DEF SaidInv
<1>2. pc \notin Walking
  BY DEF Walking, InSession
<1>3. ChainInv /\ PagesInv
  BY <1>2, NoRows DEF ChainInv, PagesInv
<1> QED BY <1>1, <1>3, NoRows DEF DrawRowsInv

\* A step that writes no row, ends no draw and walks no further.
LEMMA DrawRowsKept ==
  ASSUME DrawRowsInv, rows' = rows, history' = history,
         pc' \in InSession <=> pc \in InSession,
         probe' = probe,
         pc \in InSession => at' = at,
         pc' \in Walking => /\ pc \in Walking /\ walk' = walk /\ row' = row /\ Planned' = Planned
                            /\ (pc' = "row" <=> pc = "row")
  PROVE  DrawRowsInv'
<1> USE DEF DrawRowsInv
<1>1. PlacedInv'
  BY DEF PlacedInv, Here, Now
<1>2. ColumnsInv'
  BY DEF ColumnsInv, Column1
<1>3. SaidInv'
  <2>1. \A i \in Probes(rows) : AnswerTo(rows[i])' = AnswerTo(rows[i])
    BY DEF AnswerTo
  <2>2. \A i \in Probes(rows') : (AnswerTo(rows[i]) = Said(rows[i]))'
    BY <2>1 DEF SaidInv, Said
  <2>3. \A c, d : HasProbe(c, d)' = HasProbe(c, d)
    BY DEF HasProbe
  <2> QED BY <2>2, <2>3 DEF SaidInv, Now
<1>4. OneEach' /\ Chained'
  BY DEF ChainInv, OneEach, Chained, Follows
<1>5. Walking \subseteq InSession
  BY DEF Walking, InSession
<1>6. pc' \in Walking => Reached'
  <2> SUFFICES ASSUME pc' \in Walking PROVE Reached'
    OBVIOUS
  <2>1. /\ pc \in Walking /\ walk' = walk /\ row' = row /\ Planned' = Planned /\ at' = at
        /\ (pc' = "row" <=> pc = "row") /\ Now' = Now
    BY <1>5 DEF Now
  <2>2. Reached
    BY <2>1 DEF ChainInv
  <2>3. \A r : Here(r)' = Here(r)
    BY <2>1 DEF Here
  <2>4. \A j : Follows(j, at.cell, Now, walk.position)' = Follows(j, at.cell, Now, walk.position)
    BY <2>1 DEF Follows
  <2> QED BY <2>1, <2>2, <2>3, <2>4 DEF Reached
<1>7. PagesInv'
  <2>1. \A c, d : Visited(c, d)' = Visited(c, d)
    BY DEF Visited
  <2>2. ASSUME pc' \in Walking
        PROVE  walk'.delivered = Cardinality(Visited(at.cell, Now))' + Ones(Bringing)'
    <3>1. at' = at /\ Now' = Now /\ Bringing' = Bringing /\ walk' = walk /\ pc \in Walking
      BY <1>5, <2>2 DEF Now, Bringing
    <3> QED BY <2>1, <3>1 DEF PagesInv
  <2> QED BY <2>1, <2>2 DEF PagesInv
<1> QED BY <1>1, <1>2, <1>3, <1>4, <1>6, <1>7 DEF ChainInv

\* A session begins with nothing of its draw among the rows.
LEMMA DrawRowsOpen ==
  ASSUME DrawRowsInv, RowsInv, rows' = rows, history' = history, at' = at, probe' = probe,
         pc = "draw", pc' = "open", walk' = NoWalk
  PROVE  DrawRowsInv'
<1> USE DEF DrawRowsInv
<1>1. pc \notin InSession /\ pc' \in InSession /\ pc' # "row"
  BY DEF InSession
<1>2. \A i \in DOMAIN rows : ~Here(rows[i])
  <2> SUFFICES ASSUME NEW i \in DOMAIN rows, Here(rows[i]) PROVE FALSE
    OBVIOUS
  <2>1. rows[i].draw \in Nat /\ rows[i].draw < Len(history[rows[i].cell])
    BY <1>1 DEF PlacedInv
  <2> QED BY <2>1 DEF Here, OfDraw, Now
<1>3. PlacedInv'
  BY <1>1 DEF PlacedInv
<1>4. ColumnsInv'
  BY DEF ColumnsInv, Column1
<1>5. SaidInv'
  <2>1. \A i \in Probes(rows') : (AnswerTo(rows[i]) = Said(rows[i]))'
    <3>1. \A i \in Probes(rows) : AnswerTo(rows[i])' = AnswerTo(rows[i])
      BY DEF AnswerTo
    <3> QED BY <3>1 DEF SaidInv, Said
  <2>2. \A c, d : HasProbe(c, d)' = HasProbe(c, d)
    BY DEF HasProbe
  <2> QED BY <1>1, <2>1, <2>2 DEF SaidInv
<1>6. OneEach' /\ Chained'
  BY DEF ChainInv, OneEach, Chained, Follows
<1>7. walk'.position = 0 /\ walk'.delivered = 0
  BY DEF NoWalk
<1>8. Reached'
  <2>1. \A r : Here(r)' = Here(r)
    BY DEF Here, Now
  <2> QED BY <1>1, <1>2, <1>7, <2>1, RowsAreList DEF Reached
<1>9. PagesInv'
  <2>1. \A c, d : Visited(c, d)' = Visited(c, d)
    BY DEF Visited
  <2>2. Visited(at.cell, Now) = {}
    BY <1>2 DEF Visited, Here
  <2>3. Cardinality(Visited(at.cell, Now)) = 0 /\ Ones(Bringing)' = 0 /\ Now' = Now
    BY <1>1, <2>2, FS_EmptySet DEF Ones, Bringing, Now
  <2> QED BY <1>7, <2>1, <2>3 DEF PagesInv
<1> QED BY <1>3, <1>4, <1>5, <1>6, <1>8, <1>9 DEF ChainInv
----------------------------------------------------------------------------
(* The warm-up of a cell is a list of pages.                               *)

WarmPages == {"imghp", "translate", "scholar", "theverge", "wikihow", "trends", "arstechnica", "wired",
              "cnn", "cnet", "bestsellers", "help.shopee", "home"}
LEMMA LaddersAre ==
  \A name \in TargetNames : \A level \in DOMAIN TARGETS[name].ladder :
    TARGETS[name].ladder[level] \in Seq(WarmPages)
<1> USE DEF TARGETS, TargetNames, Target, IpInfo, GoogleSerp, DuckDuckGoSerp, BingSerp, AmazonSearch,
            WalmartSearch, GoogleMapsSearch, LazadaSearch, ShopeeSearch
<1>1. \A level \in DOMAIN GoogleLadder : GoogleLadder[level] \in Seq(WarmPages)
  <2>1. /\ <<"imghp">> \in Seq(WarmPages) /\ <<"theverge">> \in Seq(WarmPages)
        /\ <<"translate", "scholar", "imghp">> \in Seq(WarmPages)
    BY DEF WarmPages
  <2>2. <<"theverge", "wikihow", "translate", "scholar", "imghp", "trends">> \in Seq(WarmPages)
    BY DEF WarmPages
  <2>3. <<"theverge", "wikihow", "arstechnica", "wired", "cnn", "cnet">> \in Seq(WarmPages)
    BY DEF WarmPages
  <2> QED BY <2>1, <2>2, <2>3 DEF GoogleLadder
<1>2. DOMAIN NoLadder = {}
  BY DEF NoLadder
<1>3. <<"bestsellers">> \in Seq(WarmPages) /\ <<"help.shopee">> \in Seq(WarmPages)
  BY DEF WarmPages
<1> QED BY <1>1, <1>2, <1>3

LEMMA WarmUpIs ==
  ASSUME NEW plan \in Plans, Accepted(plan), NEW c \in CellSet(plan)
  PROVE  /\ \E V : WarmSequence(plan, TARGETS[c.target], c.level) \in Seq(V)
         /\ c.target \in TargetNames
<1>1. c.target \in TargetNames
  <2>1. c.target \in ToSet(plan.targets)
    BY DEF CellSet
  <2> QED BY <2>1, AcceptedFlags DEF BadFlags
<1>2. CASE c.level = "L0"
  BY <1>1, <1>2 DEF WarmSequence
<1>3. CASE c.level # "L0" /\ plan.given # {}
  <2> DEFINE urls == CHOOSE urls \in plan.given : TRUE
             V == ToSet(urls) \cup {"home"}
  <2>1. urls \in Seq(ToSet(urls))
    BY <1>3, PlanAssumption
  <2> HIDE DEF urls
  <2>2. urls \in Seq(V) /\ <<"home">> \in Seq(V)
    BY <2>1, SeqMonotonic
  <2>3. urls \o <<"home">> \in Seq(V)
    BY <2>2, ConcatProperties
  <2>4. WarmSequence(plan, TARGETS[c.target], c.level) = urls \o <<"home">>
    BY <1>3 DEF WarmSequence, urls
  <2> QED BY <1>1, <2>3, <2>4
<1>4. CASE c.level # "L0" /\ plan.given = {}
  <2>1. c.level \in DOMAIN TARGETS[c.target].ladder
    BY <1>4, AcceptedCells DEF WarmRefused, RungMissing, Warm
  <2>2. TARGETS[c.target].ladder[c.level] \in Seq(WarmPages)
    BY <1>1, <2>1, LaddersAre
  <2>3. TARGETS[c.target].ladder[c.level] \o <<"home">> \in Seq(WarmPages)
    <3>1. <<"home">> \in Seq(WarmPages)
      BY DEF WarmPages
    <3> QED BY <2>2, <3>1, ConcatProperties
  <2>4. WarmSequence(plan, TARGETS[c.target], c.level) = TARGETS[c.target].ladder[c.level] \o <<"home">>
    BY <1>4 DEF WarmSequence
  <2> QED BY <1>1, <2>3, <2>4
<1> QED BY <1>2, <1>3, <1>4

LEMMA PlannedIs ==
  ASSUME PlanInv, SeatInv, pc \in {"draw"} \cup InSession
  PROVE  Len(Planned) \in Nat
<1>1. Accepted(args) /\ Cell \in CellSet(args) /\ args \in Plans
  BY InHand DEF PlanInv
<1>2. PICK V : Planned \in Seq(V)
  BY <1>1, WarmUpIs DEF Planned, TargetOf
<1> QED BY <1>2, LenProperties
----------------------------------------------------------------------------
\* A row that is being made is not among the rows yet.
LEMMA DrawRowsMaking ==
  ASSUME DrawRowsInv, rows' = rows, history' = history, at' = at, probe' = probe, args' = args,
         cells' = cells, pc \in {"walk", "row"}, pc' \in {"walk", "row"},
         Reached', walk'.delivered = Cardinality(Visited(at.cell, Now)) + Ones(Bringing')
  PROVE  DrawRowsInv'
<1> USE DEF DrawRowsInv
<1>1. pc \in InSession /\ pc' \in InSession /\ pc \in Walking
  BY DEF InSession, Walking
<1>2. Now' = Now /\ \A r : Here(r)' = Here(r)
  BY DEF Now, Here
<1>3. PlacedInv'
  BY <1>1 DEF PlacedInv, Here, Now
<1>4. ColumnsInv'
  BY DEF ColumnsInv, Column1
<1>5. SaidInv'
  <2>1. \A i \in Probes(rows') : (AnswerTo(rows[i]) = Said(rows[i]))'
    <3>1. \A i \in Probes(rows) : AnswerTo(rows[i])' = AnswerTo(rows[i])
      BY DEF AnswerTo
    <3> QED BY <3>1 DEF SaidInv, Said
  <2>2. \A c, d : HasProbe(c, d)' = HasProbe(c, d)
    BY DEF HasProbe
  <2> QED BY <1>1, <1>2, <2>1, <2>2 DEF SaidInv
<1>6. OneEach' /\ Chained'
  BY DEF ChainInv, OneEach, Chained, Follows
<1>7. PagesInv'
  <2>1. \A c, d : Visited(c, d)' = Visited(c, d)
    BY DEF Visited
  <2> QED BY <1>2, <2>1 DEF PagesInv
<1> QED BY <1>3, <1>4, <1>5, <1>6, <1>7 DEF ChainInv

LEMMA VisitedCounts ==
  ASSUME RowsInv, NEW c, NEW d
  PROVE  IsFiniteSet(Visited(c, d)) /\ Cardinality(Visited(c, d)) \in Nat
<1>1. Visited(c, d) \subseteq DOMAIN rows
  BY DEF Visited
<1> QED BY <1>1, RowsAreList, FS_Subset, FS_CardinalityType

LEMMA VisitDrawRows ==
  ASSUME PlanInv, SeatInv, AnswerInv, RowsInv, DrawRowsInv, Visit
  PROVE  DrawRowsInv'
<1>1. /\ pc = "walk" /\ pc' = "row" /\ walk.page <= Len(Planned) /\ rows' = rows /\ history' = history
      /\ at' = at /\ probe' = probe /\ args' = args /\ cells' = cells
  BY DEF Visit
<1>2. pc \in InSession /\ pc \in Walking
  BY <1>1 DEF InSession, Walking
<1>3. walk \in Walks /\ Len(Planned) \in Nat
  BY <1>2, PlannedIs DEF AnswerInv
<1>4. Reached
  BY <1>2 DEF DrawRowsInv, ChainInv
<1>5. walk.position = 0
  BY <1>1, <1>3, <1>4 DEF Reached, Walks
<1>6. Engine.session.says \subseteq {"error", "transport"}
  BY <1>2, InHand, EnginesAre DEF EngineFacts, Engine
<1>7. PICK failed, arrived \in BOOLEAN :
        /\ row'.phase = "warm" /\ row'.error \in IF failed THEN Engine.session.says ELSE {"none"}
        /\ walk' = IF failed /\ walk.attempt = 1
                   THEN [walk EXCEPT !.attempt = 2]
                   ELSE [walk EXCEPT !.page = @ + 1, !.attempt = 1,
                                     !.delivered = IF failed THEN @ ELSE @ + 1,
                                     !.loaded = IF arrived THEN @ + 1 ELSE @]
  <2>1. PICK came \in {"loaded"} \cup (IF Goes("visit") THEN Engine.session.misses ELSE {}) :
          LET page    == Planned[walk.page]
              failed  == came = "raised"
              actions == IF failed THEN <<>> ELSE ActionsFor(TargetOf, page, KindsOf(Cell))
          IN  /\ tab' \in WarmTab(page, came)
              /\ \E done \in Landings(actions), why \in IF failed THEN Engine.session.says ELSE {"none"} :
                   row' = [NoRow EXCEPT !.phase = "warm", !.verdict = "warm_visit",
                                        !.page = page, !.error = why,
                                        !.planned = Len(actions), !.done = done,
                                        !.bytes = Since]
              /\ walk' = IF failed /\ walk.attempt = 1
                         THEN [walk EXCEPT !.attempt = 2]
                         ELSE [walk EXCEPT !.page = @ + 1, !.attempt = 1,
                                           !.delivered = IF failed THEN @ ELSE @ + 1,
                                           !.loaded = IF came = "loaded" THEN @ + 1 ELSE @]
    BY Zenon DEF Visit
  <2>2. PICK failed, arrived : failed = (came = "raised") /\ arrived = (came = "loaded")
    OBVIOUS
  <2>3. failed \in BOOLEAN /\ arrived \in BOOLEAN
    BY <2>2
  <2> DEFINE page    == Planned[walk.page]
             actions == IF came = "raised"
                        THEN <<>> ELSE ActionsFor(TargetOf, page, KindsOf(Cell))
  <2>4. PICK done \in Landings(actions),
             why \in IF came = "raised" THEN Engine.session.says ELSE {"none"} :
          row' = [NoRow EXCEPT !.phase = "warm", !.verdict = "warm_visit",
                               !.page = page, !.error = why,
                               !.planned = Len(actions), !.done = done, !.bytes = Since]
    BY <2>1, Zenon
  <2> HIDE DEF page, actions
  <2>5. row'.phase = "warm" /\ row'.error = why
    BY <2>4 DEF NoRow
  <2>50. why \in IF failed THEN Engine.session.says ELSE {"none"}
    BY <2>2
  <2>6. walk' = IF failed /\ walk.attempt = 1
                THEN [walk EXCEPT !.attempt = 2]
                ELSE [walk EXCEPT !.page = @ + 1, !.attempt = 1,
                                  !.delivered = IF failed THEN @ ELSE @ + 1,
                                  !.loaded = IF arrived THEN @ + 1 ELSE @]
    BY <2>1, <2>2, Zenon
  <2> QED BY <2>3, <2>5, <2>50, <2>6, Zenon
<1>8. /\ walk'.position = 0
      /\ walk'.delivered = IF failed THEN walk.delivered ELSE walk.delivered + 1
  BY <1>3, <1>5, <1>7 DEF Walks
<1>9. Ones(Bringing') = IF failed THEN 0 ELSE 1
  <2>1. Bringing' <=> ~failed
    BY <1>1, <1>6, <1>7 DEF Bringing
  <2> QED BY <2>1 DEF Ones
<1>10. Reached'
  <2>1. \A r : Here(r)' = Here(r)
    BY <1>1 DEF Here, Now
  <2> QED BY <1>1, <1>4, <1>5, <1>7, <1>8, <2>1 DEF Reached
<1>11. walk.delivered = Cardinality(Visited(at.cell, Now)) + 0
  <2>1. ~Bringing
    BY <1>1 DEF Bringing
  <2> QED BY <1>2, <2>1 DEF DrawRowsInv, PagesInv, Ones
<1>12. walk.delivered \in Nat /\ Cardinality(Visited(at.cell, Now)) \in Nat
  BY <1>3, VisitedCounts DEF Walks
<1>13. walk'.delivered = Cardinality(Visited(at.cell, Now)) + Ones(Bringing')
  BY <1>8, <1>9, <1>11, <1>12
<1> QED BY <1>1, <1>10, <1>13, DrawRowsMaking

LEMMA SendQueryDrawRows ==
  ASSUME PlanInv, SeatInv, AnswerInv, DrawRowsInv, SendQuery
  PROVE  DrawRowsInv'
<1>1. /\ pc = "walk" /\ walk.page > Len(Planned) /\ rows' = rows /\ history' = history
      /\ at' = at /\ probe' = probe /\ args' = args /\ cells' = cells /\ walk' = walk
  BY DEF SendQuery
<1>2. pc \in InSession /\ pc \in Walking
  BY <1>1 DEF InSession, Walking
<1>3. CASE Refuses
  <2>1. pc' = "close"
    BY <1>3 DEF SendQuery
  <2> QED BY <1>1, <1>2, <2>1, DrawRowsKept DEF InSession, Walking
<1>4. CASE ~Refuses
  <2>1. pc' = "row"
    BY <1>4 DEF SendQuery
  <2>2. row'.phase = IF walk.position = 0 THEN "probe" ELSE "hold"
    BY <1>4, SendQueryIs
  <2>3. walk.position \in Nat
    BY DEF AnswerInv, Walks
  <2>4. Reached
    BY <1>2 DEF DrawRowsInv, ChainInv
  <2>5. Now' = Now /\ Planned' = Planned /\ \A r : Here(r)' = Here(r)
    BY <1>1 DEF Here, Now, Planned, TargetOf, Cell
  <2>6. \A j, position : Follows(j, at.cell, Now, position)' = Follows(j, at.cell, Now, position)
    BY <1>1, <2>5 DEF Follows
  <2>7. Reached'
    BY <1>1, <2>1, <2>2, <2>3, <2>4, <2>5, <2>6 DEF Reached
  <2>8. Ones(Bringing') = 0 /\ Ones(Bringing) = 0
    BY <1>1, <2>1, <2>2 DEF Bringing, Ones
  <2>9. walk'.delivered = Cardinality(Visited(at.cell, Now)) + Ones(Bringing')
    BY <1>1, <1>2, <2>8 DEF DrawRowsInv, PagesInv
  <2> QED BY <1>1, <2>1, <2>7, <2>9, DrawRowsMaking
<1> QED BY <1>3, <1>4
----------------------------------------------------------------------------
(* on_row: the row in hand becomes one of the session's.                   *)

LEMMA RowsGrow ==
  ASSUME RowsInv, NEW new, rows' = Append(rows, new)
  PROVE  /\ Len(rows) \in Nat /\ DOMAIN rows = 1..Len(rows) /\ DOMAIN rows' = 1..(Len(rows) + 1)
         /\ Len(rows) + 1 \notin DOMAIN rows /\ DOMAIN rows' = DOMAIN rows \cup {Len(rows) + 1}
         /\ \A i \in DOMAIN rows : rows'[i] = rows[i]
         /\ rows'[Len(rows) + 1] = new
<1>1. PICK V : rows \in Seq(V)
  BY DEF RowsInv
<1> DEFINE U == V \cup {new}
<1>2. rows \in Seq(U) /\ new \in U
  BY <1>1, SeqMonotonic
<1> HIDE DEF U
<1>3. /\ DOMAIN rows' = 1..(Len(rows) + 1)
      /\ Len(rows) \in Nat /\ DOMAIN rows = 1..Len(rows)
      /\ \A i \in 1..Len(rows) : rows'[i] = rows[i]
      /\ rows'[Len(rows) + 1] = new
  BY <1>2, AppendProperties, LenProperties
<1>4. /\ Len(rows) + 1 \notin 1..Len(rows)
      /\ 1..(Len(rows) + 1) = (1..Len(rows)) \cup {Len(rows) + 1}
  BY <1>3
<1> QED BY <1>3, <1>4

LEMMA DrawsAreList ==
  ASSUME CircuitInv, NEW c \in DOMAIN history
  PROVE  /\ history[c] \in Seq(Fates) /\ Len(history[c]) \in Nat
         /\ DOMAIN history[c] = 1..Len(history[c])
<1>1. history[c] \in Seq(Fates)
  BY DEF CircuitInv
<1> QED BY <1>1, LenProperties

\* What a row was before it was written, it is after.
LEMMA OnRowIs ==
  ASSUME PlanInv, SeatInv, AnswerInv, CircuitInv, RowsInv, DrawRowsInv, OnRow
  PROVE  /\ pc \in InSession /\ pc \in Walking /\ pc' \in InSession /\ pc' # "row"
         /\ Reached /\ RowInv /\ walk \in Walks
         /\ history' = history /\ at' = at /\ args' = args /\ cells' = cells
         /\ at.cell \in DOMAIN history /\ Now \in Nat
         /\ rows' = Append(rows, Column)
         /\ Column.cell = at.cell /\ Column.draw = Now /\ Column.phase = row.phase
         /\ Column.verdict = row.verdict /\ Column.error = row.error
         /\ Column.position = walk.position
         /\ row.phase # "warm" => Column.delivered = walk.delivered
         /\ Walking \subseteq InSession
<1>1. /\ pc = "row" /\ pc' \in {"walk", "judge", "close"} /\ history' = history /\ at' = at
      /\ args' = args /\ cells' = cells /\ rows' = Append(rows, Column)
  BY DEF OnRow, AfterRow
<1>2. /\ pc \in InSession /\ pc \in Walking /\ pc' \in InSession /\ pc' # "row"
      /\ Walking \subseteq InSession
  BY <1>1 DEF InSession, Walking
<1>3. /\ Column.cell = at.cell /\ Column.draw = Now /\ Column.phase = row.phase
      /\ Column.verdict = row.verdict /\ Column.error = row.error
      /\ Column.position = walk.position
      /\ row.phase # "warm" => Column.delivered = walk.delivered
  BY DEF Column, Now
<1>4. Reached /\ RowInv /\ walk \in Walks
  BY <1>1, <1>2 DEF DrawRowsInv, ChainInv, AnswerInv
<1>5. at.cell \in DOMAIN history
  BY <1>2, InHand DEF SeatInv
<1>6. Now \in Nat
  BY <1>5, DrawsAreList DEF Now
<1> QED BY <1>1, <1>2, <1>3, <1>4, <1>5, <1>6

LEMMA OnRowPlaced ==
  ASSUME PlanInv, SeatInv, AnswerInv, CircuitInv, RowsInv, DrawRowsInv, OnRow
  PROVE  PlacedInv' /\ ColumnsInv'
<1> DEFINE new == Column
           n == Len(rows) + 1
<1>1. /\ pc \in InSession /\ pc' \in InSession /\ history' = history /\ at' = at /\ RowInv /\ Reached
      /\ at.cell \in DOMAIN history /\ Now \in Nat /\ walk \in Walks /\ pc = "row"
      /\ new.cell = at.cell /\ new.draw = Now /\ new.phase = row.phase
      /\ new.verdict = row.verdict /\ new.error = row.error /\ new.position = walk.position
      /\ rows' = Append(rows, new)
  BY OnRowIs DEF OnRow
<1> HIDE DEF new
<1>2. /\ DOMAIN rows' = DOMAIN rows \cup {n} /\ rows'[n] = new
      /\ \A i \in DOMAIN rows : rows'[i] = rows[i]
  BY <1>1, RowsGrow
<1> HIDE DEF n
<1>3. Now' = Now /\ \A r : Here(r)' <=> Here(r)
  BY <1>1 DEF Here, Now
<1>4. Here(new)
  BY <1>1 DEF Here, OfDraw
<1>5. ASSUME NEW i \in DOMAIN rows'
      PROVE  /\ rows'[i].cell \in DOMAIN history' /\ rows'[i].draw \in Nat
             /\ rows'[i].draw < Len(history'[rows'[i].cell]) \/ (pc' \in InSession /\ Here(rows'[i]))
  <2>1. CASE i \in DOMAIN rows
    BY <1>1, <1>2, <2>1 DEF DrawRowsInv, PlacedInv
  <2>2. CASE i = n
    BY <1>1, <1>2, <1>4, <2>2
  <2> QED BY <1>2, <2>1, <2>2
<1>6. PlacedInv'
  BY <1>1, <1>3, <1>5 DEF PlacedInv, Here
<1>7. Column1(new)
  <2>1. row.phase \in Phases /\ row.verdict \in Verdicts \cup {"warm_visit"}
        /\ (row.verdict = "error" => row.error \in Named)
    BY <1>1 DEF RowInv
  <2>2. walk.position \in Nat /\ (row.phase = "hold" => walk.position > 0)
        /\ (row.phase # "hold" => walk.position = 0)
    BY <1>1 DEF Walks, Reached
  <2>3. row.phase # "warm" => row.verdict \in Verdicts
    BY <1>1 DEF RowInv
  <2> QED BY <1>1, <2>1, <2>2, <2>3 DEF Column1
<1>8. ColumnsInv'
  <2>1. \A i \in DOMAIN rows' : Column1(rows'[i])
    BY <1>2, <1>7 DEF DrawRowsInv, ColumnsInv
  <2> QED BY <2>1 DEF ColumnsInv, Column1
<1> QED BY <1>6, <1>8
\* Which of the rows the one written joins.
LEMMA OnRowSets ==
  ASSUME RowsInv, NEW new, rows' = Append(rows, new)
  PROVE  /\ Probes(rows)' = Probes(rows) \cup (IF new.phase = "probe" THEN {Len(rows) + 1} ELSE {})
         /\ Holds(rows)' = Holds(rows) \cup (IF new.phase = "hold" THEN {Len(rows) + 1} ELSE {})
         /\ Attempts(rows)' = Attempts(rows) \cup (IF new.phase # "warm" THEN {Len(rows) + 1} ELSE {})
         /\ \A c, d : Visited(c, d)' = Visited(c, d) \cup
              (IF new.phase = "warm" /\ new.error = "none" /\ OfDraw(new, c, d)
               THEN {Len(rows) + 1} ELSE {})
         /\ \A c, d : HasProbe(c, d) => HasProbe(c, d)'
<1> DEFINE n == Len(rows) + 1
<1>1. /\ DOMAIN rows' = DOMAIN rows \cup {n} /\ rows'[n] = new /\ n \notin DOMAIN rows
      /\ \A i \in DOMAIN rows : rows'[i] = rows[i]
  BY RowsGrow
<1> HIDE DEF n
<1>2. Probes(rows)' = Probes(rows) \cup (IF new.phase = "probe" THEN {n} ELSE {})
  BY <1>1 DEF Probes, Where
<1>3. Holds(rows)' = Holds(rows) \cup (IF new.phase = "hold" THEN {n} ELSE {})
  BY <1>1 DEF Holds, Where
<1>4. Attempts(rows)' = Attempts(rows) \cup (IF new.phase # "warm" THEN {n} ELSE {})
  BY <1>1 DEF Attempts, Where
<1>5. ASSUME NEW c, NEW d
      PROVE  Visited(c, d)' = Visited(c, d) \cup
               (IF new.phase = "warm" /\ new.error = "none" /\ OfDraw(new, c, d) THEN {n} ELSE {})
  BY <1>1 DEF Visited, OfDraw
<1>6. ASSUME NEW c, NEW d, HasProbe(c, d)
      PROVE  HasProbe(c, d)'
  <2>1. PICK i \in Probes(rows) : OfDraw(rows[i], c, d)
    BY <1>6 DEF HasProbe
  <2>2. i \in Probes(rows)' /\ rows'[i] = rows[i]
    BY <1>1, <1>2 DEF Probes, Where
  <2> QED BY <2>1, <2>2 DEF HasProbe, OfDraw
<1> QED BY <1>2, <1>3, <1>4, <1>5, <1>6 DEF n

LEMMA OnRowSaid ==
  ASSUME PlanInv, SeatInv, AnswerInv, CircuitInv, RowsInv, DrawRowsInv, OnRow
  PROVE  SaidInv'
<1> PICK new : new = Column
  OBVIOUS
<1> DEFINE n == Len(rows) + 1
<1>1. /\ pc \in InSession /\ pc' \in InSession /\ history' = history /\ at' = at /\ Reached
      /\ at.cell \in DOMAIN history /\ Now \in Nat /\ pc = "row"
      /\ new.cell = at.cell /\ new.draw = Now /\ new.phase = row.phase
      /\ new.verdict = row.verdict /\ new.error = row.error
      /\ rows' = Append(rows, new)
  BY OnRowIs DEF OnRow
<1>2. /\ DOMAIN rows' = DOMAIN rows \cup {n} /\ rows'[n] = new
      /\ \A i \in DOMAIN rows : rows'[i] = rows[i]
      /\ Probes(rows)' = Probes(rows) \cup (IF new.phase = "probe" THEN {n} ELSE {})
      /\ \A c, d : HasProbe(c, d) => HasProbe(c, d)'
  BY <1>1, RowsGrow, OnRowSets
<1> HIDE DEF n
<1>3. probe' = IF row.phase = "probe" THEN Said(new) ELSE probe
  BY <1>1 DEF OnRow, Said
<1>4. \A r : r.draw < Len(history[r.cell]) => AnswerTo(r)' = AnswerTo(r)
  BY <1>1 DEF AnswerTo
<1>5. \A r : Here(r) => AnswerTo(r)' = probe' /\ AnswerTo(r) = probe
  BY <1>1 DEF AnswerTo, Here, OfDraw, Now
<1>6. ASSUME NEW i \in Probes(rows)
      PROVE  AnswerTo(rows[i])' = Said(rows[i])
  <2>1. i \in DOMAIN rows /\ i \in Attempts(rows) /\ rows[i].phase = "probe"
    BY DEF Probes, Attempts, Where
  <2>2. AnswerTo(rows[i]) = Said(rows[i])
    BY DEF DrawRowsInv, SaidInv
  <2>3. CASE Here(rows[i])
    <3>1. rows[i].position < walk.position /\ rows[i].position = 0
      BY <1>1, <2>1, <2>3 DEF Reached, DrawRowsInv, ColumnsInv, Column1
    <3>2. row.phase # "probe"
      BY <1>1, <3>1 DEF Reached
    <3> QED BY <1>2, <1>3, <1>5, <2>1, <2>2, <2>3, <3>2
  <2>4. CASE ~Here(rows[i])
    <3>1. rows[i].draw < Len(history[rows[i].cell])
      BY <2>1, <2>4 DEF DrawRowsInv, PlacedInv
    <3> QED BY <1>2, <1>4, <2>1, <2>2, <3>1
  <2> QED BY <2>3, <2>4
<1>7. ASSUME row.phase = "probe"
      PROVE  AnswerTo(new)' = Said(new)
  <2>1. Here(new)
    BY <1>1 DEF Here, OfDraw
  <2> QED BY <1>3, <1>5, <1>7, <2>1
<1>8. \A i \in Probes(rows)' : (AnswerTo(rows[i]) = Said(rows[i]))'
  <2> SUFFICES ASSUME NEW i \in Probes(rows)' PROVE (AnswerTo(rows[i]) = Said(rows[i]))'
    OBVIOUS
  <2>1. \A r : Said(r)' = Said(r)
    BY DEF Said
  <2>2. CASE i \in Probes(rows)
    <3>1. AnswerTo(rows[i])' = Said(rows[i]) /\ rows'[i] = rows[i]
      BY <1>2, <1>6, <2>2 DEF Probes, Where
    <3> QED BY <3>1 DEF Said
  <2>3. CASE i = n /\ row.phase = "probe"
    <3>1. rows'[i] = new /\ AnswerTo(new)' = Said(new)
      BY <1>1, <1>2, <1>7, <2>3
    <3> QED BY <3>1, <2>1 DEF AnswerTo, Said
  <2> QED BY <1>1, <1>2, <2>2, <2>3
<1>9. ASSUME probe' # "none"
      PROVE  HasProbe(at.cell, Now)'
  <2>1. Now' = Now
    BY <1>1 DEF Now
  <2>2. CASE row.phase = "probe"
    <3>1. n \in Probes(rows)' /\ OfDraw(rows'[n], at.cell, Now)
      BY <1>1, <1>2, <2>2 DEF OfDraw
    <3> QED BY <1>1, <2>1, <3>1 DEF HasProbe, OfDraw
  <2>3. CASE row.phase # "probe"
    <3>1. HasProbe(at.cell, Now)
      BY <1>1, <1>3, <1>9, <2>3 DEF DrawRowsInv, SaidInv
    <3>2. \A c, d : c = at.cell /\ d = Now => HasProbe(c, d)'
      BY <1>2, <3>1
    <3> QED BY <1>1, <2>1, <3>2 DEF HasProbe
  <2> QED BY <2>2, <2>3
<1>10. \A c \in DOMAIN history' : \A d \in DOMAIN history'[c] :
         history'[c][d].probe # "none" => HasProbe(c, d - 1)'
  BY <1>1, <1>2 DEF DrawRowsInv, SaidInv
<1> QED BY <1>1, <1>8, <1>9, <1>10 DEF SaidInv
LEMMA OnRowChain ==
  ASSUME PlanInv, SeatInv, AnswerInv, CircuitInv, RowsInv, DrawRowsInv, OnRow
  PROVE  ChainInv'
<1> PICK new : new = Column
  OBVIOUS
<1> DEFINE n == Len(rows) + 1
<1>1. /\ history' = history /\ at' = at /\ Reached /\ pc = "row" /\ pc' \in {"walk", "judge", "close"}
      /\ new.cell = at.cell /\ new.draw = Now /\ new.phase = row.phase
      /\ new.verdict = row.verdict /\ new.position = walk.position
      /\ rows' = Append(rows, new) /\ Now' = Now /\ Planned' = Planned
      /\ row.phase \in Phases /\ walk \in Walks
  <2>1. pc' \in {"walk", "judge", "close"}
    BY DEF OnRow, AfterRow
  <2> QED BY <2>1, OnRowIs DEF OnRow, Now, Planned, TargetOf, Cell, RowInv
<1>2. /\ DOMAIN rows' = DOMAIN rows \cup {n} /\ rows'[n] = new /\ n \notin DOMAIN rows
      /\ \A i \in DOMAIN rows : rows'[i] = rows[i]
      /\ Holds(rows)' = Holds(rows) \cup (IF new.phase = "hold" THEN {n} ELSE {})
      /\ Attempts(rows)' = Attempts(rows) \cup (IF new.phase # "warm" THEN {n} ELSE {})
      /\ Attempts(rows) \subseteq DOMAIN rows /\ Holds(rows) \subseteq DOMAIN rows
  BY <1>1, RowsGrow, OnRowSets, RowsAreList
<1> HIDE DEF n
<1>3. \A i \in Attempts(rows) : rows[i].position \in Nat
  BY DEF DrawRowsInv, ColumnsInv, Column1, Attempts, Where, Phases
<1>4. walk.position \in Nat
  BY <1>1 DEF Walks
<1>5. \A i \in Attempts(rows) : Here(rows[i]) => rows[i].position < walk.position
  BY <1>1 DEF Reached
<1>6. OneEach'
  <2>1. ASSUME NEW i \in Attempts(rows)', NEW j \in Attempts(rows)',
               OfDraw(rows'[i], rows'[j].cell, rows'[j].draw), rows'[i].position = rows'[j].position
        PROVE  i = j
    <3>1. CASE i \in Attempts(rows) /\ j \in Attempts(rows)
      BY <1>2, <2>1, <3>1 DEF DrawRowsInv, ChainInv, OneEach
    <3>2. CASE i = n /\ j \in Attempts(rows)
      BY <1>1, <1>2, <1>3, <1>4, <1>5, <2>1, <3>2 DEF Here, OfDraw
    <3>3. CASE j = n /\ i \in Attempts(rows)
      BY <1>1, <1>2, <1>3, <1>4, <1>5, <2>1, <3>3 DEF Here, OfDraw
    <3> QED BY <1>2, <2>1, <3>1, <3>2, <3>3
  <2> QED BY <2>1 DEF OneEach, OfDraw
<1>7. \A j, c, d, p : Follows(j, c, d, p) => Follows(j, c, d, p)'
  BY <1>2 DEF Follows, OfDraw
<1>8. Chained'
  <2>1. ASSUME NEW i \in Holds(rows)'
        PROVE  (\E j \in DOMAIN rows : Follows(j, rows[i].cell, rows[i].draw, rows[i].position))'
    <3>1. CASE i \in Holds(rows)
      <4>1. PICK j \in DOMAIN rows : Follows(j, rows[i].cell, rows[i].draw, rows[i].position)
        BY <3>1 DEF DrawRowsInv, ChainInv, Chained
      <4>2. j \in DOMAIN rows' /\ rows'[j] = rows[j] /\ rows'[i] = rows[i]
        BY <1>2, <3>1
      <4> QED BY <4>1, <4>2 DEF Follows, OfDraw
    <3>2. CASE i = n /\ new.phase = "hold"
      <4>1. PICK j \in DOMAIN rows : Follows(j, at.cell, Now, walk.position)
        BY <1>1, <3>2 DEF Reached
      <4>2. rows'[i].cell = at.cell /\ rows'[i].draw = Now /\ rows'[i].position = walk.position
        BY <1>1, <1>2, <3>2
      <4>3. j \in DOMAIN rows' /\ rows'[j] = rows[j]
        BY <1>2
      <4> QED BY <4>1, <4>2, <4>3 DEF Follows, OfDraw
    <3> QED BY <1>2, <3>1, <3>2
  <2> QED BY <2>1 DEF Chained
<1>9. ASSUME pc' = "walk", row.phase = "warm"
      PROVE  Reached'
  <2>1. walk' = walk /\ probe' = probe
    BY <1>9 DEF OnRow
  <2>2. walk.position = 0
    BY <1>1, <1>9 DEF Reached
  <2>3. \A i \in Attempts(rows)' : ~Here(rows'[i])
    BY <1>1, <1>2, <1>3, <1>5, <1>9, <2>2 DEF Here
  <2>4. \A i \in Attempts(rows)' : (~Here(rows[i]))'
    BY <1>1, <2>3 DEF Here
  <2>5. ~(walk'.position > 0) /\ pc' # "row"
    BY <1>9, <2>1, <2>2
  <2> QED BY <2>4, <2>5 DEF Reached
<1>10. ASSUME pc' = "walk", row.phase # "warm"
       PROVE  Reached'
  <2>1. row.verdict = "ok"
    BY <1>10 DEF OnRow, AfterRow
  <2>2. walk'.position = walk.position + 1 /\ walk'.page = walk.page
    BY <1>1, <1>10 DEF OnRow, Walks
  <2>3. probe' = "ok"
    BY <1>1, <1>10, <2>1 DEF OnRow, Reached, Phases
  <2>4. walk.page > Len(Planned)
    BY <1>1, <1>10 DEF Reached
  <2>5. OfDraw(rows'[n], at.cell, Now) /\ rows'[n].verdict = "ok" /\ rows'[n].position = walk.position
        /\ rows'[n].phase = row.phase
    BY <1>1, <1>2, <2>1 DEF OfDraw
  <2>6. row.phase = IF walk'.position = 1 THEN "probe" ELSE "hold"
    BY <1>1, <1>4, <1>10, <2>2 DEF Reached, Phases
  <2>7. \E j \in DOMAIN rows' : Follows(j, at.cell, Now, walk.position)'
    BY <1>1, <1>2, <1>4, <2>2, <2>5, <2>6 DEF Follows, OfDraw
  <2>8. \A i \in Attempts(rows)' : Here(rows'[i]) => rows'[i].position < walk'.position
    BY <1>1, <1>2, <1>3, <1>4, <1>5, <2>2, <2>5
  <2>9. pc' # "row"
    BY <1>10
  <2> QED BY <1>1, <2>2, <2>3, <2>4, <2>7, <2>8, <2>9 DEF Reached, Here
<1> QED BY <1>1, <1>6, <1>8, <1>9, <1>10 DEF ChainInv, Walking
LEMMA OnRowPages ==
  ASSUME PlanInv, SeatInv, AnswerInv, CircuitInv, RowsInv, DrawRowsInv, OnRow
  PROVE  PagesInv'
<1> PICK new : new = Column
  OBVIOUS
<1> DEFINE n == Len(rows) + 1
<1>1. /\ history' = history /\ at' = at /\ Reached /\ pc = "row" /\ pc' \in {"walk", "judge", "close"}
      /\ new.cell = at.cell /\ new.draw = Now /\ new.phase = row.phase /\ new.error = row.error
      /\ row.phase # "warm" => new.delivered = walk.delivered
      /\ rows' = Append(rows, new) /\ Now' = Now /\ walk \in Walks
  <2>1. pc' \in {"walk", "judge", "close"}
    BY DEF OnRow, AfterRow
  <2> QED BY <2>1, OnRowIs DEF OnRow, Now
<1>2. /\ DOMAIN rows' = DOMAIN rows \cup {n} /\ rows'[n] = new /\ n \notin DOMAIN rows
      /\ \A i \in DOMAIN rows : rows'[i] = rows[i]
      /\ Probes(rows)' = Probes(rows) \cup (IF new.phase = "probe" THEN {n} ELSE {})
      /\ \A c, d : Visited(c, d)' = Visited(c, d) \cup
           (IF new.phase = "warm" /\ new.error = "none" /\ OfDraw(new, c, d) THEN {n} ELSE {})
  BY <1>1, RowsGrow, OnRowSets
<1> HIDE DEF n
<1>3. walk.delivered = Cardinality(Visited(at.cell, Now)) + Ones(Bringing)
  BY <1>1 DEF DrawRowsInv, PagesInv, Walking
<1>4. \A c, d : Cardinality(Visited(c, d)) \in Nat /\ IsFiniteSet(Visited(c, d)) /\ n \notin Visited(c, d)
  BY <1>2, VisitedCounts DEF Visited
<1>5. \A c, d : row.phase # "warm" => Visited(c, d)' = Visited(c, d)
  BY <1>1, <1>2
<1>6. ASSUME NEW i \in Probes(rows)
      PROVE  rows[i].delivered = Cardinality(Visited(rows[i].cell, rows[i].draw)')
  <2>1. i \in DOMAIN rows /\ i \in Attempts(rows) /\ rows[i].phase = "probe"
    BY DEF Probes, Attempts, Where
  <2>2. rows[i].delivered = Cardinality(Visited(rows[i].cell, rows[i].draw))
    BY DEF DrawRowsInv, PagesInv
  <2>3. row.phase = "warm" => ~Here(rows[i])
    BY <1>1, <2>1 DEF Reached, DrawRowsInv, ColumnsInv, Column1
  <2> PICK c, d : c = rows[i].cell /\ d = rows[i].draw
    OBVIOUS
  <2>4. row.phase = "warm" => ~OfDraw(new, c, d)
    BY <1>1, <2>3 DEF Here, OfDraw
  <2>5. Visited(c, d)' = Visited(c, d)
    BY <1>1, <1>2, <2>4
  <2>6. rows'[i] = rows[i]
    BY <1>2, <2>1
  <2> QED BY <2>2, <2>5, <2>6 DEF Visited
<1>7. \A i \in Probes(rows)' : (rows[i].delivered = Cardinality(Visited(rows[i].cell, rows[i].draw)))'
  <2> SUFFICES ASSUME NEW i \in Probes(rows)'
               PROVE  (rows[i].delivered = Cardinality(Visited(rows[i].cell, rows[i].draw)))'
    OBVIOUS
  <2>1. CASE i \in Probes(rows)
    BY <1>2, <1>6, <2>1 DEF Probes, Where
  <2>2. CASE i = n /\ row.phase = "probe"
    <3>1. rows'[i] = new /\ new.delivered = walk.delivered
      BY <1>1, <1>2, <2>2
    <3>2. ~Bringing
      BY <2>2 DEF Bringing
    <3>3. walk.delivered = Cardinality(Visited(at.cell, Now))
      BY <1>3, <1>4, <3>2 DEF Ones
    <3> PICK c, d : c = at.cell /\ d = Now
      OBVIOUS
    <3>4. Visited(c, d)' = Visited(c, d)
      BY <1>5, <2>2
    <3>5. rows'[i].delivered = Cardinality(Visited(c, d)') /\ rows'[i].cell = c /\ rows'[i].draw = d
      BY <1>1, <3>1, <3>3, <3>4
    <3> QED BY <3>5 DEF Visited
  <2> QED BY <1>1, <1>2, <2>1, <2>2
<1>8. ASSUME pc' = "walk"
      PROVE  walk'.delivered = Cardinality(Visited(at.cell, Now)') + Ones(Bringing')
  <2>1. walk'.delivered = walk.delivered
    BY <1>1 DEF OnRow, Walks
  <2>2. Ones(Bringing') = 0
    BY <1>8 DEF Ones, Bringing
  <2> PICK c, d : c = at.cell /\ d = Now
    OBVIOUS
  <2>3. CASE Bringing
    <3>1. Visited(c, d)' = Visited(c, d) \cup {n}
      BY <1>1, <1>2, <2>3 DEF Bringing, OfDraw
    <3>2. Cardinality(Visited(c, d)') = Cardinality(Visited(c, d)) + 1
      BY <1>4, <3>1, FS_AddElement
    <3> QED BY <1>1, <1>3, <1>4, <2>1, <2>2, <2>3, <3>2 DEF Ones
  <2>4. CASE ~Bringing
    <3>1. Visited(c, d)' = Visited(c, d)
      BY <1>1, <1>2, <2>4 DEF Bringing
    <3> QED BY <1>1, <1>3, <1>4, <2>1, <2>2, <2>4, <3>1 DEF Ones
  <2> QED BY <2>3, <2>4
<1> QED BY <1>1, <1>7, <1>8 DEF PagesInv, Walking

LEMMA OnRowDrawRows ==
  ASSUME PlanInv, SeatInv, AnswerInv, CircuitInv, RowsInv, DrawRowsInv, OnRow
  PROVE  DrawRowsInv'
<1> QED BY OnRowPlaced, OnRowSaid, OnRowChain, OnRowPages DEF DrawRowsInv
----------------------------------------------------------------------------
(* A draw is over: what it came to is noted, its rows stay.                *)

LEMMA NotedIs ==
  ASSUME CircuitInv, NEW end, history' = Noted(end), at.cell \in DOMAIN history
  PROVE  /\ DOMAIN history' = DOMAIN history
         /\ \A c \in DOMAIN history : c # at.cell => history'[c] = history[c]
         /\ Now \in Nat /\ DOMAIN history[at.cell] = 1..Now
         /\ Len(history'[at.cell]) = Now + 1 /\ DOMAIN history'[at.cell] = 1..(Now + 1)
         /\ \A d \in 1..Now : history'[at.cell][d] = history[at.cell][d]
         /\ history'[at.cell][Now + 1].probe = probe
<1> PICK fate : fate = Fate(end)
  OBVIOUS
<1>1. /\ DOMAIN history' = DOMAIN history
      /\ \A c \in DOMAIN history : c # at.cell => history'[c] = history[c]
      /\ history'[at.cell] = Append(history[at.cell], fate)
  BY DEF Noted
<1>2. history[at.cell] \in Seq(Fates)
  BY DrawsAreList
<1> DEFINE U == Fates \cup {fate}
<1>3. history[at.cell] \in Seq(U) /\ fate \in U
  BY <1>2, SeqMonotonic
<1> HIDE DEF U
<1>4. fate.probe = probe
  BY DEF Fate
<1> QED BY <1>1, <1>3, <1>4, AppendProperties, LenProperties DEF Now

LEMMA DrawRowsEnd ==
  ASSUME CircuitInv, DrawRowsInv, NEW end, history' = Noted(end), at.cell \in DOMAIN history,
         rows' = rows, at' = at, pc' \notin InSession, probe' = "none"
  PROVE  DrawRowsInv'
<1> USE DEF DrawRowsInv
<1>1. /\ DOMAIN history' = DOMAIN history
      /\ \A c \in DOMAIN history : c # at.cell => history'[c] = history[c]
      /\ Now \in Nat /\ Len(history[at.cell]) = Now /\ DOMAIN history[at.cell] = 1..Now
      /\ Len(history'[at.cell]) = Now + 1 /\ DOMAIN history'[at.cell] = 1..(Now + 1)
      /\ \A d \in 1..Now : history'[at.cell][d] = history[at.cell][d]
      /\ history'[at.cell][Now + 1].probe = probe
  BY NotedIs DEF Now
<1>2. \A c \in DOMAIN history : Len(history[c]) \in Nat /\ DOMAIN history[c] = 1..Len(history[c])
  BY DrawsAreList
<1>3. ASSUME NEW i \in DOMAIN rows
      PROVE  /\ rows[i].cell \in DOMAIN history /\ rows[i].draw \in Nat
             /\ \/ rows[i].draw < Len(history[rows[i].cell])
                \/ pc \in InSession /\ rows[i].cell = at.cell /\ rows[i].draw = Now
  BY DEF PlacedInv, Here, OfDraw
<1>4. \A i \in DOMAIN rows : rows[i].draw < Len(history'[rows[i].cell])
  BY <1>1, <1>2, <1>3
<1>5. PlacedInv'
  BY <1>1, <1>3, <1>4 DEF PlacedInv
<1>6. ColumnsInv'
  BY DEF ColumnsInv, Column1
<1>7. \A c, d : HasProbe(c, d)' = HasProbe(c, d)
  BY DEF HasProbe
<1>8. ASSUME NEW i \in Probes(rows)
      PROVE  history'[rows[i].cell][rows[i].draw + 1].probe = Said(rows[i])
  <2>1. i \in DOMAIN rows /\ AnswerTo(rows[i]) = Said(rows[i])
    BY DEF SaidInv, Probes, Where
  <2>2. CASE rows[i].draw < Len(history[rows[i].cell])
    <3>1. history[rows[i].cell][rows[i].draw + 1].probe = Said(rows[i])
      BY <2>1, <2>2 DEF AnswerTo
    <3>2. rows[i].draw + 1 \in 1..Len(history[rows[i].cell])
      BY <1>2, <1>3, <2>1, <2>2
    <3> QED BY <1>1, <1>3, <2>1, <3>1, <3>2
  <2>3. CASE rows[i].cell = at.cell /\ rows[i].draw = Now
    BY <1>1, <2>1, <2>3 DEF AnswerTo
  <2> QED BY <1>3, <2>1, <2>2, <2>3
<1>9. \A i \in Probes(rows) : (AnswerTo(rows[i]) = Said(rows[i]))'
  BY <1>4, <1>8 DEF AnswerTo, Said, Probes, Where
<1>10. ASSUME NEW c \in DOMAIN history, NEW d \in DOMAIN history'[c], history'[c][d].probe # "none"
       PROVE  HasProbe(c, d - 1)
  <2>1. CASE d \in DOMAIN history[c]
    BY <1>1, <1>10, <2>1 DEF SaidInv
  <2>2. CASE d \notin DOMAIN history[c]
    <3>1. c = at.cell /\ d = Now + 1
      BY <1>1, <1>10, <2>2
    <3>2. HasProbe(at.cell, Now)
      BY <1>1, <1>10, <3>1 DEF SaidInv
    <3>3. d - 1 = Now
      BY <1>1, <3>1
    <3> QED BY <3>1, <3>2, <3>3
  <2> QED BY <2>1, <2>2
<1>11. SaidInv'
  BY <1>1, <1>7, <1>9, <1>10 DEF SaidInv
<1>12. pc' \notin Walking
  BY DEF Walking, InSession
<1>13. ChainInv'
  BY <1>12 DEF ChainInv, OneEach, Chained, Follows
<1>14. \A c, d : Visited(c, d)' = Visited(c, d)
  BY DEF Visited
<1>15. PagesInv'
  BY <1>12, <1>14 DEF PagesInv
<1> QED BY <1>5, <1>6, <1>11, <1>13, <1>15

LEMMA InitDrawRows == Init => DrawRowsInv
<1> SUFFICES ASSUME Init PROVE DrawRowsInv
  OBVIOUS
<1>1. rows = <<>> /\ history = <<>> /\ probe = "none" /\ pc \in {"ladder", "start"}
  BY DEF Init, Fresh
<1> QED BY <1>1, DrawRowsNone DEF InSession

LEMMA NextDrawRows ==
  PlanInv /\ SeatInv /\ AnswerInv /\ CircuitInv /\ RowsInv /\ DrawRowsInv /\ WalkInv /\ [Next]_vars
    => DrawRowsInv'
<1> SUFFICES ASSUME PlanInv, SeatInv, AnswerInv, CircuitInv, RowsInv, DrawRowsInv, WalkInv, [Next]_vars
             PROVE  DrawRowsInv'
  OBVIOUS
<1>0. args' = args /\ cells' = cells /\ (at' = at => Planned' = Planned)
  BY PlanKept DEF Planned, TargetOf, Cell
<1>1. CASE Visit \/ SendQuery \/ OnRow
  BY <1>1, VisitDrawRows, SendQueryDrawRows, OnRowDrawRows
<1>2. CASE Close
  <2>1. /\ pc = "close" /\ pc' \in {"head", "over"} /\ at' = at /\ rows' = rows /\ probe' = "none"
        /\ \E why : history' = Noted(why)
    BY <1>2 DEF Close
  <2>2. at.cell \in DOMAIN history
    BY <2>1, InHand DEF SeatInv, InSession
  <2> QED BY <2>1, <2>2, DrawRowsEnd DEF InSession
<1>3. CASE Draw /\ pc' = "head"
  <2>1. /\ pc = "draw" /\ at' = at /\ rows' = rows /\ probe' = probe /\ history' = Noted("skipped")
    BY <1>3 DEF Draw
  <2>2. at.cell \in DOMAIN history
    BY <2>1, InHand DEF SeatInv
  <2>3. probe = "none"
    BY <2>1 DEF DrawRowsInv, SaidInv, InSession
  <2> QED BY <1>3, <2>1, <2>2, <2>3, DrawRowsEnd DEF InSession
<1>4. CASE Draw /\ pc' = "open"
  <2>1. /\ pc = "draw" /\ at' = at /\ rows' = rows /\ probe' = probe /\ history' = history
        /\ walk' = walk
    BY <1>4 DEF Draw
  <2>2. walk = NoWalk
    BY <2>1 DEF WalkInv
  <2> QED BY <1>4, <2>1, <2>2, DrawRowsOpen
<1>5. CASE Restart \/ LadderPreflight
  <2>1. /\ rows' = <<>> \/ (rows' = rows /\ pc = "ladder")
        /\ history' = <<>> \/ (history' = history /\ pc = "ladder")
        /\ probe' = "none" \/ (probe' = probe /\ pc = "ladder")
        /\ pc' \in {"start", "done"}
    BY <1>5 DEF Restart, Renewed, LadderPreflight
  <2>2. pc = "ladder" => DOMAIN history = {} /\ DOMAIN rows = {} /\ probe = "none"
    BY DEF SeatInv, DrawRowsInv, PlacedInv, SaidInv, InSession
  <2>3. DOMAIN rows' = {} /\ DOMAIN history' = {} /\ probe' = "none"
    BY <2>1, <2>2
  <2>4. SaidInv'
    BY <2>1, <2>3 DEF SaidInv, InSession, Probes, Where
  <2>5. pc' \notin Walking
    BY <2>1 DEF Walking
  <2> QED BY <2>1, <2>3, <2>4, <2>5
      DEF DrawRowsInv, PlacedInv, ColumnsInv, ChainInv, PagesInv, OneEach, Chained, Probes, Holds,
          Attempts, Where
<1>6. CASE Start
  <2>1. pc = "start" /\ rows' = rows /\ probe' = probe /\ pc' \in {"head", "over"}
    BY <1>6 DEF Start
  <2>2. DOMAIN rows = {} /\ probe = "none"
    BY <2>1 DEF SeatInv, DrawRowsInv, PlacedInv, SaidInv, InSession
  <2>3. \A c \in DOMAIN history' : history'[c] = <<>>
    BY <1>6 DEF Start, SeatInv
  <2>4. SaidInv'
    BY <2>1, <2>2, <2>3 DEF SaidInv, InSession, Probes, Where
  <2>5. pc' \notin Walking
    BY <2>1 DEF Walking
  <2> QED BY <2>1, <2>2, <2>4, <2>5
      DEF DrawRowsInv, PlacedInv, ColumnsInv, ChainInv, PagesInv, OneEach, Chained, Probes, Holds,
          Attempts, Where
<1>7. CASE Leave \/ HeadEnds \/ HeadTakes \/ Crash \/ (Draw /\ pc' = "over")
  <2>1. /\ rows' = rows /\ history' = history /\ probe' = probe
        /\ pc \in {"over", "head", "draw"} /\ pc' \in {"over", "done", "head", "draw"}
    BY <1>7 DEF Leave, HeadEnds, HeadTakes, Crash, Draw
  <2> QED BY <2>1, DrawRowsKept DEF InSession, Walking
<1>8. CASE Open \/ OpenFails \/ CheckDirect \/ OpenPage \/ FetchRaises \/ JudgeProbe \/ Interrupt
  <2>1. /\ rows' = rows /\ history' = history /\ probe' = probe /\ at' = at /\ walk' = walk /\ row' = row
        /\ pc \in InSession /\ pc' \in InSession /\ pc # "row" /\ pc' # "row"
        /\ pc' \in Walking => pc \in Walking
    BY <1>8 DEF Open, OpenFails, CheckDirect, OpenPage, FetchRaises, JudgeProbe, Interrupt, InSession,
                Walking
  <2> QED BY <1>0, <2>1, DrawRowsKept
<1>9. CASE Move \/ AskToStop \/ Age \/ Done \/ UNCHANGED vars
  <2>1. /\ rows' = rows /\ history' = history /\ probe' = probe /\ at' = at /\ walk' = walk /\ row' = row
        /\ pc' = pc
    BY <1>9 DEF Move, AskToStop, Age, Done, vars
  <2> QED BY <1>0, <2>1, DrawRowsKept
<1>10. Draw => pc' \in {"head", "over", "open"}
  BY DEF Draw
<1> QED
  BY <1>1, <1>2, <1>3, <1>4, <1>5, <1>6, <1>7, <1>8, <1>9, <1>10 DEF Next, Process, Around
----------------------------------------------------------------------------
(* What a run costs: an identity that waits has its exit and its queries   *)
(* to come, one in hand what is left of them, and a redraw adds one of     *)
(* each, the probe that never reached its target.                          *)

Owing ==
  CASE pc \in {"draw", "open", "direct", "page"} -> PerIdentity(args)
    [] pc \in {"walk", "row"} -> PerIdentity(args) - walk.position
    [] pc = "judge" /\ probe = "transport" -> PerIdentity(args) - 1
    [] OTHER -> 0
ExitsDue == Len(work) + Ones(pc \in Hand)
AttemptsDue == PerIdentity(args) * Len(work) + Owing
CostInv ==
  /\ IsFiniteSet(Drawn)
  /\ history # <<>> => Accepted(args)
  /\ Cardinality(Drawn) + ExitsDue <= Budget + spent
  /\ Accepted(args) => /\ Cardinality(Attempts(rows)) + AttemptsDue <= PerIdentity(args) * Budget + spent
                       /\ pc \in {"walk", "row"} => walk.position < PerIdentity(args)

LEMMA PerIdentityIs ==
  ASSUME PlanInv
  PROVE  PerIdentity(args) \in Int /\ (Accepted(args) => PerIdentity(args) >= 2) /\ Budget \in Nat
<1>1. args.series \in Int /\ args.identities \in Nat /\ Len(cells) \in Nat
  BY CellsAre, PlanAssumption DEF PlanInv
<1>2. Accepted(args) => ~(args.series < 1)
  BY AcceptedFlags DEF BadFlags
<1>3. Budget \in Nat
  BY <1>1 DEF Budget
<1> QED BY <1>1, <1>2, <1>3 DEF PerIdentity

LEMMA CostsAre ==
  ASSUME PlanInv, SeatInv, WorkInv, RowsInv, AnswerInv, CostInv
  PROVE  /\ Len(work) \in Nat /\ spent \in Nat /\ walk.position \in Nat
         /\ Cardinality(Drawn) \in Nat /\ Cardinality(Attempts(rows)) \in Nat
         /\ PerIdentity(args) * Len(work) \in Int /\ PerIdentity(args) * Budget \in Int
<1>1. Len(work) \in Nat
  BY LenProperties DEF SeatInv
<1>2. IsFiniteSet(Attempts(rows))
  BY RowsAreList, FS_Subset
<1>3. Cardinality(Drawn) \in Nat /\ Cardinality(Attempts(rows)) \in Nat
  BY <1>2, FS_CardinalityType DEF CostInv
<1> QED BY <1>1, <1>3, PerIdentityIs DEF WorkInv, AnswerInv, Walks

LEMMA Timeses ==
  ASSUME NEW p \in Int, NEW k \in Int
  PROVE  p * (k + 1) = p * k + p /\ p * (k - 1) = p * k - p /\ p * 0 = 0
<1> QED OBVIOUS

\* A step that takes no identity up and lays none down.
LEMMA CostKept ==
  ASSUME PlanInv, SeatInv, WorkInv, RowsInv, AnswerInv, CostInv,
         args' = args, cells' = cells, history' = history, rows' = rows, work' = work, spent' = spent,
         pc' \in Hand => pc \in Hand,
         Accepted(args) => Owing' <= Owing,
         Owing \in Int, Owing' \in Int,
         Accepted(args) /\ pc' \in {"walk", "row"} => walk'.position < PerIdentity(args)
  PROVE  CostInv'
<1>1. Drawn' = Drawn
  BY DEF Drawn
<1>2. Budget' = Budget /\ PerIdentity(args)' = PerIdentity(args) /\ Accepted(args)' = Accepted(args)
      /\ Attempts(rows)' = Attempts(rows)
  BY DEF Budget
<1>3. Ones(pc \in Hand) \in Int /\ Ones(pc \in Hand)' \in Int /\ Ones(pc \in Hand)' <= Ones(pc \in Hand)
  BY DEF Ones, Hand
<1>4. Cardinality(Drawn) + ExitsDue' <= Budget + spent
  BY <1>3, CostsAre, PerIdentityIs DEF CostInv, ExitsDue
<1>5. Accepted(args) =>
        Cardinality(Attempts(rows)) + AttemptsDue' <= PerIdentity(args) * Budget + spent
  <2>0. PICK all, now : all = PerIdentity(args) * Budget /\ now = PerIdentity(args) * Len(work)
    OBVIOUS
  <2>1. all \in Int /\ now \in Int /\ Cardinality(Attempts(rows)) \in Nat /\ spent \in Nat
    BY <2>0, CostsAre
  <2>2. AttemptsDue = now + Owing /\ AttemptsDue' = now + Owing'
    BY <1>2, <2>0 DEF AttemptsDue
  <2>3. Accepted(args) => Cardinality(Attempts(rows)) + AttemptsDue <= all + spent
    BY <2>0 DEF CostInv
  <2>4. Accepted(args) => Cardinality(Attempts(rows)) + AttemptsDue' <= all + spent
    BY <2>1, <2>2, <2>3
  <2> QED BY <2>0, <2>4
<1> QED BY <1>1, <1>2, <1>4, <1>5 DEF CostInv

LEMMA OwingIs ==
  ASSUME PlanInv, AnswerInv
  PROVE  Owing \in Int /\ (CostInv /\ Accepted(args) => Owing >= 0)
<1>1. PerIdentity(args) \in Int /\ walk.position \in Nat /\ (Accepted(args) => PerIdentity(args) >= 2)
  BY PerIdentityIs DEF AnswerInv, Walks
<1> QED BY <1>1 DEF Owing, CostInv
\* An identity is laid down: one more draw, and none in hand.
LEMMA CostEnd ==
  ASSUME PlanInv, SeatInv, WorkInv, RowsInv, AnswerInv, CircuitInv, CostInv,
         args' = args, cells' = cells, rows' = rows, work' = work, spent' = spent,
         NEW end, history' = Noted(end), at' = at, pc \in Hand, pc' \in {"head", "over"}
  PROVE  CostInv'
<1>1. at.cell \in DOMAIN history /\ Accepted(args) /\ pc' \notin Hand
  BY InHand DEF SeatInv, Hand, InSession
<1>2. /\ DOMAIN history' = DOMAIN history
      /\ \A c \in DOMAIN history : c # at.cell => history'[c] = history[c]
      /\ Now \in Nat /\ DOMAIN history[at.cell] = 1..Now /\ DOMAIN history'[at.cell] = 1..(Now + 1)
  BY <1>1, NotedIs
<1>3. Drawn' = Drawn \cup {<<at.cell, Now + 1>>} /\ <<at.cell, Now + 1>> \notin Drawn
  <2>1. ASSUME NEW c \in DOMAIN history, c # at.cell
        PROVE  {c} \X DOMAIN history'[c] = {c} \X DOMAIN history[c]
    BY <1>2, <2>1
  <2>2. 1..(Now + 1) = (1..Now) \cup {Now + 1} /\ Now + 1 \notin 1..Now
    BY <1>2
  <2>3. \A x : x \in Drawn <=> \E c \in DOMAIN history : x \in {c} \X DOMAIN history[c]
    BY DEF Drawn
  <2>4. \A x : x \in Drawn' <=> \E c \in DOMAIN history : x \in {c} \X DOMAIN history'[c]
    BY <1>2 DEF Drawn
  <2>5. <<at.cell, Now + 1>> \notin Drawn
    BY <1>2, <2>2, <2>3
  <2>6. ASSUME NEW x \in Drawn'
        PROVE  x \in Drawn \cup {<<at.cell, Now + 1>>}
    <3>1. PICK c \in DOMAIN history : x \in {c} \X DOMAIN history'[c]
      BY <2>4
    <3>2. CASE c # at.cell
      BY <2>1, <2>3, <3>1, <3>2
    <3>3. CASE c = at.cell
      BY <1>2, <2>2, <2>3, <3>1, <3>3
    <3> QED BY <3>2, <3>3
  <2>7. ASSUME NEW x \in Drawn
        PROVE  x \in Drawn'
    <3>1. PICK c \in DOMAIN history : x \in {c} \X DOMAIN history[c]
      BY <2>3
    <3>2. CASE c # at.cell
      BY <2>1, <2>4, <3>1, <3>2
    <3>3. CASE c = at.cell
      BY <1>2, <2>2, <2>4, <3>1, <3>3
    <3> QED BY <3>2, <3>3
  <2>8. <<at.cell, Now + 1>> \in Drawn'
    BY <1>1, <1>2, <2>2, <2>4
  <2> QED BY <2>5, <2>6, <2>7, <2>8
<1>4. IsFiniteSet(Drawn') /\ Cardinality(Drawn') = Cardinality(Drawn) + 1
  BY <1>3, FS_AddElement DEF CostInv
<1>5. Budget' = Budget /\ PerIdentity(args)' = PerIdentity(args) /\ Accepted(args)' = Accepted(args)
      /\ Attempts(rows)' = Attempts(rows)
  BY DEF Budget
<1>6. Cardinality(Drawn') + ExitsDue' <= Budget + spent
  <2>1. ExitsDue = Len(work) + 1 /\ ExitsDue' = Len(work) + 0
    BY <1>1 DEF ExitsDue, Ones
  <2> QED BY <1>4, <2>1, CostsAre, PerIdentityIs DEF CostInv
<1>7. Cardinality(Attempts(rows)) + AttemptsDue' <= PerIdentity(args) * Budget + spent
  <2>0. PICK all, now : all = PerIdentity(args) * Budget /\ now = PerIdentity(args) * Len(work)
    OBVIOUS
  <2>1. all \in Int /\ now \in Int /\ Cardinality(Attempts(rows)) \in Nat /\ spent \in Nat
    BY <2>0, CostsAre
  <2>2. AttemptsDue = now + Owing /\ AttemptsDue' = now + Owing'
    BY <1>5, <2>0 DEF AttemptsDue
  <2>3. Cardinality(Attempts(rows)) + AttemptsDue <= all + spent
    BY <1>1, <2>0 DEF CostInv
  <2>4. Owing' = 0
    BY DEF Owing
  <2>5. Owing \in Int /\ Owing >= 0
    BY <1>1, OwingIs
  <2>6. Cardinality(Attempts(rows)) + AttemptsDue' <= all + spent
    BY <2>1, <2>2, <2>3, <2>4, <2>5
  <2> QED BY <2>0, <2>6
<1> QED BY <1>1, <1>4, <1>5, <1>6, <1>7 DEF CostInv

\* The plan begins with all of its identities waiting.
LEMMA CostOpens ==
  ASSUME PlanInv, SeatInv, SeatInv', WorkInv, DrawRowsInv, CostInv, Start
  PROVE  CostInv'
<1>1. pc = "start" /\ args' = args /\ cells' = cells /\ rows' = rows /\ spent' = spent
      /\ pc' \in {"head", "over"}
  BY DEF Start
<1>2. DOMAIN history = {} /\ DOMAIN rows = {} /\ DOMAIN rows' = {} /\ work = <<>> /\ spent \in Nat
  BY <1>1 DEF SeatInv, DrawRowsInv, PlacedInv, InSession, WorkInv
<1>3. Budget' = Budget /\ PerIdentity(args)' = PerIdentity(args) /\ Accepted(args)' = Accepted(args)
      /\ Budget \in Nat /\ PerIdentity(args) \in Int /\ PerIdentity(args) * Budget \in Int
  BY <1>1, PerIdentityIs DEF Budget
<1>4. Cardinality(Attempts(rows)') = 0
  <2>1. Attempts(rows)' = {}
    BY <1>2 DEF Attempts, Where
  <2> QED BY <2>1, FS_EmptySet
<1>5. IsFiniteSet(Drawn') /\ Cardinality(Drawn') = 0
  <2>1. \A c \in DOMAIN history' : DOMAIN history'[c] = {}
    BY <1>2 DEF Start
  <2>2. Drawn' = {}
    BY <2>1 DEF Drawn
  <2> QED BY <2>2, FS_EmptySet
<1>6. Ones(pc \in Hand)' = 0 /\ Owing' = 0 /\ pc' \notin {"walk", "row"}
  BY <1>1 DEF Hand, InSession, Ones, Owing
<1>7. Len(work') \in Nat /\ Len(work') <= Budget /\ (history' # <<>> => Accepted(args))
      /\ (work' = <<>> \/ Len(work') = Budget)
  <2>1. CASE ~(Accepted(args) /\ ~args.dry)
    <3>1. work' = <<>> /\ history' = history
      BY <1>2, <2>1 DEF Start
    <3> QED BY <1>3, <3>1 DEF CostInv
  <2>2. CASE Accepted(args) /\ ~args.dry
    <3>1. DOMAIN work' = 1..Budget
      BY <2>2 DEF Start, Budget
    <3>2. work' \in Seq(Slots')
      BY DEF SeatInv
    <3>3. Len(work') \in Nat /\ DOMAIN work' = 1..Len(work')
      BY <3>2, LenProperties
    <3>4. Len(work') = Budget
      BY <1>3, <3>1, <3>3
    <3> QED BY <1>3, <2>2, <3>3, <3>4
  <2> QED BY <2>1, <2>2
<1>8. Accepted(args) =>
        Cardinality(Attempts(rows)') + AttemptsDue' <= PerIdentity(args) * Budget + spent
  <2> SUFFICES ASSUME Accepted(args)
               PROVE  Cardinality(Attempts(rows)') + AttemptsDue' <= PerIdentity(args) * Budget + spent
    OBVIOUS
  <2>0. PICK all, now : all = PerIdentity(args) * Budget /\ now = PerIdentity(args) * Len(work')
    OBVIOUS
  <2>1. AttemptsDue' = now + 0
    BY <1>3, <1>6, <2>0 DEF AttemptsDue
  <2>2. all \in Nat
    <3>1. \A a, b \in Nat : a * b \in Nat
      OBVIOUS
    <3> QED BY <1>3, <2>0, <3>1, PerIdentityIs
  <2>3. now = 0 \/ now = all
    <3>1. CASE work' = <<>>
      <4>1. Len(work') = 0
        BY <3>1
      <4> QED BY <1>3, <2>0, <4>1, Timeses
    <3> QED BY <1>7, <2>0, <3>1
  <2>4. Cardinality(Attempts(rows)') + AttemptsDue' <= all + spent
    BY <1>2, <1>4, <2>1, <2>2, <2>3
  <2> QED BY <2>0, <2>4
<1>9. Cardinality(Drawn') + ExitsDue' <= Budget + spent
  BY <1>2, <1>3, <1>5, <1>6, <1>7 DEF ExitsDue
<1> QED BY <1>1, <1>3, <1>5, <1>6, <1>7, <1>8, <1>9 DEF CostInv

LEMMA CostHeadTakes ==
  ASSUME PlanInv, SeatInv, WorkInv, RowsInv, AnswerInv, CostInv, HeadTakes
  PROVE  CostInv'
<1>1. /\ pc = "head" /\ args' = args /\ cells' = cells /\ rows' = rows /\ spent' = spent
      /\ history' = history /\ pc' \in {"head", "draw"} /\ work # <<>> /\ work' = Tail(work)
  BY DEF HeadTakes, Rest
<1>2. Len(work') = Len(work) - 1 /\ Accepted(args)
  BY <1>1, HeadTailProperties DEF SeatInv
<1>3. Drawn' = Drawn
  BY <1>1 DEF Drawn
<1>4. Budget' = Budget /\ PerIdentity(args)' = PerIdentity(args) /\ Accepted(args)' = Accepted(args)
      /\ Attempts(rows)' = Attempts(rows)
  BY <1>1 DEF Budget
<1>5. /\ ExitsDue = Len(work) + 0 /\ Owing = 0
      /\ ExitsDue' \in {Len(work) - 1 + 0, Len(work) - 1 + 1} /\ Owing' \in {0, PerIdentity(args)}
  BY <1>1, <1>2, <1>4 DEF ExitsDue, Ones, Owing, Hand, InSession
<1>6. Cardinality(Drawn) + ExitsDue' <= Budget + spent
  BY <1>5, CostsAre, PerIdentityIs DEF CostInv
<1>7. Cardinality(Attempts(rows)) + AttemptsDue' <= PerIdentity(args) * Budget + spent
  <2>0. PICK all, p, now : all = PerIdentity(args) * Budget /\ p = PerIdentity(args)
                           /\ now = PerIdentity(args) * Len(work)
    OBVIOUS
  <2>1. all \in Int /\ now \in Int /\ Cardinality(Attempts(rows)) \in Nat /\ spent \in Nat
        /\ p \in Int /\ p >= 2
    BY <1>2, <2>0, CostsAre, PerIdentityIs
  <2>2. AttemptsDue = now + 0 /\ AttemptsDue' = now - p + Owing'
    <3>1. PerIdentity(args)' * Len(work') = now - p
      BY <1>2, <1>4, <2>0, CostsAre, PerIdentityIs, Timeses
    <3> QED BY <1>5, <2>0, <2>1, <3>1 DEF AttemptsDue
  <2>3. Cardinality(Attempts(rows)) + AttemptsDue <= all + spent
    BY <1>2, <2>0 DEF CostInv
  <2>4. Owing' \in {0, p}
    BY <1>5, <2>0
  <2>5. Cardinality(Attempts(rows)) + AttemptsDue' <= all + spent
    BY <2>1, <2>2, <2>3, <2>4
  <2> QED BY <2>0, <2>5
<1> QED BY <1>1, <1>2, <1>3, <1>4, <1>6, <1>7 DEF CostInv

\* A redraw is one more of each, and its attempt is the probe it makes up for.
LEMMA CostJudgeProbe ==
  ASSUME PlanInv, SeatInv, WorkInv, RowsInv, AnswerInv, CostInv, JudgeProbe
  PROVE  CostInv'
<1>1. /\ pc = "judge" /\ pc' = "close" /\ args' = args /\ cells' = cells /\ rows' = rows
      /\ history' = history
      /\ \/ work' = work /\ spent' = spent
         \/ probe = "transport" /\ work' = PutBack /\ spent' = spent + 1
  BY DEF JudgeProbe
<1>2. Accepted(args) /\ work \in Seq(Slots) /\ Len(work) \in Nat
  BY <1>1, LenProperties DEF SeatInv, InSession
<1>3. PICK k \in {0, 1} : /\ Len(work') = Len(work) + k /\ spent' = spent + k
                          /\ k = 1 => probe = "transport"
  <2>1. CASE work' = work /\ spent' = spent
    BY <1>2, <2>1, CostsAre
  <2>2. CASE probe = "transport" /\ work' = PutBack /\ spent' = spent + 1
    <3> DEFINE U == Slots \cup {Redrawn}
    <3>1. work \in Seq(U) /\ <<Redrawn>> \in Seq(U) /\ Len(<<Redrawn>>) = 1
      BY <1>2, SeqMonotonic
    <3> HIDE DEF U
    <3>2. Len(<<Redrawn>> \o work) = 1 + Len(work)
      BY <3>1, ConcatProperties
    <3> QED BY <1>2, <2>2, <3>2 DEF PutBack
  <2> QED BY <1>1, <2>1, <2>2
<1>4. Budget' = Budget /\ PerIdentity(args)' = PerIdentity(args) /\ Accepted(args)' = Accepted(args)
      /\ Attempts(rows)' = Attempts(rows) /\ Drawn' = Drawn
  BY <1>1 DEF Budget, Drawn
<1>5. /\ ExitsDue = Len(work) + 1 /\ ExitsDue' = Len(work) + k + 1
      /\ Owing = (IF probe = "transport" THEN PerIdentity(args) - 1 ELSE 0) /\ Owing' = 0
  BY <1>1, <1>3 DEF ExitsDue, Ones, Owing, Hand, InSession
<1>6. Cardinality(Drawn) + ExitsDue' <= Budget + spent'
  <2>1. Cardinality(Drawn) + ExitsDue <= Budget + spent /\ Budget \in Nat /\ Cardinality(Drawn) \in Nat
        /\ spent \in Nat
    BY CostsAre, PerIdentityIs DEF CostInv
  <2> QED BY <1>2, <1>3, <1>5, <2>1
<1>7. Cardinality(Attempts(rows)) + AttemptsDue' <= PerIdentity(args) * Budget + spent'
  <2>0. PICK all, p, now : all = PerIdentity(args) * Budget /\ p = PerIdentity(args)
                           /\ now = PerIdentity(args) * Len(work)
    OBVIOUS
  <2>1. all \in Int /\ now \in Int /\ Cardinality(Attempts(rows)) \in Nat /\ spent \in Nat
        /\ p \in Int /\ p >= 2
    BY <1>2, <2>0, CostsAre, PerIdentityIs
  <2>2. AttemptsDue' = IF k = 1 THEN now + p ELSE now
    <3>1. PerIdentity(args)' * Len(work') = IF k = 1 THEN now + p ELSE now
      BY <1>2, <1>3, <1>4, <2>0, PerIdentityIs, Timeses
    <3> QED BY <1>5, <2>1, <3>1 DEF AttemptsDue
  <2>3. AttemptsDue = now + IF probe = "transport" THEN p - 1 ELSE 0
    BY <1>5, <2>0 DEF AttemptsDue
  <2>4. Cardinality(Attempts(rows)) + AttemptsDue <= all + spent
    BY <1>2, <2>0 DEF CostInv
  <2>5. Cardinality(Attempts(rows)) + AttemptsDue' <= all + spent'
    BY <1>3, <2>1, <2>2, <2>3, <2>4
  <2> QED BY <2>0, <2>5
<1> QED BY <1>1, <1>4, <1>6, <1>7 DEF CostInv
\* A query that is written is one attempt less that is due.
LEMMA CostOnRow ==
  ASSUME PlanInv, SeatInv, WorkInv, RowsInv, AnswerInv, CircuitInv, DrawRowsInv, CostInv, OnRow
  PROVE  CostInv'
<1> PICK new : new = Column
  OBVIOUS
<1>1. /\ pc = "row" /\ pc' \in {"walk", "judge", "close"} /\ args' = args /\ cells' = cells
      /\ work' = work /\ spent' = spent /\ history' = history /\ walk \in Walks /\ Reached /\ RowInv
      /\ rows' = Append(rows, new) /\ new.phase = row.phase
      /\ (pc' = "judge" => row.phase # "warm")
  <2>1. pc' \in {"walk", "judge", "close"} /\ (pc' = "judge" => row.phase # "warm")
    BY DEF OnRow, AfterRow
  <2> QED BY <2>1, OnRowIs DEF OnRow
<1>2. Accepted(args) /\ PerIdentity(args) \in Int /\ PerIdentity(args) >= 2 /\ walk.position \in Nat
      /\ walk.position < PerIdentity(args)
  BY <1>1, PerIdentityIs DEF SeatInv, InSession, CostInv, Walks
<1>3. PICK j \in {0, 1} : /\ Cardinality(Attempts(rows)') = Cardinality(Attempts(rows)) + j
                          /\ j = IF row.phase = "warm" THEN 0 ELSE 1
  <2>1. /\ Attempts(rows)' = Attempts(rows) \cup (IF new.phase # "warm" THEN {Len(rows) + 1} ELSE {})
        /\ Len(rows) + 1 \notin Attempts(rows)
    BY <1>1, OnRowSets, RowsGrow DEF Attempts, Where
  <2>2. IsFiniteSet(Attempts(rows)) /\ Cardinality(Attempts(rows)) \in Nat
    BY RowsAreList, FS_Subset, FS_CardinalityType
  <2>3. CASE row.phase = "warm"
    BY <1>1, <2>1, <2>2, <2>3
  <2>4. CASE row.phase # "warm"
    <3>1. Attempts(rows)' = Attempts(rows) \cup {Len(rows) + 1}
      BY <1>1, <2>1, <2>4
    <3>2. Cardinality(Attempts(rows)') = Cardinality(Attempts(rows)) + 1
      BY <2>1, <2>2, <3>1, FS_AddElement
    <3> QED BY <2>4, <3>2
  <2> QED BY <2>3, <2>4
<1>4. pc' = "walk" => /\ walk'.position = walk.position + j
                      /\ walk'.position < PerIdentity(args)
  <2>1. CASE row.phase = "warm"
    BY <1>2, <1>3, <2>1 DEF OnRow
  <2>2. ASSUME row.phase # "warm", pc' = "walk"
        PROVE  walk'.position = walk.position + 1 /\ ~LastQuery
    BY <1>1, <2>2 DEF OnRow, AfterRow, Walks
  <2> QED BY <1>2, <1>3, <2>1, <2>2 DEF LastQuery
<1>5. pc' = "judge" /\ probe' = "transport" => walk.position = 0
  <2>1. ASSUME pc' = "judge", probe' = "transport", row.phase = "hold"
        PROVE  FALSE
    BY <1>1, <2>1 DEF OnRow, Reached
  <2> QED BY <1>1, <2>1 DEF Reached
<1>6. Owing = PerIdentity(args) - walk.position /\ Owing' + j <= Owing /\ Owing' \in Int
  <2>1. Owing = PerIdentity(args) - walk.position
    BY <1>1 DEF Owing
  <2>2. CASE pc' = "walk"
    <3>1. Owing' = PerIdentity(args) - (walk.position + j)
      BY <1>1, <1>4, <2>2 DEF Owing
    <3> QED BY <1>2, <1>3, <2>1, <3>1
  <2>3. CASE pc' = "judge"
    <3>1. Owing' = IF probe' = "transport" THEN PerIdentity(args) - 1 ELSE 0
      BY <1>1, <2>3 DEF Owing
    <3> QED BY <1>1, <1>2, <1>3, <1>5, <2>1, <2>3, <3>1
  <2>4. CASE pc' = "close"
    <3>1. Owing' = 0
      BY <2>4 DEF Owing
    <3> QED BY <1>2, <1>3, <2>1, <3>1
  <2> QED BY <1>1, <2>2, <2>3, <2>4
<1>7. Budget' = Budget /\ PerIdentity(args)' = PerIdentity(args) /\ Accepted(args)' = Accepted(args)
      /\ Drawn' = Drawn /\ ExitsDue' = ExitsDue
  BY <1>1 DEF Budget, Drawn, ExitsDue, Ones, Hand, InSession
<1>8. Cardinality(Attempts(rows)') + AttemptsDue' <= PerIdentity(args) * Budget + spent
  <2>0. PICK all, now : all = PerIdentity(args) * Budget /\ now = PerIdentity(args) * Len(work)
    OBVIOUS
  <2>1. all \in Int /\ now \in Int /\ Cardinality(Attempts(rows)) \in Nat /\ spent \in Nat
    BY <2>0, CostsAre
  <2>2. AttemptsDue = now + Owing /\ AttemptsDue' = now + Owing'
    BY <1>1, <1>7, <2>0 DEF AttemptsDue
  <2>3. Cardinality(Attempts(rows)) + AttemptsDue <= all + spent
    BY <1>2, <2>0 DEF CostInv
  <2>4. Owing \in Int
    BY <1>2, <1>6
  <2>5. Cardinality(Attempts(rows)') + AttemptsDue' <= all + spent
    BY <1>3, <1>6, <2>1, <2>2, <2>3, <2>4
  <2> QED BY <2>0, <2>5
<1> QED BY <1>1, <1>2, <1>4, <1>7, <1>8 DEF CostInv

LEMMA InitCost == Init => CostInv
<1> SUFFICES ASSUME Init PROVE CostInv
  OBVIOUS
<1>1. work = <<>> /\ history = <<>> /\ rows = <<>> /\ spent = 0 /\ pc \in {"ladder", "start"} /\ PlanInv
  BY InitPlan DEF Init, Fresh
<1>2. Drawn = {} /\ Attempts(rows) = {} /\ Len(work) = 0
  BY <1>1 DEF Drawn, Attempts, Where
<1>3. IsFiniteSet(Drawn) /\ Cardinality(Drawn) = 0 /\ Cardinality(Attempts(rows)) = 0
  BY <1>2, FS_EmptySet
<1>4. ExitsDue = 0 /\ Owing = 0
  BY <1>1, <1>2 DEF ExitsDue, Ones, Owing, Hand, InSession
<1>5. Budget \in Nat /\ PerIdentity(args) \in Int /\ (Accepted(args) => PerIdentity(args) \in Nat)
  BY <1>1, PerIdentityIs
<1>6. AttemptsDue = 0
  BY <1>2, <1>4, <1>5, Timeses DEF AttemptsDue
<1>7. Accepted(args) => PerIdentity(args) * Budget \in Nat
  <2>1. \A a, b \in Nat : a * b \in Nat
    OBVIOUS
  <2> QED BY <1>5, <2>1
<1> QED BY <1>1, <1>3, <1>4, <1>5, <1>6, <1>7 DEF CostInv
\* No more is due after a step that goes on with what is in hand.
LEMMA CostQuiet ==
  ASSUME PlanInv, SeatInv, WorkInv, RowsInv, AnswerInv, CostInv,
         args' = args, cells' = cells, history' = history, rows' = rows, work' = work, spent' = spent,
         pc' \in Hand => pc \in Hand,
         \/ pc' \notin {"draw", "open", "direct", "page", "walk", "row", "judge"}
         \/ pc \in {"draw", "open", "direct", "page"} /\ pc' \in {"draw", "open", "direct", "page"}
         \/ pc = "page" /\ pc' = "walk" /\ walk'.position = 0
         \/ pc \in {"walk", "row"} /\ pc' \in {"walk", "row"} /\ walk'.position = walk.position
         \/ pc = "judge" /\ pc' = "judge" /\ probe' = probe
  PROVE  CostInv'
<1>1. PerIdentity(args) \in Int /\ (Accepted(args) => PerIdentity(args) >= 2) /\ walk.position \in Nat
  BY PerIdentityIs DEF AnswerInv, Walks
<1>2. Owing \in Int /\ (Accepted(args) => Owing >= 0)
  BY OwingIs
<1>3. Owing' \in Int /\ (Accepted(args) => Owing' <= Owing)
  <2>1. CASE pc' \notin {"draw", "open", "direct", "page", "walk", "row", "judge"}
    <3>1. Owing' = 0
      BY <2>1 DEF Owing
    <3> QED BY <1>2, <3>1
  <2>2. CASE pc \in {"draw", "open", "direct", "page"} /\ pc' \in {"draw", "open", "direct", "page"}
    <3>1. Owing' = Owing
      BY <2>2 DEF Owing
    <3> QED BY <1>2, <3>1
  <2>3. CASE pc = "page" /\ pc' = "walk" /\ walk'.position = 0
    <3>1. Owing = PerIdentity(args) /\ Owing' = PerIdentity(args) - 0
      BY <2>3 DEF Owing
    <3> QED BY <1>1, <3>1
  <2>4. CASE pc \in {"walk", "row"} /\ pc' \in {"walk", "row"} /\ walk'.position = walk.position
    <3>1. Owing' = Owing
      BY <2>4 DEF Owing
    <3> QED BY <1>2, <3>1
  <2>5. CASE pc = "judge" /\ pc' = "judge" /\ probe' = probe
    <3>1. Owing' = Owing
      BY <2>5 DEF Owing
    <3> QED BY <1>2, <3>1
  <2> QED BY <2>1, <2>2, <2>3, <2>4, <2>5
<1>4. Accepted(args) /\ pc' \in {"walk", "row"} => walk'.position < PerIdentity(args)
  BY <1>1 DEF CostInv
<1> QED BY <1>2, <1>3, <1>4, CostKept

LEMMA NextCost ==
  PlanInv /\ SeatInv /\ SeatInv' /\ WorkInv /\ RowsInv /\ AnswerInv /\ CircuitInv /\ DrawRowsInv /\ WalkInv
    /\ CostInv /\ [Next]_vars => CostInv'
<1> SUFFICES ASSUME PlanInv, SeatInv, SeatInv', WorkInv, RowsInv, AnswerInv, CircuitInv, DrawRowsInv,
                    WalkInv, CostInv, [Next]_vars
             PROVE  CostInv'
  OBVIOUS
<1>0. args' = args /\ cells' = cells
  BY PlanKept
<1>1. CASE Start \/ HeadTakes \/ OnRow \/ JudgeProbe
  BY <1>1, CostOpens, CostHeadTakes, CostOnRow, CostJudgeProbe
<1>2. CASE Close
  <2>1. /\ pc = "close" /\ pc' \in {"head", "over"} /\ at' = at /\ rows' = rows /\ work' = work
        /\ spent' = spent /\ \E why : history' = Noted(why)
    BY <1>2 DEF Close
  <2> QED BY <1>0, <2>1, CostEnd DEF Hand, InSession
<1>3. CASE Draw /\ pc' = "head"
  <2>1. /\ pc = "draw" /\ at' = at /\ rows' = rows /\ work' = work /\ spent' = spent
        /\ history' = Noted("skipped")
    BY <1>3 DEF Draw
  <2> QED BY <1>0, <1>3, <2>1, CostEnd DEF Hand
<1>4. CASE Restart
  <2>1. work' = <<>> /\ history' = <<>> /\ rows' = <<>> /\ spent' = 0 /\ pc' = "start"
    BY <1>4 DEF Restart, Renewed
  <2>2. Drawn' = {} /\ Attempts(rows)' = {} /\ Len(work') = 0
    BY <2>1 DEF Drawn, Attempts, Where
  <2>3. IsFiniteSet(Drawn') /\ Cardinality(Drawn') = 0 /\ Cardinality(Attempts(rows)') = 0
    BY <2>2, FS_EmptySet
  <2>4. ExitsDue' = 0 /\ Owing' = 0
    BY <2>1, <2>2 DEF ExitsDue, Ones, Owing, Hand, InSession
  <2>5. /\ Budget' = Budget /\ PerIdentity(args)' = PerIdentity(args) /\ Accepted(args)' = Accepted(args)
        /\ Budget \in Nat /\ PerIdentity(args) \in Int /\ (Accepted(args) => PerIdentity(args) \in Nat)
    BY <1>0, PerIdentityIs DEF Budget
  <2>6. AttemptsDue' = 0
    BY <2>2, <2>4, <2>5, Timeses DEF AttemptsDue
  <2>7. Accepted(args) => PerIdentity(args) * Budget \in Nat
    <3>1. \A a, b \in Nat : a * b \in Nat
      OBVIOUS
    <3> QED BY <2>5, <3>1
  <2> QED BY <2>1, <2>3, <2>4, <2>5, <2>6, <2>7 DEF CostInv
<1>5. CASE LadderPreflight \/ Leave \/ HeadEnds \/ Crash \/ (Draw /\ pc' # "head")
  <2>1. /\ rows' = rows /\ history' = history /\ work' = work /\ spent' = spent
        /\ \/ pc' \in {"start", "over", "done"}
           \/ pc = "draw" /\ pc' = "open"
    BY <1>5 DEF LadderPreflight, Leave, HeadEnds, Crash, Draw
  <2> QED BY <1>0, <2>1, CostQuiet DEF Hand, InSession
<1>6. CASE Open \/ OpenFails \/ CheckDirect \/ OpenPage
  <2>1. /\ rows' = rows /\ history' = history /\ work' = work /\ spent' = spent /\ walk' = walk
        /\ pc \in {"open", "direct", "page"} /\ pc' \in {"direct", "page", "walk", "close"}
        /\ (pc' = "walk" => pc = "page")
    BY <1>6 DEF Open, OpenFails, CheckDirect, OpenPage
  <2>2. walk.position = 0
    BY <2>1 DEF WalkInv, NoWalk
  <2> QED BY <1>0, <2>1, <2>2, CostQuiet DEF Hand, InSession
<1>7. CASE Visit \/ SendQuery \/ FetchRaises \/ Interrupt
  <2>1. /\ rows' = rows /\ history' = history /\ work' = work /\ spent' = spent
        /\ pc = "walk" /\ pc' \in {"row", "close"}
    BY <1>7 DEF Visit, SendQuery, FetchRaises, Interrupt
  <2>2. walk'.position = walk.position
    <3>1. CASE Visit
      <4>1. walk \in Walks
        BY DEF AnswerInv
      <4>2. \E arrived, failed \in BOOLEAN :
              walk' = IF failed /\ walk.attempt = 1
                      THEN [walk EXCEPT !.attempt = 2]
                      ELSE [walk EXCEPT !.page = @ + 1, !.attempt = 1,
                                        !.delivered = IF failed THEN @ ELSE @ + 1,
                                        !.loaded = IF arrived THEN @ + 1 ELSE @]
        BY <3>1 DEF Visit
      <4> QED BY <4>1, <4>2 DEF Walks
    <3> QED BY <1>7, <3>1 DEF SendQuery, FetchRaises, Interrupt
  <2> QED BY <1>0, <2>1, <2>2, CostQuiet DEF Hand, InSession
<1>8. CASE Move \/ AskToStop \/ Age \/ Done \/ UNCHANGED vars
  <2>1. /\ rows' = rows /\ history' = history /\ work' = work /\ spent' = spent /\ walk' = walk
        /\ probe' = probe /\ pc' = pc
    BY <1>8 DEF Move, AskToStop, Age, Done, vars
  <2> QED BY <1>0, <2>1, CostQuiet
<1> QED
  BY <1>1, <1>2, <1>3, <1>4, <1>5, <1>6, <1>7, <1>8 DEF Next, Process, Around
----------------------------------------------------------------------------
(* When the run is over, the rows of a draw are all there are, and the     *)
(* tables count them.                                                      *)

SaidAll == {"ok", "refused", "error", "transport"}

LEMMA OverIs ==
  ASSUME DrawRowsInv, RowsInv, pc = "over"
  PROVE  /\ \A i \in DOMAIN rows :
              rows[i].cell \in DOMAIN history /\ rows[i].draw \in Nat
              /\ rows[i].draw < Len(history[rows[i].cell])
         /\ \A i \in Probes(rows) :
              /\ i \in DOMAIN rows /\ i \in Attempts(rows) /\ rows[i].position = 0
              /\ rows[i].verdict \in Verdicts /\ (rows[i].verdict = "error" => rows[i].error \in Named)
              /\ history[rows[i].cell][rows[i].draw + 1].probe = Said(rows[i])
<1>1. \A i \in DOMAIN rows :
        rows[i].cell \in DOMAIN history /\ rows[i].draw \in Nat
        /\ rows[i].draw < Len(history[rows[i].cell])
  BY DEF DrawRowsInv, PlacedInv, InSession
<1>2. ASSUME NEW i \in Probes(rows)
      PROVE  /\ i \in DOMAIN rows /\ i \in Attempts(rows) /\ rows[i].position = 0
             /\ rows[i].verdict \in Verdicts /\ (rows[i].verdict = "error" => rows[i].error \in Named)
             /\ history[rows[i].cell][rows[i].draw + 1].probe = Said(rows[i])
  <2>1. i \in DOMAIN rows /\ rows[i].phase = "probe"
    BY DEF Probes, Where
  <2>2. i \in Attempts(rows)
    BY <2>1 DEF Attempts, Where
  <2>3. Column1(rows[i])
    BY <2>1 DEF DrawRowsInv, ColumnsInv
  <2>4. AnswerTo(rows[i]) = Said(rows[i])
    BY DEF DrawRowsInv, SaidInv
  <2>5. history[rows[i].cell][rows[i].draw + 1].probe = Said(rows[i])
    BY <1>1, <2>1, <2>4 DEF AnswerTo
  <2> QED BY <2>1, <2>2, <2>3, <2>5 DEF Column1
<1> QED BY <1>1, <1>2

\* A cell has as many probe rows that say one of these as it has draws that
\* came to one of them.
ProbesSaying(c, answers) == {i \in Probes(rows) : rows[i].cell = c /\ Said(rows[i]) \in answers}
LEMMA ProbesAreDraws ==
  ASSUME DrawRowsInv, RowsInv, CircuitInv, pc = "over",
         NEW c \in DOMAIN history, NEW answers \in SUBSET SaidAll
  PROVE  /\ IsFiniteSet(ProbesSaying(c, answers))
         /\ Cardinality(ProbesSaying(c, answers)) =
              Cardinality({d \in DOMAIN history[c] : history[c][d].probe \in answers})
<1> DEFINE S == ProbesSaying(c, answers)
           T == {d \in DOMAIN history[c] : history[c][d].probe \in answers}
           f == [i \in S |-> rows[i].draw + 1]
<1>1. S \subseteq DOMAIN rows /\ IsFiniteSet(DOMAIN rows)
  BY RowsAreList DEF ProbesSaying
<1>2. IsFiniteSet(S)
  BY <1>1, FS_Subset
<1>3. Len(history[c]) \in Nat /\ DOMAIN history[c] = 1..Len(history[c])
  BY DrawsAreList
<1>4. ASSUME NEW i \in S
      PROVE  rows[i].draw + 1 \in T
  <2>1. i \in Probes(rows) /\ rows[i].cell = c /\ Said(rows[i]) \in answers
    BY DEF ProbesSaying
  <2>2. i \in DOMAIN rows /\ history[c][rows[i].draw + 1].probe = Said(rows[i])
    BY <2>1, OverIs
  <2>3. rows[i].draw \in Nat /\ rows[i].draw < Len(history[c])
    BY <2>1, <2>2, OverIs
  <2>4. rows[i].draw + 1 \in 1..Len(history[c])
    BY <1>3, <2>3
  <2> QED BY <1>3, <2>1, <2>2, <2>4
<1>5. ASSUME NEW i \in S, NEW j \in S, rows[i].draw + 1 = rows[j].draw + 1
      PROVE  i = j
  <2>1. i \in Probes(rows) /\ j \in Probes(rows) /\ rows[i].cell = c /\ rows[j].cell = c
    BY DEF ProbesSaying
  <2>2. /\ i \in Attempts(rows) /\ j \in Attempts(rows) /\ rows[i].position = 0 /\ rows[j].position = 0
        /\ rows[i].draw \in Nat /\ rows[j].draw \in Nat
    BY <2>1, OverIs
  <2>3. rows[i].draw = rows[j].draw
    BY <1>5, <2>2
  <2> QED BY <2>1, <2>2, <2>3 DEF DrawRowsInv, ChainInv, OneEach, OfDraw
<1>6. ASSUME NEW d \in T
      PROVE  \E i \in S : rows[i].draw + 1 = d
  <2>1. d \in DOMAIN history[c] /\ history[c][d].probe \in answers /\ history[c][d].probe # "none"
    BY DEF SaidAll
  <2>2. PICK i \in Probes(rows) : OfDraw(rows[i], c, d - 1)
    BY <2>1 DEF DrawRowsInv, SaidInv, HasProbe
  <2>3. rows[i].cell = c /\ rows[i].draw = d - 1 /\ d \in Nat
    BY <1>3, <2>1, <2>2 DEF OfDraw
  <2>4. rows[i].draw + 1 = d
    BY <2>3
  <2>5. Said(rows[i]) \in answers
    BY <2>1, <2>2, <2>3, <2>4, OverIs
  <2> QED BY <2>2, <2>3, <2>4, <2>5 DEF ProbesSaying
<1> HIDE DEF S, T
<1>7. f \in Bijection(S, T)
  BY <1>4, <1>5, <1>6 DEF Bijection, Injection, Surjection, IsInjective
<1>8. ExistsBijection(S, T)
  BY <1>7 DEF ExistsBijection
<1>9. Cardinality(T) = Cardinality(S)
  BY <1>2, <1>8, FS_Bijection
<1> QED BY <1>2, <1>9 DEF S, T

\* A query that holds an exit has the probe of its identity before it.
LEMMA HoldsHaveProbe ==
  ASSUME DrawRowsInv, RowsInv
  PROVE  \A i \in Attempts(rows) : HasProbe(rows[i].cell, rows[i].draw)
<1> DEFINE P == {p \in Nat : \A i \in Holds(rows) :
                   rows[i].position = p => HasProbe(rows[i].cell, rows[i].draw)}
<1>1. \A i \in Holds(rows) : i \in DOMAIN rows /\ rows[i].position \in Nat \ {0}
  BY DEF Holds, Where, DrawRowsInv, ColumnsInv, Column1
<1>2. 0 \in P
  BY <1>1
<1>3. ASSUME NEW p \in Nat, p \in P
      PROVE  p + 1 \in P
  <2> SUFFICES ASSUME NEW i \in Holds(rows), rows[i].position = p + 1
               PROVE  HasProbe(rows[i].cell, rows[i].draw)
    OBVIOUS
  <2>1. PICK j \in DOMAIN rows : Follows(j, rows[i].cell, rows[i].draw, p + 1)
    BY DEF DrawRowsInv, ChainInv, Chained
  <2>2. /\ rows[j].cell = rows[i].cell /\ rows[j].draw = rows[i].draw /\ rows[j].position = p + 1 - 1
        /\ rows[j].phase = IF p + 1 = 1 THEN "probe" ELSE "hold"
    BY <2>1 DEF Follows, OfDraw
  <2>3. CASE p = 0
    <3>1. j \in Probes(rows)
      BY <2>2, <2>3 DEF Probes, Where
    <3> QED BY <2>2, <3>1 DEF HasProbe, OfDraw
  <2>4. CASE p # 0
    <3>1. rows[j].phase = "hold" /\ rows[j].position = p
      BY <2>2, <2>4
    <3>2. j \in Holds(rows)
      BY <3>1 DEF Holds, Where
    <3> QED BY <1>3, <2>2, <3>1, <3>2
  <2> QED BY <2>3, <2>4
<1> HIDE DEF P
<1>4. Nat \subseteq P
  BY <1>2, <1>3, NatInduct
<1>5. ASSUME NEW i \in Attempts(rows)
      PROVE  HasProbe(rows[i].cell, rows[i].draw)
  <2>1. i \in DOMAIN rows /\ rows[i].phase \in {"probe", "hold"}
    BY DEF Attempts, Where, DrawRowsInv, ColumnsInv, Column1, Phases
  <2>2. CASE rows[i].phase = "probe"
    BY <2>1, <2>2 DEF HasProbe, OfDraw, Probes, Where
  <2>3. CASE rows[i].phase = "hold"
    <3>1. i \in Holds(rows)
      BY <2>1, <2>3 DEF Holds, Where
    <3> QED BY <1>1, <1>4, <3>1 DEF P
  <2> QED BY <2>1, <2>2, <2>3
<1> QED BY <1>5
\* What summarise() says of a cell.
LEMMA CellLineTrue ==
  ASSUME DrawRowsInv, RowsInv, CircuitInv, pc = "over", NEW c \in DOMAIN history,
         NEW table, table = ByCell(rows)
  PROVE  LET ended_as(answers) ==
               Cardinality({i \in DOMAIN history[c] : history[c][i].probe \in answers})
             asked == ended_as({"ok", "refused", "error", "transport"})
             walls == Cardinality({i \in Probes(rows) : rows[i].cell = c /\ rows[i].verdict = "consent"})
         IN  /\ asked > 0 <=> c \in DOMAIN table
             /\ asked > 0 => /\ table[c].probes = asked
                             /\ table[c].served = ended_as({"ok"})
                             /\ table[c].judged = ended_as({"ok", "refused"}) - walls
<1> DEFINE ended_as(answers) ==
             Cardinality({i \in DOMAIN history[c] : history[c][i].probe \in answers})
           asked == ended_as({"ok", "refused", "error", "transport"})
           mine == {i \in Probes(rows) : rows[i].cell = c}
           seen == {i \in mine : rows[i].verdict \in JUDGED}
           consents == {i \in Probes(rows) : rows[i].cell = c /\ rows[i].verdict = "consent"}
<1>1. \A answers \in SUBSET SaidAll :
        IsFiniteSet(ProbesSaying(c, answers)) /\ Cardinality(ProbesSaying(c, answers)) = ended_as(answers)
  BY ProbesAreDraws
<1>2. SaidAll \in SUBSET SaidAll /\ {"ok"} \in SUBSET SaidAll /\ {"ok", "refused"} \in SUBSET SaidAll
      /\ SaidAll = {"ok", "refused", "error", "transport"}
  BY DEF SaidAll
<1>3. ASSUME NEW i \in Probes(rows)
      PROVE  /\ Said(rows[i]) \in SaidAll
             /\ Said(rows[i]) = "ok" <=> rows[i].verdict = "ok"
             /\ Said(rows[i]) \in {"ok", "refused"} <=> rows[i].verdict \in JUDGED \cup {"consent"}
             /\ rows[i].verdict \in JUDGED => rows[i].verdict # "consent"
             /\ i \in DOMAIN rows
  <2>1. rows[i].verdict \in Verdicts /\ (rows[i].verdict = "error" => rows[i].error \in Named)
        /\ i \in DOMAIN rows
    BY OverIs
  <2> QED BY <2>1 DEF Said, SaidAll, Named, JUDGED, Verdicts
<1>4. mine = ProbesSaying(c, SaidAll)
  BY <1>3 DEF ProbesSaying
<1>5. seen \cap Served(rows) = ProbesSaying(c, {"ok"})
  BY <1>3 DEF ProbesSaying, Served, Where, JUDGED
<1>6. seen \cup consents = ProbesSaying(c, {"ok", "refused"}) /\ seen \cap consents = {}
  BY <1>3 DEF ProbesSaying
<1>7. Cardinality(seen) = ended_as({"ok", "refused"}) - Cardinality(consents)
  <2> DEFINE A == seen
             B == consents
             C == ProbesSaying(c, {"ok", "refused"})
  <2>1. A \cup B = C /\ A \cap B = {} /\ IsFiniteSet(C)
    BY <1>1, <1>2, <1>6
  <2> HIDE DEF A, B, C
  <2>2. IsFiniteSet(A) /\ IsFiniteSet(B)
    BY <2>1, FS_Subset
  <2>3. Cardinality(C) = Cardinality(A) + Cardinality(B) - 0
    BY <2>1, <2>2, FS_Union, FS_EmptySet
  <2>4. Cardinality(A) \in Nat /\ Cardinality(B) \in Nat
    BY <2>2, FS_CardinalityType
  <2>5. Cardinality(A) = Cardinality(C) - Cardinality(B)
    BY <2>3, <2>4
  <2>6. Cardinality(C) = ended_as({"ok", "refused"})
    BY <1>1, <1>2 DEF C
  <2> QED BY <2>5, <2>6 DEF A, B
<1>8. asked = Cardinality(mine) /\ IsFiniteSet(mine) /\ Cardinality(mine) \in Nat
  <2>1. IsFiniteSet(ProbesSaying(c, SaidAll)) /\ Cardinality(ProbesSaying(c, SaidAll)) = ended_as(SaidAll)
    BY <1>1, <1>2
  <2>2. ended_as(SaidAll) = asked
    BY <1>2
  <2>3. IsFiniteSet(mine) /\ Cardinality(mine) = asked
    BY <1>4, <2>1, <2>2
  <2> HIDE DEF mine, asked
  <2> QED BY <2>3, FS_CardinalityType
<1>9. mine # {} <=> c \in DOMAIN table
  <2>1. DOMAIN table = {rows[i].cell : i \in Attempts(rows)}
    BY DEF ByCell
  <2>2. ASSUME NEW i \in mine
        PROVE  c \in DOMAIN table
    BY <2>1, OverIs
  <2>3. ASSUME c \in DOMAIN table
        PROVE  mine # {}
    <3>1. PICK i \in Attempts(rows) : rows[i].cell = c
      BY <2>1, <2>3
    <3>2. HasProbe(c, rows[i].draw)
      BY <3>1, HoldsHaveProbe
    <3> QED BY <3>2 DEF HasProbe, OfDraw
  <2> QED BY <2>2, <2>3
<1>10. asked > 0 <=> c \in DOMAIN table
  <2> HIDE DEF mine, asked
  <2>1. asked > 0 <=> mine # {}
    BY <1>8, FS_EmptySet
  <2> QED BY <1>9, <2>1
<1>11. ASSUME c \in DOMAIN table
       PROVE  /\ table[c].probes = Cardinality(mine)
              /\ table[c].judged = Cardinality(seen)
              /\ table[c].served = Cardinality(seen \cap Served(rows))
  <2>1. table[c] = Line(rows, c)
    BY <1>11 DEF ByCell
  <2> QED BY <2>1 DEF Line
<1>12. Cardinality(seen \cap Served(rows)) = ended_as({"ok"})
  BY <1>1, <1>2, <1>5
<1> HIDE DEF mine, seen
<1>13. asked > 0 => /\ table[c].probes = asked
                    /\ table[c].served = ended_as({"ok"})
                    /\ table[c].judged = ended_as({"ok", "refused"}) - Cardinality(consents)
  BY <1>7, <1>8, <1>10, <1>11, <1>12
<1> QED BY <1>10, <1>13

\* What it says of how long a good exit lasts.
LEMMA HeldTrue ==
  ASSUME DrawRowsInv, RowsInv, NEW table, table = HowLong(rows), NEW p \in DOMAIN table
  PROVE  table[p].n <= IF p = 1 THEN Cardinality(Probes(rows) \cap Served(rows)) ELSE table[p - 1].ok
<1> DEFINE S == {i \in Holds(rows) : rows[i].position = p}
           T == IF p = 1 THEN Probes(rows) \cap Served(rows)
                ELSE {i \in Holds(rows) : rows[i].position = p - 1} \cap Served(rows)
           f == [i \in S |-> CHOOSE j \in DOMAIN rows : Follows(j, rows[i].cell, rows[i].draw, p)]
<1>1. DOMAIN table = {rows[i].position : i \in Holds(rows)}
  BY DEF HowLong
<1>2. \A i \in Holds(rows) : i \in DOMAIN rows /\ i \in Attempts(rows) /\ rows[i].position \in Nat \ {0}
  BY DEF Holds, Attempts, Where, DrawRowsInv, ColumnsInv, Column1
<1>3. p \in Nat \ {0}
  BY <1>1, <1>2
<1>4. ASSUME NEW i \in S
      PROVE  Follows(f[i], rows[i].cell, rows[i].draw, p) /\ f[i] \in DOMAIN rows
  <2>1. \E j \in DOMAIN rows : Follows(j, rows[i].cell, rows[i].draw, p)
    BY DEF DrawRowsInv, ChainInv, Chained
  <2> QED BY <2>1
<1>5. ASSUME NEW i \in S
      PROVE  f[i] \in T
  <2>1. PICK j \in DOMAIN rows : j = f[i] /\ Follows(j, rows[i].cell, rows[i].draw, p)
    BY <1>4
  <2>2. /\ rows[j].verdict = "ok" /\ rows[j].position = p - 1
        /\ rows[j].phase = IF p = 1 THEN "probe" ELSE "hold"
    BY <2>1 DEF Follows
  <2>3. j \in T
    BY <2>2 DEF Probes, Holds, Served, Where
  <2> HIDE DEF f, T
  <2> QED BY <2>1, <2>3
<1>6. ASSUME NEW i \in S, NEW k \in S, f[i] = f[k]
      PROVE  i = k
  <2>1. PICK j : j = f[i] /\ j = f[k]
    BY <1>6
  <2>2. Follows(j, rows[i].cell, rows[i].draw, p) /\ Follows(j, rows[k].cell, rows[k].draw, p)
    BY <1>4, <2>1
  <2>3. OfDraw(rows[i], rows[k].cell, rows[k].draw) /\ rows[i].position = rows[k].position
    BY <2>2 DEF Follows, OfDraw
  <2>4. i \in Attempts(rows) /\ k \in Attempts(rows)
    BY <1>2
  <2> QED BY <2>3, <2>4 DEF DrawRowsInv, ChainInv, OneEach
<1>7. IsFiniteSet(T)
  <2>1. T \subseteq DOMAIN rows
    BY DEF Probes, Holds, Where
  <2> HIDE DEF T
  <2> QED BY <2>1, RowsAreList, FS_Subset
<1>8. Cardinality(S) <= Cardinality(T)
  <2> HIDE DEF S, T
  <2>1. f \in [S -> T]
    <3>1. f = [i \in S |-> f[i]]
      OBVIOUS
    <3> HIDE DEF f
    <3> QED BY <1>5, <3>1
  <2> HIDE DEF f
  <2>2. f \in Injection(S, T)
    BY <1>6, <2>1 DEF Injection, IsInjective
  <2> QED BY <1>7, <2>2, FS_Injection
<1>9. table[p].n = Cardinality(S)
  BY DEF HowLong
<1>10. ASSUME p # 1
       PROVE  table[p - 1].ok = Cardinality(T)
  <2>1. PICK i \in S : TRUE
    BY <1>1
  <2>2. PICK j \in DOMAIN rows : Follows(j, rows[i].cell, rows[i].draw, p)
    BY <1>4
  <2>3. j \in Holds(rows) /\ rows[j].position = p - 1
    BY <1>10, <2>2 DEF Follows, Holds, Where
  <2>4. p - 1 \in DOMAIN table
    BY <1>1, <2>3
  <2> QED BY <1>10, <2>4 DEF HowLong
<1> HIDE DEF S, T
<1>11. p = 1 => T = Probes(rows) \cap Served(rows)
  BY DEF T
<1> QED BY <1>8, <1>9, <1>10, <1>11
LEMMA PagesTrue ==
  ASSUME DrawRowsInv
  PROVE  \A i \in Probes(rows) :
           rows[i].delivered =
             Cardinality({j \in DOMAIN rows : /\ rows[j].phase = "warm" /\ rows[j].error = "none"
                                             /\ rows[j].cell = rows[i].cell
                                             /\ rows[j].draw = rows[i].draw})
<1> SUFFICES ASSUME NEW i \in Probes(rows)
             PROVE  rows[i].delivered =
                      Cardinality({j \in DOMAIN rows : /\ rows[j].phase = "warm" /\ rows[j].error = "none"
                                                      /\ rows[j].cell = rows[i].cell
                                                      /\ rows[j].draw = rows[i].draw})
  OBVIOUS
<1>1. Visited(rows[i].cell, rows[i].draw) =
        {j \in DOMAIN rows : /\ rows[j].phase = "warm" /\ rows[j].error = "none"
                             /\ rows[j].cell = rows[i].cell /\ rows[j].draw = rows[i].draw}
  BY DEF Visited, OfDraw
<1>2. rows[i].delivered = Cardinality(Visited(rows[i].cell, rows[i].draw))
  BY DEF DrawRowsInv, PagesInv
<1> QED BY <1>1, <1>2

\* What was printed before the run bounds what it has cost.
LEMMA DescribedBounds ==
  ASSUME PlanInv, SeatInv, WorkInv, RowsInv, AnswerInv, CostInv, pc = "over", history # <<>>
  PROVE  /\ Cardinality(Drawn) <= Described(args).exits + spent
         /\ Cardinality(Attempts(rows)) <= Described(args).attempts + spent
<1>1. Described(args).exits = Budget /\ Described(args).attempts = Budget * PerIdentity(args)
  BY DEF Described, Budget, PlanInv
<1>2. Accepted(args) /\ PerIdentity(args) \in Nat /\ Budget \in Nat
  BY PerIdentityIs DEF CostInv
<1>3. ExitsDue = Len(work) + 0 /\ Owing = 0
  BY DEF ExitsDue, Ones, Hand, InSession, Owing
<1>4. Cardinality(Drawn) <= Budget + spent
  BY <1>2, <1>3, CostsAre DEF CostInv
<1>5. Cardinality(Attempts(rows)) <= Budget * PerIdentity(args) + spent
  <2>0. PICK all, now : all = PerIdentity(args) * Budget /\ now = PerIdentity(args) * Len(work)
    OBVIOUS
  <2>1. \A a, b \in Nat : a * b \in Nat /\ a * b = b * a
    OBVIOUS
  <2>2. now \in Nat /\ all \in Nat /\ all = Budget * PerIdentity(args) /\ spent \in Nat
        /\ Cardinality(Attempts(rows)) \in Nat
    BY <1>2, <2>0, <2>1, CostsAre
  <2>3. AttemptsDue = now + 0
    BY <1>3, <2>0 DEF AttemptsDue
  <2>4. Cardinality(Attempts(rows)) + AttemptsDue <= all + spent
    BY <1>2, <2>0 DEF CostInv
  <2>5. Cardinality(Attempts(rows)) <= all + spent
    BY <2>2, <2>3, <2>4
  <2> QED BY <2>2, <2>5
<1> QED BY <1>1, <1>4, <1>5

LEMMA SummaryTrue ==
  ASSUME DrawRowsInv, RowsInv, CircuitInv, pc = "over", NEW summary \in Summarise(rows)
  PROVE  SummaryIsTrue(summary)
<1>1. summary.cells = ByCell(rows) /\ summary.held = HowLong(rows)
  BY DEF Summarise
<1>2. \A p \in DOMAIN summary.held :
        summary.held[p].n <= IF p = 1 THEN Cardinality(Probes(rows) \cap Served(rows))
                             ELSE summary.held[p - 1].ok
  BY <1>1, HeldTrue
<1>3. ASSUME NEW c \in DOMAIN history
      PROVE  LET ended_as(answers) ==
                   Cardinality({i \in DOMAIN history[c] : history[c][i].probe \in answers})
                 asked == ended_as({"ok", "refused", "error", "transport"})
                 walls == Cardinality({i \in Probes(rows) : rows[i].cell = c /\ rows[i].verdict = "consent"})
             IN  /\ asked > 0 <=> c \in DOMAIN summary.cells
                 /\ asked > 0 => /\ summary.cells[c].probes = asked
                                 /\ summary.cells[c].served = ended_as({"ok"})
                                 /\ summary.cells[c].judged = ended_as({"ok", "refused"}) - walls
  BY <1>1, CellLineTrue
<1> QED BY <1>2, <1>3, PagesTrue DEF SummaryIsTrue

\* However probes fail, pages are missed, breakers trip, the operator stops and
\* a session raises half way: at the end of a run no more exits were drawn and
\* no more attempts sent than was said before it, but for a redraw each; every
\* draw that asked its target is counted once in the table of its cell, with
\* the answer it had, and nothing else is; a query that held an exit followed a
\* served one; and the pages of an identity are those its visits brought
\* (probe_and_hold.py, describe(), on_row, run_identity, main, summarise()).
THEOREM EveryoneAccounted == Spec => []EveryIdentityAccounted
<1> DEFINE All == /\ PlanInv /\ SeatInv /\ AnswerInv /\ MeterInv /\ WorkInv /\ EndedInv /\ KindsInv
                  /\ WalkInv /\ CircuitInv /\ DrawRowsInv /\ CostInv
           Printed == /\ pc = "over" /\ history # <<>> =>
                           /\ Cardinality(Drawn) <= Described(args).exits + spent
                           /\ Cardinality(Attempts(rows)) <= Described(args).attempts + spent
                      /\ pc = "over" => \A summary \in Summarise(rows) : SummaryIsTrue(summary)
<1>1. Init => All
  <2>1. Init => PlanInv /\ CircuitInv
    BY DEF Init, Fresh, PlanInv, CircuitInv, InSession
  <2> QED
    BY <2>1, InitSeat, InitAnswer, InitMeter, InitWork, InitEnded, InitKinds, InitLate, InitDrawRows, InitCost
<1>2. All /\ [Next]_vars => All'
  <2>1. KindsInv => RowsInv
    BY DEF KindsInv
  <2> QED BY <2>1, NextPlan, NextSeat, NextAnswer, NextMeter, NextWork, NextEnded, NextKinds, NextWalk,
             NextCircuit, NextDrawRows, NextCost
<1>3. All => Printed
  BY DescribedBounds, SummaryTrue DEF KindsInv
<1>4. Printed /\ IdentitiesDrawn => EveryIdentityAccounted
  BY DEF EveryIdentityAccounted
<1> HIDE DEF All, Printed
<1>5. Spec => []Printed
  BY <1>1, <1>2, <1>3, PTL DEF Spec
<1> QED BY <1>4, <1>5, DrawnOnce, PTL
----------------------------------------------------------------------------
(* What a list keeps of its values once each is taken once, and what a     *)
(* label keeps of the settings typed.                                      *)

LEMMA PickedHolds ==
  ASSUME NEW V, NEW list \in Seq(V), NEW T
  PROVE  /\ Picked(list, T) \in Seq(V)
         /\ ToSet(Picked(list, T)) = {list[i] : i \in T \cap (1..Len(list))}
         /\ (\A i, j \in T \cap (1..Len(list)) : list[i] = list[j] => i = j) =>
              \A a, b \in DOMAIN Picked(list, T) : Picked(list, T)[a] = Picked(list, T)[b] => a = b
<1> DEFINE L == Len(list)
           Apart == \A i, j \in T \cap (1..L) : list[i] = list[j] => i = j
           TakenIs(taken, n) ==
             /\ taken \in Seq(V)
             /\ ToSet(taken) = {list[i] : i \in T \cap (1..n)}
             /\ Apart => \A a, b \in DOMAIN taken : taken[a] = taken[b] => a = b
<1>1. L \in Nat /\ DOMAIN list = 1..L /\ \A i \in 1..L : list[i] \in V
  BY LenProperties, ElementOfSeq
<1>2. PICK f \in [0..L -> Seq(V)] : Picking(list, T, f) /\ Picked(list, T) = f[L]
  BY <1>1, PickedIs
<1> DEFINE S == {n \in Nat : n <= L => TakenIs(f[n], n)}
<1>3. 0 \in S
  <2>1. f[0] = <<>>
    BY <1>1, <1>2 DEF Picking
  <2> QED BY <2>1 DEF ToSet
<1>4. ASSUME NEW n \in Nat, n \in S, n + 1 <= L PROVE TakenIs(f[n + 1], n + 1)
  <2>1. TakenIs(f[n], n) /\ n <= L
    BY <1>1, <1>4
  <2>2. f[n + 1] = IF n + 1 \in T THEN Append(f[n], list[n + 1]) ELSE f[n]
    <3> HIDE DEF TakenIs, S
    <3> QED BY <1>1, <1>2, <1>4, PickingStep
  <2>3. CASE n + 1 \notin T
    <3>1. T \cap (1..(n + 1)) = T \cap (1..n)
      BY <1>4, <2>3
    <3> QED BY <2>1, <2>2, <2>3, <3>1
  <2>4. CASE n + 1 \in T
    <3> DEFINE taken == f[n]
               more == Append(taken, list[n + 1])
    <3>1. taken \in Seq(V) /\ Len(taken) \in Nat /\ DOMAIN taken = 1..Len(taken) /\ list[n + 1] \in V
      BY <1>1, <1>4, <2>1, LenProperties
    <3>2. /\ more \in Seq(V) /\ DOMAIN more = 1..(Len(taken) + 1)
          /\ \A k \in 1..Len(taken) : more[k] = taken[k]
          /\ more[Len(taken) + 1] = list[n + 1]
      <4> HIDE DEF taken
      <4> QED BY <3>1, AppendProperties
    <3>3. T \cap (1..(n + 1)) = (T \cap (1..n)) \cup {n + 1}
      BY <1>4, <2>4
    <3>4. ToSet(more) = ToSet(taken) \cup {list[n + 1]}
      <4> HIDE DEF taken, more
      <4>1. DOMAIN more = DOMAIN taken \cup {Len(taken) + 1}
        BY <3>1, <3>2
      <4>2. \A k \in DOMAIN taken : more[k] = taken[k]
        BY <3>1, <3>2
      <4>3. ToSet(more) = {more[k] : k \in DOMAIN taken} \cup {more[Len(taken) + 1]}
        BY <4>1 DEF ToSet
      <4>4. {more[k] : k \in DOMAIN taken} = ToSet(taken)
        BY <4>2 DEF ToSet
      <4> QED BY <3>2, <4>3, <4>4
    <3>5. ToSet(more) = {list[i] : i \in T \cap (1..(n + 1))}
      <4>1. ToSet(taken) = {list[i] : i \in T \cap (1..n)}
        BY <2>1
      <4> HIDE DEF taken, more
      <4> QED BY <3>3, <3>4, <4>1
    <3>6. ASSUME Apart, NEW a \in DOMAIN more, NEW b \in DOMAIN more, more[a] = more[b] PROVE a = b
      <4>1. \A k \in 1..Len(taken) : taken[k] # list[n + 1]
        <5>1. list[n + 1] \notin {list[i] : i \in T \cap (1..n)}
          BY <1>4, <2>4, <3>6
        <5>2. list[n + 1] \notin ToSet(taken)
          BY <2>1, <5>1
        <5> HIDE DEF taken
        <5> QED BY <3>1, <5>2 DEF ToSet
      <4>2. \A k, l \in DOMAIN taken : taken[k] = taken[l] => k = l
        BY <2>1, <3>6
      <4> HIDE DEF taken, more, Apart
      <4> QED BY <3>1, <3>2, <3>6, <4>1, <4>2
    <3> HIDE DEF Apart
    <3> QED BY <2>2, <2>4, <3>2, <3>5, <3>6
  <2> QED BY <2>3, <2>4
<1>5. Nat \subseteq S
  <2>1. \A n \in Nat : n \in S => n + 1 \in S
    <3> HIDE DEF TakenIs
    <3> QED BY <1>4
  <2> HIDE DEF S
  <2> QED BY <1>3, <2>1, NatInduct
<1>6. TakenIs(f[L], L)
  <2> HIDE DEF TakenIs
  <2> QED BY <1>1, <1>5
<1> QED BY <1>2, <1>6

LEMMA OnceIs ==
  ASSUME NEW V, NEW list \in Seq(V)
  PROVE  /\ Once(list) \in Seq(V)
         /\ ToSet(Once(list)) = ToSet(list)
         /\ \A a, b \in DOMAIN Once(list) : Once(list)[a] = Once(list)[b] => a = b
<1> DEFINE T == {i \in DOMAIN list : \A j \in DOMAIN list : j < i => list[j] # list[i]}
<1>1. Len(list) \in Nat /\ DOMAIN list = 1..Len(list)
  BY LenProperties
<1>2. Once(list) = Picked(list, T) /\ T \cap (1..Len(list)) = T
  BY <1>1 DEF Once
<1>3. \A i, j \in T : list[i] = list[j] => i = j
  BY <1>1
<1>4. {list[i] : i \in T} = ToSet(list)
  <2>1. ASSUME NEW i \in DOMAIN list PROVE \E k \in T : list[k] = list[i]
    <3> DEFINE Alike == {j \in DOMAIN list : list[j] = list[i]}
    <3>1. Alike \subseteq Nat /\ Alike # {}
      BY <1>1, <2>1
    <3>2. PICK k \in Alike : \A j \in Alike : k <= j
      <4> HIDE DEF Alike
      <4> QED BY <3>1, Least
    <3>3. \A j \in DOMAIN list : j < k => list[j] # list[k]
      BY <1>1, <3>1, <3>2
    <3> QED BY <3>2, <3>3
  <2> QED BY <2>1 DEF ToSet
<1>5. {list[i] : i \in T \cap (1..Len(list))} = ToSet(list)
  BY <1>2, <1>4
<1>6. \A i, j \in T \cap (1..Len(list)) : list[i] = list[j] => i = j
  BY <1>2, <1>3
<1> HIDE DEF T
<1>7. ToSet(Picked(list, T)) = {list[i] : i \in T \cap (1..Len(list))}
  BY PickedHolds
<1>8. \A a, b \in DOMAIN Picked(list, T) : Picked(list, T)[a] = Picked(list, T)[b] => a = b
  BY <1>6, PickedHolds
<1> QED BY <1>2, <1>5, <1>7, <1>8, PickedHolds
\* A label's settings are those of its items, each name once.
LEMMA LabelIs ==
  ASSUME NEW items, NEW V, items \in Seq(V)
  PROVE  /\ \E W : Label(items) \in Seq(W)
         /\ Names(Label(items)) = Names(items)
         /\ Parsed(Label(items)) = Parsed(items)
         /\ \A setting \in ToSet(Label(items)) :
              setting[1] \in Names(items) /\ setting[2] = Parsed(items)[setting[1]]
<1> DEFINE said == [i \in DOMAIN items |-> items[i][1]]
           names == Once(said)
           label == Label(items)
<1>1. Len(items) \in Nat /\ DOMAIN items = 1..Len(items)
  BY LenProperties
<1>2. said \in Seq(Names(items)) /\ ToSet(said) = Names(items)
  <2>1. said \in [1..Len(items) -> Names(items)]
    BY <1>1 DEF Names
  <2> QED BY <1>1, <2>1, SeqDef DEF Names, ToSet
<1>3. /\ names \in Seq(Names(items)) /\ ToSet(names) = Names(items)
      /\ \A a, b \in DOMAIN names : names[a] = names[b] => a = b
  <2> HIDE DEF said
  <2> QED BY <1>2, OnceIs
<1>4. label = [k \in DOMAIN names |-> <<names[k], Parsed(items)[names[k]]>>]
  BY DEF Label
<1>5. Len(names) \in Nat /\ DOMAIN names = 1..Len(names) /\ \A k \in DOMAIN names : names[k] \in Names(items)
  <2> HIDE DEF names
  <2> QED BY <1>3, LenProperties, ElementOfSeq
<1> HIDE DEF names, said, label
<1>6. DOMAIN label = DOMAIN names /\ \A k \in DOMAIN names : label[k][1] = names[k] /\ label[k][2] = Parsed(items)[names[k]]
  BY <1>4
<1>7. label \in Seq(ToSet(label))
  <2>1. label \in [1..Len(names) -> ToSet(label)]
    BY <1>4, <1>5 DEF ToSet
  <2> QED BY <1>5, <2>1, SeqDef
<1>8. Names(label) = Names(items)
  <2>1. Names(label) = ToSet(names)
    BY <1>6 DEF Names, ToSet
  <2> QED BY <1>3, <2>1
<1>9. \A setting \in ToSet(label) : setting[1] \in Names(items) /\ setting[2] = Parsed(items)[setting[1]]
  BY <1>5, <1>6 DEF ToSet
<1>10. Parsed(label) = Parsed(items)
  <2>1. ASSUME NEW name \in Names(items) PROVE label[LastOf(label, name)][2] = Parsed(items)[name]
    <3>1. PICK k \in DOMAIN names : names[k] = name
      BY <1>3 DEF ToSet
    <3>2. \A j \in DOMAIN label : label[j][1] = name => j = k
      BY <1>3, <1>6, <3>1
    <3>3. k \in DOMAIN label /\ label[k][1] = name /\ k <= k
      BY <1>5, <1>6, <3>1
    <3>4. LastOf(label, name) = k
      BY <3>2, <3>3 DEF LastOf
    <3> QED BY <1>6, <3>1, <3>4
  <2>2. Parsed(label) = [name \in Names(items) |-> label[LastOf(label, name)][2]]
    BY <1>8 DEF Parsed
  <2>3. Parsed(items) = [name \in Names(items) |-> Parsed(items)[name]]
    BY DEF Parsed
  <2> QED BY <2>1, <2>2, <2>3
<1> QED BY <1>7, <1>8, <1>9, <1>10 DEF label
----------------------------------------------------------------------------
(* What a session asks of the gateway is what its cell's labels say.       *)

\* No gateway takes the country for its session.
LEMMA SessionIsNoCountry ==
  ASSUME NEW plan \in Plans
  PROVE  GatewayOf(plan).session_param # "country"
<1> DEFINE raw == DEFINITIONS[plan.default]
<1>1. plan.default \in ProviderNames
  BY PlanAssumption
<1>2. GatewayOf(plan).session_param = Get(raw, "session_param", "sid")
  BY DEF GatewayOf, Load, Provider
<1>3. "session_param" \in DOMAIN raw => raw["session_param"] # "country"
  <2>1. "session_param" \notin DOMAIN NodeMaven
    BY DEF NodeMaven, Overlay, Vendor
  <2>2. "session_param" \notin DOMAIN Decodo
    BY DEF Decodo, Overlay, Vendor
  <2>3. "session_param" \notin DOMAIN BrightData
    BY DEF BrightData, Overlay, Vendor
  <2>4. "session_param" \notin DOMAIN Oxylabs
    BY DEF Oxylabs, Overlay, Vendor
  <2>5. Custom.session_param # "country"
    BY DEF Custom
  <2> QED BY <1>1, <2>1, <2>2, <2>3, <2>4, <2>5 DEF DEFINITIONS, ProviderNames
<1> QED BY <1>2, <1>3 DEF Get
LEMMA OverlaySays ==
  ASSUME NEW below, NEW above
  PROVE  /\ DOMAIN Overlay(below, above) = DOMAIN below \cup DOMAIN above
         /\ \A name \in DOMAIN above : Overlay(below, above)[name] = above[name]
         /\ \A name \in DOMAIN below \ DOMAIN above : Overlay(below, above)[name] = below[name]
<1> QED BY DEF Overlay

LEMMA SessionKeepsSettings ==
  ASSUME NEW provider, NEW sid, NEW settings, NEW name \in DOMAIN settings, name # provider.session_param
  PROVE  SessionParams(provider, sid, settings)[name] = settings[name]
<1> DEFINE own == [param \in {provider.session_param} |-> sid]
<1>1. Overlay(settings, own)[name] = settings[name]
  <2>1. name \in DOMAIN settings \ DOMAIN own
    OBVIOUS
  <2> QED BY <2>1, OverlaySays
<1> QED BY <1>1 DEF SessionParams

\* A setting of an arm is nobody else's.  parse_param_sets.
LEMMA ArmsAreOwn ==
  ASSUME NEW plan \in Plans, Accepted(plan), NEW arm \in ToSet(Arms(plan))
  PROVE  /\ \E W : arm \in Seq(W)
         /\ Names(arm) \cap {"country", GatewayOf(plan).session_param} = {}
         /\ Names(arm) \cap Names(plan.param) = {}
         /\ DOMAIN Parsed(arm) = Names(arm)
         /\ \A setting \in ToSet(arm) :
              setting[1] \in Names(arm) /\ setting[2] = Parsed(arm)[setting[1]]
<1>1. PICK i \in DOMAIN plan.params : arm = Label(plan.params[i])
  BY DEF Arms, ToSet
<1> DEFINE items == plan.params[i]
<1>2. items \in Seq(ToSet(items))
  <2>1. items \in ToSet(plan.params)
    BY <1>1 DEF ToSet
  <2> HIDE DEF items
  <2> QED BY <2>1, PlanAssumption
<1>3. ~BadArm(plan, items)
  BY <1>1, AcceptedFlags DEF BadFlags, BadParams
<1>4. Names(items) \cap ({"country", GatewayOf(plan).session_param} \cup DOMAIN Held(plan)) = {}
  BY <1>3 DEF BadArm
<1>5. DOMAIN Held(plan) = Names(plan.param)
  BY DEF Held, Parsed
<1>6. DOMAIN Parsed(arm) = Names(arm)
  BY DEF Parsed
<1> HIDE DEF items
<1>7. /\ \E W : arm \in Seq(W)
      /\ Names(arm) = Names(items) /\ Parsed(arm) = Parsed(items)
      /\ \A setting \in ToSet(arm) : setting[1] \in Names(items) /\ setting[2] = Parsed(items)[setting[1]]
  <2>1. arm = Label(items)
    BY <1>1 DEF items
  <2> QED BY <1>2, <2>1, LabelIs
<1> QED BY <1>4, <1>5, <1>6, <1>7

LEMMA RequestIsLabelled ==
  ASSUME NEW plan \in Plans, Accepted(plan), NEW c \in CellSet(plan), ~plan.direct,
         Names(plan.param) \cap {"country", GatewayOf(plan).session_param} = {},
         NEW setting \in ToSet(Label(plan.param) \o c.params) \cup {<<"country", c.country>>}
  PROVE  Request(plan, c)[setting[1]] = setting[2]
<1> DEFINE gateway == GatewayOf(plan)
           under == Held(plan)
           said == Parsed(c.params)
           own == [name \in {"country"} |-> c.country]
           below == Overlay(under, said)
           settings == Overlay(own, below)
<1>1. Request(plan, c) = SessionParams(gateway, "sid", settings)
  BY DEF Request
<1>2. c.params \in ToSet(Arms(plan))
  BY DEF CellSet
<1>3. DOMAIN Held(plan) = Names(plan.param) /\ Held(plan) = Parsed(plan.param)
  BY DEF Held, Parsed
<1>4. /\ Names(c.params) \cap {"country", gateway.session_param} = {}
      /\ Names(c.params) \cap Names(plan.param) = {} /\ DOMAIN Parsed(c.params) = Names(c.params)
  BY <1>2, ArmsAreOwn
<1>5. /\ DOMAIN below = Names(plan.param) \cup Names(c.params)
      /\ \A name \in Names(c.params) : below[name] = said[name]
      /\ \A name \in Names(plan.param) : below[name] = under[name]
  <2>1. DOMAIN under = Names(plan.param) /\ DOMAIN said = Names(c.params)
    BY <1>3, <1>4
  <2> HIDE DEF under, said
  <2> QED BY <1>4, <2>1 DEF Overlay
<1>6. DOMAIN settings = {"country"} \cup DOMAIN below /\ "country" \notin DOMAIN below
  <2> HIDE DEF below
  <2>1. DOMAIN own = {"country"}
    OBVIOUS
  <2> QED BY <1>4, <1>5, <2>1 DEF Overlay
<1>7. /\ \A name \in DOMAIN below : settings[name] = below[name]
      /\ settings["country"] = own["country"]
  <2>1. DOMAIN own = {"country"}
    OBVIOUS
  <2> HIDE DEF below, own
  <2> QED BY <1>6, <2>1 DEF Overlay
<1>8. gateway.session_param \notin DOMAIN settings
  BY <1>4, <1>5, <1>6, SessionIsNoCountry
<1>9. \A name \in DOMAIN settings : Request(plan, c)[name] = settings[name]
  <2> HIDE DEF settings, gateway
  <2> QED BY <1>1, <1>8, SessionKeepsSettings
<1>10. CASE setting = <<"country", c.country>>
  <2>1. Request(plan, c)["country"] = c.country
    <3>1. settings["country"] = c.country
      BY <1>7
    <3> HIDE DEF settings
    <3> QED BY <1>6, <1>9, <3>1
  <2> QED BY <1>10, <2>1
<1>11. CASE setting \in ToSet(Label(plan.param))
  <2>1. plan.param \in Seq(ToSet(plan.param))
    BY PlanAssumption
  <2>2. setting[1] \in Names(plan.param) /\ setting[2] = Held(plan)[setting[1]]
    BY <1>3, <1>11, <2>1, LabelIs
  <2>3. below[setting[1]] = Held(plan)[setting[1]]
    BY <1>5, <2>2
  <2> HIDE DEF settings, below
  <2> QED BY <1>5, <1>6, <1>7, <1>9, <2>2, <2>3
<1>12. CASE setting \in ToSet(c.params)
  <2>1. setting[1] \in Names(c.params) /\ setting[2] = Parsed(c.params)[setting[1]]
    BY <1>2, <1>12, ArmsAreOwn
  <2>2. below[setting[1]] = Parsed(c.params)[setting[1]]
    BY <1>5, <2>1
  <2> HIDE DEF settings, below
  <2> QED BY <1>5, <1>6, <1>7, <1>9, <2>1, <2>2
<1>13. ToSet(Label(plan.param) \o c.params) \subseteq ToSet(Label(plan.param)) \cup ToSet(c.params)
  <2>1. PICK V : Label(plan.param) \in Seq(V)
    BY PlanAssumption, LabelIs
  <2>2. PICK W : c.params \in Seq(W)
    BY <1>2, ArmsAreOwn
  <2> DEFINE s == Label(plan.param)
             t == c.params
  <2> HIDE DEF s, t
  <2>3. /\ Len(s) \in Nat /\ DOMAIN s = 1..Len(s) /\ Len(t) \in Nat /\ DOMAIN t = 1..Len(t)
        /\ DOMAIN (s \o t) = 1..(Len(s) + Len(t))
        /\ \A i \in 1..(Len(s) + Len(t)) : (s \o t)[i] = IF i <= Len(s) THEN s[i] ELSE t[i - Len(s)]
    <3>1. s \in Seq(V \cup W) /\ t \in Seq(V \cup W)
      BY <2>1, <2>2, SeqMonotonic DEF s, t
    <3> QED BY <3>1, LenProperties, ConcatProperties
  <2>4. ToSet(s \o t) \subseteq ToSet(s) \cup ToSet(t)
    BY <2>3 DEF ToSet
  <2> QED BY <2>4 DEF s, t
<1> QED BY <1>10, <1>11, <1>12, <1>13
----------------------------------------------------------------------------
(* What an interaction does on the pages of a rung, and what tells one     *)
(* rung's pages from another's.                                            *)

\* The inert arm does nothing on any page.
LEMMA NothingSelected ==
  ASSUME NEW name \in TargetNames, NEW page
  PROVE  ActionsFor(TARGETS[name], page, {}) = <<>>
<1>1. CASE page \notin DOMAIN TARGETS[name].actions
  BY <1>1 DEF ActionsFor
<1>2. CASE page \in DOMAIN TARGETS[name].actions
  <2> DEFINE list == TARGETS[name].actions[page]
             kept == Picked(list, {i \in DOMAIN list : list[i] \in {}})
  <2>1. list \in Seq(ActionKinds)
    BY <1>2, TargetsAre DEF TargetFacts, Acted
  <2>2. {i \in DOMAIN list : list[i] \in {}} = {}
    OBVIOUS
  <2> HIDE DEF list
  <2>3. ToSet(Picked(list, {})) = {list[i] : i \in {} \cap (1..Len(list))}
    BY <2>1, PickedHolds
  <2>4. ToSet(kept) = {}
    BY <2>2, <2>3
  <2>5. Select(list, {}) = <<>>
    <3> HIDE DEF kept
    <3>1. ToSet(kept) \subseteq {"settle"}
      BY <2>4
    <3>2. Select(list, {}) = IF ToSet(kept) \subseteq {"settle"} THEN <<>> ELSE kept
      BY DEF Select, kept
    <3> QED BY <3>1, <3>2
  <2> QED BY <1>2, <2>5 DEF ActionsFor, list
<1> QED BY <1>1, <1>2

\* A rung is told from another by its pages.
LEMMA LaddersDiffer ==
  \A name \in TargetNames : \A a, b \in DOMAIN TARGETS[name].ladder :
    a # b => TARGETS[name].ladder[a] # TARGETS[name].ladder[b]
<1> USE DEF TARGETS, TargetNames, Target, IpInfo, GoogleSerp, DuckDuckGoSerp, BingSerp, AmazonSearch,
            WalmartSearch, GoogleMapsSearch, LazadaSearch, ShopeeSearch
<1>1. \A a, b \in DOMAIN GoogleLadder : a # b => GoogleLadder[a] # GoogleLadder[b]
  <2>1. DOMAIN GoogleLadder = {"L1", "L2", "L3", "N1", "N3"}
    BY DEF GoogleLadder
  <2>2. /\ Len(GoogleLadder["L1"]) = 1 /\ GoogleLadder["L1"][1] = "imghp"
        /\ Len(GoogleLadder["L2"]) = 3
        /\ Len(GoogleLadder["L3"]) = 6 /\ GoogleLadder["L3"][3] = "translate"
        /\ Len(GoogleLadder["N1"]) = 1 /\ GoogleLadder["N1"][1] = "theverge"
        /\ Len(GoogleLadder["N3"]) = 6 /\ GoogleLadder["N3"][3] = "arstechnica"
    BY DEF GoogleLadder
  <2>3. "imghp" # "theverge" /\ "translate" # "arstechnica"
    OBVIOUS
  <2> QED BY <2>1, <2>2, <2>3
<1>2. DOMAIN NoLadder = {}
  BY DEF NoLadder
<1>3. DOMAIN [rung \in {"L1"} |-> <<"bestsellers">>] = {"L1"}
      /\ DOMAIN [rung \in {"L1"} |-> <<"help.shopee">>] = {"L1"}
  OBVIOUS
<1> QED BY <1>1, <1>2, <1>3

\* The pages of a rung begin with those declared for it, and end with the
\* front page: what tells two of them apart is what is declared.
LEMMA FrontPageLast ==
  ASSUME NEW V, NEW s \in Seq(V), NEW t \in Seq(V), NEW page \in V,
         s \o <<page>> = t \o <<page>>
  PROVE  s = t
<1>1. <<page>> \in Seq(V) /\ Len(<<page>>) = 1
  OBVIOUS
<1>2. Len(s) \in Nat /\ Len(t) \in Nat /\ DOMAIN s = 1..Len(s) /\ DOMAIN t = 1..Len(t)
  BY LenProperties
<1>3. Len(s \o <<page>>) = Len(s) + 1 /\ Len(t \o <<page>>) = Len(t) + 1
  BY <1>1, ConcatProperties
<1>4. Len(s) = Len(t)
  <2>1. PICK long : long = s \o <<page>> /\ long = t \o <<page>>
    OBVIOUS
  <2>2. Len(long) = Len(s) + 1
    BY <1>3, <2>1
  <2>3. Len(long) = Len(t) + 1
    BY <1>3, <2>1
  <2>4. \A a, b \in Nat : a + 1 = b + 1 => a = b
    OBVIOUS
  <2>5. Len(s) + 1 = Len(t) + 1
    BY <2>2, <2>3
  <2> QED BY <1>2, <2>4, <2>5
<1>5. \A i \in 1..Len(s) : (s \o <<page>>)[i] = s[i] /\ (t \o <<page>>)[i] = t[i]
  BY <1>1, <1>2, <1>4, ConcatProperties
<1>6. \A i \in 1..Len(s) : s[i] = t[i]
  BY <1>5
<1> QED BY <1>2, <1>4, <1>6, SeqEqual
LEMMA FiniteValues ==
  ASSUME NEW V, NEW s \in Seq(V)
  PROVE  IsFiniteSet(ToSet(s))
<1>1. Len(s) \in Nat /\ DOMAIN s = 1..Len(s) /\ s = [i \in 1..Len(s) |-> s[i]]
  BY LenProperties
<1>2. IsFiniteSet(1..Len(s))
  <2> DEFINE n == Len(s)
  <2>1. 1 \in Int /\ n \in Int
    BY <1>1
  <2> HIDE DEF n
  <2>2. IsFiniteSet(1..n)
    BY <2>1, FS_Interval
  <2> QED BY <2>2 DEF n
<1>3. s \in Surjection(1..Len(s), ToSet(s))
  BY <1>1 DEF Surjection, ToSet
<1> QED BY <1>2, <1>3, FS_Surjection

\* The rungs and the cells of a plan.
LEMMA CellFields ==
  ASSUME NEW plan, NEW c \in CellSet(plan)
  PROVE  /\ c.level \in ToSet(Levels(plan)) /\ c.target \in ToSet(plan.targets)
         /\ c.engine \in ToSet(plan.engines) /\ c.entry \in ToSet(plan.entry)
         /\ c.geo \in ToSet(plan.geo) /\ c.hand \in ToSet(plan.humanize)
         /\ c.interact \in ToSet(plan.interact)
         /\ \A level \in ToSet(Levels(plan)) :
              /\ [c EXCEPT !.level = level] \in CellSet(plan)
              /\ [c EXCEPT !.level = level].level = level
              /\ [c EXCEPT !.level = level].target = c.target
              /\ [c EXCEPT !.level = level].interact = c.interact
<1> QED BY DEF CellSet

LEMMA WarmUpsDiffer ==
  ASSUME NEW plan \in Plans, Accepted(plan), NEW c \in CellSet(plan), NEW d \in CellSet(plan),
         d.target = c.target, d.level # c.level, Warm(c)
  PROVE  WarmSequence(plan, TARGETS[c.target], c.level) # WarmSequence(plan, TARGETS[d.target], d.level)
<1> DEFINE target == TARGETS[c.target]
           given == CHOOSE urls \in plan.given : TRUE
           first == WarmSequence(plan, target, c.level)
           second == WarmSequence(plan, target, d.level)
<1>1. c.level # "L0" /\ ~WarmRefused(plan, CellSet(plan)) /\ c.target \in TargetNames
  BY AcceptedCells, WarmUpIs DEF Warm
<1>2. PICK begun : /\ first = begun \o <<"home">>
                   /\ \E V : begun \in Seq(V) /\ "home" \in V
                   /\ plan.given = {} => begun = target.ladder[c.level]
  <2>1. CASE plan.given # {}
    <3>1. given \in Seq(ToSet(given))
      BY <2>1, PlanAssumption
    <3>2. first = given \o <<"home">>
      BY <1>1, <2>1 DEF WarmSequence
    <3> DEFINE V == ToSet(given) \cup {"home"}
    <3> HIDE DEF given, first
    <3>3. given \in Seq(V) /\ "home" \in V
      BY <3>1, SeqMonotonic
    <3> QED BY <2>1, <3>2, <3>3
  <2>2. CASE plan.given = {}
    <3>1. c.level \in DOMAIN target.ladder
      BY <1>1, <2>2 DEF WarmRefused, RungMissing, Warm
    <3>2. target.ladder[c.level] \in Seq(WarmPages)
      BY <1>1, <3>1, LaddersAre
    <3>3. first = target.ladder[c.level] \o <<"home">>
      BY <1>1, <2>2 DEF WarmSequence
    <3>4. "home" \in WarmPages
      BY DEF WarmPages
    <3> HIDE DEF first, target
    <3> QED BY <2>2, <3>2, <3>3, <3>4
  <2> QED BY <2>1, <2>2
<1>3. CASE d.level = "L0"
  <2>1. second = <<>>
    BY <1>3 DEF WarmSequence
  <2>2. first # <<>>
    <3>0. PICK V : begun \in Seq(V) /\ "home" \in V
      BY <1>2
    <3>1. Len(begun \o <<"home">>) = Len(begun) + 1 /\ Len(begun) \in Nat
      <4>1. <<"home">> \in Seq(V) /\ Len(<<"home">>) = 1
        BY <3>0
      <4> QED BY <3>0, <4>1, ConcatProperties, LenProperties
    <3>2. Len(first) # 0
      BY <1>2, <3>1
    <3> HIDE DEF first
    <3> QED BY <3>2
  <2> HIDE DEF first, second
  <2>3. first # second
    BY <2>1, <2>2
  <2> QED BY <2>3 DEF first, second
<1>4. CASE d.level # "L0" /\ plan.given # {}
  <2> DEFINE rungs == {x.level : x \in {y \in CellSet(plan) : Warm(y)}}
  <2>1. c.level \in rungs /\ d.level \in rungs
    BY <1>1, <1>4 DEF Warm
  <2>2. rungs \subseteq ToSet(Levels(plan))
    BY CellFields
  <2>3. IsFiniteSet(rungs)
    <3> HIDE DEF rungs
    <3> QED BY <2>2, LevelsIn, FiniteValues, FS_Subset
  <2>4. ~BadUrls(plan, CellSet(plan))
    BY <1>1, <1>4 DEF WarmRefused
  <2>5. Cardinality(rungs) = 1
    <3> DEFINE S == CellSet(plan)
    <3> HIDE DEF S
    <3>1. ~BadUrls(plan, S) => Cardinality({x.level : x \in {y \in S : Warm(y)}}) = 1
      BY Zenon DEF BadUrls
    <3> QED BY <2>4, <3>1, Zenon DEF S
  <2>6. \E x : rungs = {x}
    <3> HIDE DEF rungs
    <3> QED BY <2>3, <2>5, FS_Singleton
  <2> HIDE DEF rungs
  <2> QED BY <2>1, <2>6
<1>5. CASE d.level # "L0" /\ plan.given = {}
  <2>1. c.level \in DOMAIN target.ladder /\ d.level \in DOMAIN target.ladder
    BY <1>1, <1>5 DEF WarmRefused, RungMissing, Warm
  <2>2. target.ladder[c.level] # target.ladder[d.level]
    BY <1>1, <2>1, LaddersDiffer
  <2>3. target.ladder[d.level] \in Seq(WarmPages) /\ begun = target.ladder[c.level] /\ begun \in Seq(WarmPages)
    BY <1>1, <1>2, <1>5, <2>1, LaddersAre
  <2>4. second = target.ladder[d.level] \o <<"home">>
    BY <1>5 DEF WarmSequence
  <2>5. "home" \in WarmPages
    BY DEF WarmPages
  <2> DEFINE other == target.ladder[d.level]
  <2> HIDE DEF first, second, other
  <2>6. begun # other
    BY <2>2, <2>3 DEF other
  <2>7. begun \o <<"home">> # other \o <<"home">>
    <3>1. begun \in Seq(WarmPages) /\ other \in Seq(WarmPages)
      BY <2>3 DEF other
    <3>2. begun \o <<"home">> = other \o <<"home">> => begun = other
      BY <2>5, <3>1, FrontPageLast
    <3> QED BY <2>6, <3>2
  <2>8. first # second
    BY <1>2, <2>4, <2>7 DEF other
  <2> QED BY <2>8 DEF first, second
<1> QED BY <1>3, <1>4, <1>5
\* Visits that are the same are to the same pages, in the same order.
LEMMA SameVisits ==
  ASSUME NEW plan \in Plans, Accepted(plan), plan = args,
         NEW c \in CellSet(plan), NEW d \in CellSet(plan), Visits(c) = Visits(d)
  PROVE  WarmSequence(plan, TARGETS[c.target], c.level) = WarmSequence(plan, TARGETS[d.target], d.level)
<1> DEFINE first == WarmSequence(args, TARGETS[c.target], c.level)
           second == WarmSequence(args, TARGETS[d.target], d.level)
           one(i) == ActionsFor(TARGETS[c.target], first[i], KindsOf(c))
           other(i) == ActionsFor(TARGETS[d.target], second[i], KindsOf(d))
<1>1. Visits(c) = [i \in DOMAIN first |-> <<first[i], one(i)>>]
      /\ Visits(d) = [i \in DOMAIN second |-> <<second[i], other(i)>>]
  BY DEF Visits
<1>2. (\E V : first \in Seq(V)) /\ \E V : second \in Seq(V)
  BY WarmUpIs
<1> HIDE DEF first, second, one, other
<1>3. DOMAIN first = DOMAIN second
  BY <1>1
<1>4. \A i \in DOMAIN first : <<first[i], one(i)>> = <<second[i], other(i)>>
  BY <1>1, <1>3
<1>5. \A i \in DOMAIN first : first[i] = second[i]
  BY <1>4
<1>6. first = [i \in DOMAIN first |-> first[i]] /\ second = [i \in DOMAIN second |-> second[i]]
  <2>1. PICK V : first \in Seq(V)
    BY <1>2
  <2>2. PICK W : second \in Seq(W)
    BY <1>2
  <2> QED BY <2>1, <2>2, LenProperties
<1>7. first = second
  BY <1>3, <1>5, <1>6
<1> QED BY <1>7 DEF first, second

\* A rung visits other pages than any other rung of the plan.
LEMMA RungsDiffer ==
  ASSUME NEW plan \in Plans, Accepted(plan), plan = args, NEW c \in CellSet(plan),
         NEW level \in ToSet(Levels(plan)) \ {c.level}
  PROVE  Visits(c) # Visits([c EXCEPT !.level = level])
<1> DEFINE d == [c EXCEPT !.level = level]
<1>1. d \in CellSet(plan) /\ d.level = level /\ d.target = c.target /\ d.level # c.level
  BY CellFields
<1> HIDE DEF d
<1>2. Warm(c) \/ Warm(d)
  BY <1>1 DEF Warm
<1>3. WarmSequence(plan, TARGETS[c.target], c.level) # WarmSequence(plan, TARGETS[d.target], d.level)
  BY <1>1, <1>2, WarmUpsDiffer
<1>4. Visits(c) # Visits(d)
  BY <1>1, <1>3, SameVisits
<1> QED BY <1>4 DEF d

\* An interaction acts on a page that its rung opens, which the inert arm
\* only loads, and describe counts it.  check_interact.
LEMMA InteractionActs ==
  ASSUME NEW plan \in Plans, Accepted(plan), plan = args, NEW c \in CellSet(plan), c.interact # "off"
  PROVE  /\ Visits(c) # Visits([c EXCEPT !.interact = "off"])
         /\ Described(plan).touched[<< <<c.target, c.level>>, c.interact >>] > 0
<1> DEFINE target == TARGETS[c.target]
           pages == WarmSequence(plan, target, c.level)
           idle == [c EXCEPT !.interact = "off"]
<1>1. c.target \in TargetNames /\ \E V : pages \in Seq(V)
  BY WarmUpIs
<1>2. c.interact \in DOMAIN SETS
  BY CellFields, AcceptedFlags DEF BadFlags, Known
<1>3. /\ Warm(c)
      /\ ToSet(pages) \cap PagesWithActions(target, KindsOf(c)) # {}
  BY AcceptedCells DEF CheckInteract
<1>4. PICK i \in DOMAIN pages : pages[i] \in PagesWithActions(target, KindsOf(c))
  BY <1>3 DEF ToSet
<1>5. ActionsFor(target, pages[i], KindsOf(c)) # <<>>
  BY <1>4 DEF PagesWithActions
<1>6. ActionsFor(target, pages[i], {}) = <<>>
  BY <1>1, NothingSelected
<1>7. KindsOf(idle) = {} /\ idle.target = c.target /\ idle.level = c.level
  BY DEF KindsOf, SETS, CellSet
<1>8. Visits(c)[i] = <<pages[i], ActionsFor(target, pages[i], KindsOf(c))>>
  BY DEF Visits
<1>9. Visits(idle)[i] = <<pages[i], ActionsFor(target, pages[i], {})>>
  BY <1>7 DEF Visits
<1>10. Visits(c) # Visits(idle)
  <2>1. Visits(c)[i] # Visits(idle)[i]
    <3> HIDE DEF pages, target, idle
    <3> QED BY <1>5, <1>6, <1>8, <1>9
  <2> QED BY <2>1
<1>11. Described(plan).touched[<< <<c.target, c.level>>, c.interact >>] > 0
  <2> DEFINE rungs == {<<x.target, x.level>> : x \in {y \in CellSet(plan) : Warm(y)}}
             arms == {x.interact : x \in {y \in CellSet(plan) : KindsOf(y) # {}}}
             On(rung) == ToSet(WarmSequence(plan, TARGETS[rung[1]], rung[2]))
             touched == [on \in rungs \X arms |->
                           Cardinality(On(on[1]) \cap PagesWithActions(TARGETS[on[1][1]], SETS[on[2]]))]
             mine == ToSet(pages) \cap PagesWithActions(target, SETS[c.interact])
  <2>1. Described(plan).touched = touched
    BY Zenon DEF Described
  <2>2. <<c.target, c.level>> \in rungs
    BY <1>3
  <2>3. c.interact \in arms
    <3>1. KindsOf(c) # {}
      BY <1>5, <1>6
    <3> QED BY <3>1
  <2>4. touched[<< <<c.target, c.level>>, c.interact >>] = Cardinality(mine)
    <3> HIDE DEF rungs, arms
    <3> QED BY <2>2, <2>3
  <2>5. IsFiniteSet(mine) /\ mine # {}
    <3>1. IsFiniteSet(ToSet(pages))
      <4> HIDE DEF pages
      <4> QED BY <1>1, FiniteValues
    <3>2. mine # {}
      BY <1>3 DEF KindsOf
    <3>3. mine \subseteq ToSet(pages)
      OBVIOUS
    <3> HIDE DEF mine, pages
    <3> QED BY <3>1, <3>2, <3>3, FS_Subset
  <2>6. Cardinality(mine) > 0
    <3> HIDE DEF mine
    <3> QED BY <2>5, FS_EmptySet, FS_CardinalityType
  <2> HIDE DEF mine, touched
  <2> QED BY <2>1, <2>4, <2>6
<1> QED BY <1>10, <1>11 DEF idle
\* A label left out where an axis has one value leaves the rest of the cell.
LEMMA KeyFields ==
  ASSUME NEW plan, NEW c \in CellSet(plan), NEW d \in CellSet(plan), NEW none,
         NEW hands \in BOOLEAN, NEW interacts \in BOOLEAN,
         [c EXCEPT !.hand = IF hands THEN @ ELSE none, !.interact = IF interacts THEN @ ELSE none]
           = [d EXCEPT !.hand = IF hands THEN @ ELSE none, !.interact = IF interacts THEN @ ELSE none],
         hands \/ c.hand = d.hand, interacts \/ c.interact = d.interact
  PROVE  c = d
<1> DEFINE one == [c EXCEPT !.hand = IF hands THEN @ ELSE none, !.interact = IF interacts THEN @ ELSE none]
           two == [d EXCEPT !.hand = IF hands THEN @ ELSE none, !.interact = IF interacts THEN @ ELSE none]
<1>1. /\ one.engine = c.engine /\ one.target = c.target /\ one.country = c.country
      /\ one.params = c.params /\ one.level = c.level /\ one.entry = c.entry /\ one.geo = c.geo
      /\ hands => one.hand = c.hand
      /\ interacts => one.interact = c.interact
  BY DEF CellSet
<1>2. /\ two.engine = d.engine /\ two.target = d.target /\ two.country = d.country
      /\ two.params = d.params /\ two.level = d.level /\ two.entry = d.entry /\ two.geo = d.geo
      /\ hands => two.hand = d.hand
      /\ interacts => two.interact = d.interact
  BY DEF CellSet
<1>3. one = two
  OBVIOUS
<1> HIDE DEF one, two
<1>4. /\ c.engine = d.engine /\ c.target = d.target /\ c.country = d.country /\ c.params = d.params
      /\ c.level = d.level /\ c.entry = d.entry /\ c.geo = d.geo
  BY <1>1, <1>2, <1>3
<1>5. c.hand = d.hand /\ c.interact = d.interact
  BY <1>1, <1>2, <1>3
<1> QED BY <1>4, <1>5 DEF CellSet

\* A list with one value left when each is taken once has one value.
LEMMA OneValue ==
  ASSUME NEW V, NEW list \in Seq(V), ~(Len(Once(list)) > 1), NEW a \in ToSet(list), NEW b \in ToSet(list)
  PROVE  a = b
<1>1. Once(list) \in Seq(V) /\ ToSet(Once(list)) = ToSet(list)
  BY OnceIs
<1> DEFINE once == Once(list)
<1> HIDE DEF once
<1>2. Len(once) \in Nat /\ DOMAIN once = 1..Len(once) /\ ToSet(once) = ToSet(list) /\ ~(Len(once) > 1)
  BY <1>1, LenProperties DEF once
<1>3. PICK i \in DOMAIN once : once[i] = a
  BY <1>2 DEF ToSet
<1>4. PICK j \in DOMAIN once : once[j] = b
  BY <1>2 DEF ToSet
<1>5. i = j
  BY <1>2, <1>3, <1>4
<1> QED BY <1>3, <1>4, <1>5

\* A key tells a cell.  Cell.key.
LEMMA KeysTell ==
  ASSUME NEW plan \in Plans, NEW c \in CellSet(plan), NEW d \in CellSet(plan),
         KeyOf(plan, c) = KeyOf(plan, d)
  PROVE  c = d
<1> DEFINE hands == Len(Once(plan.humanize)) > 1
           interacts == Len(Once(plan.interact)) > 1
           none == ""
<1>1. /\ KeyOf(plan, c) = [c EXCEPT !.hand = IF hands THEN @ ELSE none, !.interact = IF interacts THEN @ ELSE none]
      /\ KeyOf(plan, d) = [d EXCEPT !.hand = IF hands THEN @ ELSE none, !.interact = IF interacts THEN @ ELSE none]
  BY Zenon DEF KeyOf
<1>2. plan.humanize \in Seq(ToSet(plan.humanize)) /\ plan.interact \in Seq(ToSet(plan.interact))
  BY PlanAssumption
<1>3. hands \/ c.hand = d.hand
  BY <1>2, CellFields, OneValue
<1>4. interacts \/ c.interact = d.interact
  BY <1>2, CellFields, OneValue
<1>5. hands \in BOOLEAN /\ interacts \in BOOLEAN
  OBVIOUS
<1> HIDE DEF hands, interacts, none
<1>6. [c EXCEPT !.hand = IF hands THEN @ ELSE none, !.interact = IF interacts THEN @ ELSE none]
        = [d EXCEPT !.hand = IF hands THEN @ ELSE none, !.interact = IF interacts THEN @ ELSE none]
  BY <1>1
<1> QED BY <1>3, <1>4, <1>5, <1>6, KeyFields

\* What an aligned cell, a hand and a front page need.  preflight.
LEMMA AxesAreServed ==
  ASSUME NEW plan \in Plans, Accepted(plan), NEW c \in CellSet(plan)
  PROVE  /\ c.hand = "trueman" => Cursor(c) # Cursor([c EXCEPT !.hand = "off"])
         /\ c.geo = "align" => REGISTRY[c.engine].align /\ ~plan.direct
         /\ c.entry = "home" => REGISTRY[c.engine].typing /\ TARGETS[c.target].box
<1>1. /\ ~DirectAsksTheGateway(plan) /\ ~EngineRefused(plan, CellSet(plan))
      /\ ~HandWithoutAClick(CellSet(plan)) /\ ~CheckEntry(CellSet(plan))
  BY AcceptedCells
<1>2. c.entry \in {"home", "url"}
  BY CellFields, AcceptedFlags DEF BadFlags, Known
<1>3. ASSUME c.hand = "trueman" PROVE Cursor(c) # Cursor([c EXCEPT !.hand = "off"])
  <2>1. c.entry = "home"
    BY <1>1, <1>2, <1>3 DEF HandWithoutAClick
  <2>2. [c EXCEPT !.hand = "off"].hand = "off" /\ [c EXCEPT !.hand = "off"].entry = c.entry
    BY DEF CellSet
  <2> QED BY <1>3, <2>1, <2>2 DEF Cursor
<1>4. ASSUME c.geo = "align" PROVE REGISTRY[c.engine].align /\ ~plan.direct
  <2>1. "align" \in ToSet(plan.geo)
    BY <1>4, CellFields
  <2>2. ~plan.direct
    BY <1>1, <2>1 DEF DirectAsksTheGateway
  <2>3. REGISTRY[c.engine].align
    BY <1>1, <1>4 DEF EngineRefused
  <2> QED BY <2>2, <2>3
<1>5. ASSUME c.entry = "home" PROVE REGISTRY[c.engine].typing /\ TARGETS[c.target].box
  <2>1. REGISTRY[c.engine].typing
    BY <1>1, <1>5 DEF EngineRefused
  <2> QED BY <1>1, <1>5, <2>1 DEF CheckEntry
<1> QED BY <1>3, <1>4, <1>5

\* In every plan that is accepted each value of each axis makes a cell do
\* what another value does not: no arm is the control under another label.
\* preflight, check_warm, check_interact, parse_param_sets.
THEOREM ArmsDiffer == Spec => []NoArmIsTheControl
<1> DEFINE All == PlanInv
<1>1. Init => All
  BY InitPlan
<1>2. All /\ [Next]_vars => All'
  BY NextPlan
<1>3. All => NoArmIsTheControl
  <2> SUFFICES ASSUME args \in Plans, Accepted(args), NEW c \in CellSet(args)
               PROVE  /\ c.interact # "off" =>
                           /\ Visits(c) # Visits([c EXCEPT !.interact = "off"])
                           /\ Described(args).touched[<< <<c.target, c.level>>, c.interact >>] > 0
                      /\ \A level \in ToSet(Levels(args)) \ {c.level} :
                           Visits(c) # Visits([c EXCEPT !.level = level])
                      /\ c.hand = "trueman" => Cursor(c) # Cursor([c EXCEPT !.hand = "off"])
                      /\ \A d \in CellSet(args) : KeyOf(args, c) = KeyOf(args, d) => c = d
                      /\ ~args.direct /\ HeldIsFree =>
                           \A setting \in ToSet(Label(args.param) \o c.params) \cup {<<"country", c.country>>} :
                             Request(args, c)[setting[1]] = setting[2]
                      /\ c.geo = "align" => REGISTRY[c.engine].align /\ ~args.direct
                      /\ c.entry = "home" => REGISTRY[c.engine].typing /\ TARGETS[c.target].box
    BY DEF PlanInv, NoArmIsTheControl
  <2>1. c.interact # "off" =>
          /\ Visits(c) # Visits([c EXCEPT !.interact = "off"])
          /\ Described(args).touched[<< <<c.target, c.level>>, c.interact >>] > 0
    BY InteractionActs
  <2>2. \A level \in ToSet(Levels(args)) \ {c.level} : Visits(c) # Visits([c EXCEPT !.level = level])
    BY RungsDiffer
  <2>3. \A d \in CellSet(args) : KeyOf(args, c) = KeyOf(args, d) => c = d
    BY KeysTell
  <2>4. ~args.direct /\ HeldIsFree =>
          \A setting \in ToSet(Label(args.param) \o c.params) \cup {<<"country", c.country>>} :
            Request(args, c)[setting[1]] = setting[2]
    BY RequestIsLabelled DEF HeldIsFree
  <2> QED BY <2>1, <2>2, <2>3, <2>4, AxesAreServed
<1> HIDE DEF All
<1> QED BY <1>1, <1>2, <1>3, PTL DEF Spec
====
