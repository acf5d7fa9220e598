----------------------------- MODULE PartsProofs -----------------------------
(***************************************************************************)
(* What the parts establish, for every value of their constants.           *)
(***************************************************************************)
EXTENDS Parts, HardeningProofs, SequenceTheorems

-----------------------------------------------------------------------------
(* The parts that have theorems of their own.                              *)

\* Of any number of processes that open, generate or migrate the signing key at
\* once and die anywhere, all hold one and the same, and no key that has signed is
\* lost (new_with_path, save_key, replace_key_atomically).
THEOREM TheKeyIsKept == Spec => []KeyIsKept
<1>1. Init /\ part = "key" => Key!Init  BY DEF Init
<1>2. [Next]_vars /\ part = "key" => [Key!Next]_(Key!vars) /\ (part = "key")'
  BY DEF Next, vars, Key!vars
<1>3. Spec /\ part = "key" => Key!Spec  BY <1>1, <1>2, PTL DEF Spec, Key!Spec
<1>4. Key!Spec => []Key!OneKey /\ []Key!SignedKeyKept
  BY PartsAssumption, Key!OneKeyAlways, Key!SignedKeysAreKept
<1>5. Key!OneKey /\ Key!SignedKeyKept => KeyIsKept  BY DEF KeyIsKept
<1>6. ~(part = "key") => KeyIsKept  BY DEF KeyIsKept
<1>7. Spec /\ ~(part = "key") => []~(part = "key")
  <2>1. ~(part = "key") /\ [Next]_vars => (~(part = "key"))'  BY DEF Next, vars
  <2> QED  BY <2>1, PTL DEF Spec
<1> QED  BY <1>3, <1>4, <1>5, <1>6, <1>7, PTL

\* The exit code of a fleet run covers every host that was selected, for any
\* inventory, requests and interleaving of the tasks (run_on_all and the exit codes of batch.rs).
THEOREM FleetCodesCoverEveryHost == Spec => []FleetCodeCoversEveryHost
<1>1. Init /\ part = "fleet" => Fleet!Init  BY DEF Init
<1>2. [Next]_vars /\ part = "fleet" => [Fleet!Next]_(Fleet!vars) /\ (part = "fleet")'
  BY DEF Next, vars, aside, Fleet!vars
<1>3. Spec /\ part = "fleet" => Fleet!Spec  BY <1>1, <1>2, PTL DEF Spec, Fleet!Spec
<1>4. Fleet!Spec => []Fleet!CodeCoversEveryHost
  BY PartsAssumption, Fleet!ExitCodeCoversEveryHost
<1>5. Fleet!CodeCoversEveryHost => FleetCodeCoversEveryHost
  BY DEF FleetCodeCoversEveryHost
<1>6. ~(part = "fleet") => FleetCodeCoversEveryHost  BY DEF FleetCodeCoversEveryHost
<1>7. Spec /\ ~(part = "fleet") => []~(part = "fleet")
  <2>1. ~(part = "fleet") /\ [Next]_vars => (~(part = "fleet"))'  BY DEF Next, vars
  <2> QED  BY <2>1, PTL DEF Spec
<1> QED  BY <1>3, <1>4, <1>5, <1>6, <1>7, PTL

\* Of any number of commands of the desktop one prompt at most is up; no session is
\* left running but by a failure or the end of the application; and what a command
\* answers of the cooldown, the checkpoints and the newest scan is so
\* (PrivilegedOpGuard, persist_scan_results, system_database_denies, get_checkpoints,
\* latest_or_fresh_findings).
THEOREM TheDesktopKeepsItsWord == Spec => DesktopKeepsItsWord
<1>1. Init /\ part = "desktop" => Desktop!Init  BY DEF Init
<1>2. [Next]_vars /\ part = "desktop" => [Desktop!Next]_(Desktop!vars) /\ (part = "desktop")'
  BY DEF Next, vars, Desktop!vars
<1>3. Spec /\ part = "desktop" => Desktop!Spec  BY <1>1, <1>2, PTL DEF Spec, Desktop!Spec
<1>4. Desktop!Spec => [][Desktop!KeepsItsWord]_(Desktop!vars)
  BY PartsAssumption, Desktop!WordIsKept
<1>5. [Next]_vars /\ part = "desktop" /\ [Desktop!KeepsItsWord]_(Desktop!vars)
      => [part = "desktop" => Desktop!KeepsItsWord]_vars
  BY DEF Next, vars, aside, Desktop!vars
<1>6. ~(part = "desktop") => [part = "desktop" => Desktop!KeepsItsWord]_vars  OBVIOUS
<1>7. Spec /\ part = "desktop" => [](part = "desktop")  BY <1>2, PTL DEF Spec
<1>8. Spec /\ ~(part = "desktop") => []~(part = "desktop")
  <2>1. ~(part = "desktop") /\ [Next]_vars => (~(part = "desktop"))'  BY DEF Next, vars
  <2> QED  BY <2>1, PTL DEF Spec
<1> QED  BY <1>3, <1>4, <1>5, <1>6, <1>7, <1>8, PTL DEF Spec, DesktopKeepsItsWord

-----------------------------------------------------------------------------
(* The order of the plugins.                                               *)

OrderManager ==
    [pc : {"new", "refused", "order", "execute"}, order : Seq(OrderParams.Plugin), at : Nat,
     results : Seq([plugin : OrderParams.Plugin, success : BOOLEAN])]

OrderType ==
    /\ host \in [OrderParams.Plugin -> SUBSET (OrderParams.Plugin \cup {OrderParams.Unknown})]
    /\ left \in Order!Asked
    /\ call \in OrderManager

\* No plugin is handed out twice, and each after all that it depends on.
OrderWalked ==
    /\ \A i, j \in DOMAIN call.order : call.order[i] = call.order[j] => i = j
    /\ \A i \in DOMAIN call.order : \A q \in host[call.order[i]] :
         \E j \in DOMAIN call.order : j < i /\ call.order[j] = q

\* A registry that is walked can be, and one that is executed was walked to its end.
OrderBegun ==
    /\ call.at \in 1 .. (Len(call.order) + 1)
    /\ call.pc # "execute" => call.at = 1 /\ call.results = <<>>
    /\ call.pc \in {"order", "execute"} =>
         ~Order!Cyclic /\ \A p \in OrderParams.Plugin : OrderParams.Unknown \notin host[p]
    /\ call.pc = "execute" => Order!Ordered = OrderParams.Plugin

\* The results are those of the plugins that were asked for, of the ones passed
\* so far, and come as these do.
OrderBrought ==
    /\ \A i \in DOMAIN call.results : \E k \in 1 .. (call.at - 1) :
         call.order[k] = call.results[i].plugin /\ Order!Wants(left, call.order[k])
    /\ \A k \in 1 .. (call.at - 1) : Order!Wants(left, call.order[k]) =>
         \E i \in DOMAIN call.results : call.results[i].plugin = call.order[k]
    /\ \A i, j \in DOMAIN call.results : \A k, l \in 1 .. (call.at - 1) :
         i < j /\ call.results[i].plugin = call.order[k] /\ call.results[j].plugin = call.order[l]
           => k < l

OrderRefused ==
    call.pc = "refused" => (~Order!Orderable \/ (left.verb = "apply" /\ Order!Wanted = {}))

OrderInv == OrderType /\ OrderWalked /\ OrderBegun /\ OrderBrought /\ OrderRefused

\* What the standard module says of a set it says in the instance.
LEMMA OrderCounts ==
  /\ \A S : Order!IsFiniteSet(S) <=> IsFiniteSet(S)
  /\ \A S : Order!Cardinality(S) = Cardinality(S)
<1>1. ASSUME NEW S PROVE Order!IsFiniteSet(S) <=> IsFiniteSet(S)
  BY Zenon DEF Order!IsFiniteSet, IsFiniteSet
<1>2. ASSUME NEW S PROVE Order!Cardinality(S) = Cardinality(S)
  BY Zenon DEF Order!Cardinality, Cardinality
<1> QED  BY <1>1, <1>2

LEMMA OrderAppends ==
  ASSUME NEW S, NEW s \in Seq(S), NEW e \in S
  PROVE  Append(s, e) \in Seq(S) /\ Len(Append(s, e)) = Len(s) + 1
OBVIOUS

\* Plugins that wait on one another, or on none that is registered, have no order.
LEMMA OrderRefuses ==
  ASSUME Order!OrderAssumption, OrderType,
         Order!Cyclic \/ \E p \in OrderParams.Plugin : OrderParams.Unknown \in host[p]
  PROVE  ~Order!Orderable
<1> SUFFICES ASSUME Order!Orderable PROVE FALSE  OBVIOUS
<1> DEFINE P == OrderParams.Plugin
<1>1. PICK rank \in [P -> 1 .. Cardinality(P)] :
        \A p \in P : \A q \in host[p] : q \in P /\ rank[q] < rank[p]
  BY OrderCounts DEF Order!Orderable
<1>2. IsFiniteSet(P) /\ Cardinality(P) \in Nat
  <2>1. IsFiniteSet(P)  BY OrderCounts DEF Order!OrderAssumption
  <2> QED  BY <2>1, FS_CardinalityType
<1>3. \A p \in P : OrderParams.Unknown \notin host[p]  BY <1>1 DEF Order!OrderAssumption
<1>4. PICK S \in (SUBSET P) \ {{}} : \A p \in S : host[p] \cap S # {}
  BY <1>3 DEF Order!Cyclic
<1> DEFINE Below(p) == {q \in P : rank[q] <= rank[p]}
           T == {Below(p) : p \in S}
           R == StrictSubsetOrdering(P)
<1>5. IsWellFoundedOn(R, SUBSET P)
  BY <1>2, FS_StrictSubsetOrderingWellFounded, FS_FiniteSubsetsOfFinite
<1>6. T # {} /\ T \subseteq SUBSET P
  <2>1. PICK s \in S : TRUE  BY <1>4
  <2>2. Below(s) \in T  BY <2>1
  <2>3. \A t \in S : Below(t) \in SUBSET P  OBVIOUS
  <2> QED  BY <2>2, <2>3
<1>7. PICK u \in T : \A v \in T : <<v, u>> \notin R
  <2> HIDE DEF R, T
  <2> QED  BY <1>5, <1>6, WFMin
<1>8. PICK p \in S : u = Below(p)  OBVIOUS
<1>9. PICK q \in S : q \in host[p]  BY <1>4
<1>10. p \in P /\ q \in P /\ rank[q] < rank[p] /\ rank[p] \in Nat /\ rank[q] \in Nat
  BY <1>1, <1>2, <1>4, <1>9
<1>11. \A r \in P : rank[r] \in Nat  BY <1>1, <1>2
<1>12. Below(q) \subseteq Below(p)  BY <1>10, <1>11
<1>13. p \in Below(p) /\ p \notin Below(q)  BY <1>10
<1>14. Below(q) \in T /\ Below(q) \in SUBSET P /\ Below(p) \in SUBSET P  BY <1>9
<1>15. <<Below(q), Below(p)>> \in R
  <2> HIDE DEF Below
  <2> QED  BY <1>12, <1>13, <1>14 DEF StrictSubsetOrdering
<1> HIDE DEF R, T, Below
<1> QED  BY <1>7, <1>8, <1>14, <1>15

\* While a registry that can be ordered has a plugin left, one is ready.
LEMMA OrderEndsWalk ==
  ASSUME OrderType, ~Order!Cyclic, Order!Ready = {},
         \A p \in OrderParams.Plugin : OrderParams.Unknown \notin host[p]
  PROVE  Order!Ordered = OrderParams.Plugin
<1> DEFINE S == OrderParams.Plugin \ Order!Ordered
<1>1. Order!Ordered \subseteq OrderParams.Plugin  BY DEF Order!Ordered, OrderType, OrderManager
<1>2. ASSUME NEW p \in S
      PROVE  host[p] \cap S # {}
  <2>1. PICK q \in host[p] : q \notin Order!Ordered  BY <1>2 DEF Order!Ready
  <2>2. q \in OrderParams.Plugin  BY <2>1 DEF OrderType
  <2> QED  BY <2>1, <2>2
<1>3. S = {}
  <2> SUFFICES ASSUME S # {} PROVE FALSE  OBVIOUS
  <2>1. S \in (SUBSET OrderParams.Plugin) \ {{}}  OBVIOUS
  <2> HIDE DEF S
  <2> QED  BY <1>2, <2>1 DEF Order!Cyclic
<1> QED  BY <1>1, <1>3

LEMMA OrderInitial ==
  ASSUME Order!Init
  PROVE  OrderInv
<1>1. call = [pc |-> "new", order |-> <<>>, at |-> 1, results |-> <<>>]  BY DEF Order!Init
<1>2. <<>> \in Seq(OrderParams.Plugin) /\ <<>> \in Seq([plugin : OrderParams.Plugin, success : BOOLEAN])
  OBVIOUS
<1>3. OrderType
  <2>1. call \in OrderManager  BY <1>1, <1>2 DEF OrderManager
  <2>2. left \in Order!Asked  BY DEF Order!Init, Order!Asked
  <2> QED  BY <2>1, <2>2 DEF Order!Init, OrderType
<1>4. DOMAIN <<>> = {} /\ Len(<<>>) = 0  OBVIOUS
<1>5. call.order = <<>> /\ call.results = <<>> /\ call.at = 1 /\ call.pc = "new"  BY <1>1
<1>6. OrderWalked  BY <1>4, <1>5 DEF OrderWalked
<1>7. OrderBegun  BY <1>4, <1>5 DEF OrderBegun
<1>8. OrderBrought  BY <1>4, <1>5 DEF OrderBrought
<1> QED  BY <1>3, <1>5, <1>6, <1>7, <1>8 DEF OrderInv, OrderRefused

LEMMA OrderResolves ==
  ASSUME Order!OrderAssumption, OrderInv, Order!Resolve
  PROVE  OrderInv'
<1> DEFINE pc == IF (\E p \in OrderParams.Plugin : OrderParams.Unknown \in host[p]) \/ Order!Cyclic
                 THEN "refused" ELSE "order"
<1>1. call' = [call EXCEPT !.pc = pc] /\ host' = host /\ left' = left /\ call.pc = "new"
  BY DEF Order!Resolve
<1>2. call \in OrderManager  BY DEF OrderInv, OrderType
<1>3. pc \in {"refused", "order"}  OBVIOUS
<1>4. /\ call' \in OrderManager /\ call'.pc = pc /\ call'.order = call.order
      /\ call'.at = call.at /\ call'.results = call.results
  <2> HIDE DEF pc
  <2> QED  BY <1>1, <1>2, <1>3 DEF OrderManager
<1>5. OrderType' /\ OrderWalked' /\ OrderBrought'
  BY <1>1, <1>4 DEF OrderInv, OrderType, OrderWalked, OrderBrought
<1>6. pc = "order" => ~Order!Cyclic /\ \A p \in OrderParams.Plugin : OrderParams.Unknown \notin host[p]
  OBVIOUS
<1>7. Order!Cyclic' <=> Order!Cyclic  BY <1>1 DEF Order!Cyclic
<1>8. OrderBegun'
  <2> HIDE DEF pc
  <2> QED  BY <1>1, <1>3, <1>4, <1>6, <1>7 DEF OrderInv, OrderBegun
<1>9. OrderRefused'
  <2> SUFFICES ASSUME pc = "refused" PROVE ~Order!Orderable'
    BY <1>4 DEF OrderRefused
  <2>1. ~Order!Orderable  BY OrderRefuses DEF OrderInv
  <2> QED  BY <2>1, <1>1 DEF Order!Orderable
<1> QED  BY <1>5, <1>8, <1>9 DEF OrderInv

LEMMA OrderWalks ==
  ASSUME OrderInv, Order!Walk
  PROVE  OrderInv'
<1>1. PICK p \in Order!Ready : call' = [call EXCEPT !.order = Append(@, p)]
  BY DEF Order!Walk
<1>2. host' = host /\ left' = left /\ call.pc = "order"  BY DEF Order!Walk
<1>3. call \in OrderManager /\ call.order \in Seq(OrderParams.Plugin)
  BY DEF OrderInv, OrderType, OrderManager
<1>4. p \in OrderParams.Plugin /\ p \notin Order!Ordered /\ host[p] \subseteq Order!Ordered
  BY DEF Order!Ready
<1> DEFINE order == Append(call.order, p)
           n == Len(call.order)
<1>5. n \in Nat /\ DOMAIN call.order = 1 .. n  BY <1>3
<1>6. /\ order \in Seq(OrderParams.Plugin) /\ DOMAIN order = 1 .. (n + 1) /\ Len(order) = n + 1
      /\ order[n + 1] = p /\ \A i \in 1 .. n : order[i] = call.order[i]
  <2>1. order \in Seq(OrderParams.Plugin) /\ Len(order) = n + 1
    <3>1. call.order \in Seq(OrderParams.Plugin) /\ p \in OrderParams.Plugin  BY <1>3, <1>4
    <3> QED  BY <3>1, OrderAppends
  <2>2. DOMAIN order = 1 .. Len(order)
    <3> HIDE DEF order
    <3> QED  BY <2>1
  <2>3. order[n + 1] = p /\ \A i \in 1 .. n : order[i] = call.order[i]  BY <1>3, <1>4
  <2> HIDE DEF order, n
  <2> QED  BY <2>1, <2>2, <2>3
<1>7. /\ call' \in OrderManager /\ call'.pc = "order" /\ call'.order = order
      /\ call'.at = call.at /\ call'.results = call.results
  <2> HIDE DEF order
  <2> QED  BY <1>1, <1>2, <1>3, <1>6 DEF OrderManager, order
<1> HIDE DEF order, n
<1>8. OrderType'  BY <1>2, <1>7 DEF OrderInv, OrderType
<1>9. OrderWalked'
  <2>1. \A i, j \in DOMAIN order : order[i] = order[j] => i = j
    <3> SUFFICES ASSUME NEW i \in 1 .. (n + 1), NEW j \in 1 .. (n + 1), order[i] = order[j]
                 PROVE  i = j
      BY <1>6
    <3>1. \A k \in 1 .. n : order[k] # p  BY <1>4, <1>5, <1>6 DEF Order!Ordered
    <3>2. CASE i \in 1 .. n /\ j \in 1 .. n
      BY <3>2, <1>5, <1>6 DEF OrderInv, OrderWalked
    <3>3. CASE i = n + 1 \/ j = n + 1  BY <3>1, <3>3, <1>5, <1>6
    <3> QED  BY <3>2, <3>3, <1>5
  <2>2. ASSUME NEW i \in DOMAIN order, NEW q \in host[order[i]]
        PROVE  \E j \in DOMAIN order : j < i /\ order[j] = q
    <3>1. CASE i = n + 1
      <4>1. q \in Order!Ordered  BY <1>4, <1>6, <2>2, <3>1
      <4>2. PICK j \in 1 .. n : call.order[j] = q  BY <4>1, <1>5 DEF Order!Ordered
      <4> QED  BY <3>1, <4>2, <1>5, <1>6
    <3>2. CASE i # n + 1
      <4>1. i \in 1 .. n /\ order[i] = call.order[i]  BY <3>2, <1>5, <1>6
      <4>2. PICK j \in 1 .. n : j < i /\ call.order[j] = q
        BY <2>2, <4>1, <1>5 DEF OrderInv, OrderWalked
      <4> QED  BY <4>2, <1>5, <1>6
    <3> QED  BY <3>1, <3>2
  <2> QED  BY <2>1, <2>2, <1>2, <1>7 DEF OrderWalked
<1>10. Order!Cyclic' <=> Order!Cyclic  BY <1>2 DEF Order!Cyclic
<1>11. call.at = 1 /\ call.results = <<>>  BY <1>2 DEF OrderInv, OrderBegun
<1>12. OrderBegun'
  BY <1>2, <1>5, <1>6, <1>7, <1>10, <1>11 DEF OrderInv, OrderBegun, n
<1>13. OrderBrought'  BY <1>7, <1>11 DEF OrderBrought
<1>14. OrderRefused'  BY <1>7 DEF OrderRefused
<1> QED  BY <1>8, <1>9, <1>12, <1>13, <1>14 DEF OrderInv

LEMMA OrderCalls ==
  ASSUME OrderInv, Order!Call
  PROVE  OrderInv'
<1> DEFINE none == left'.verb = "apply" /\ \A p \in Order!Ordered : ~Order!Wants(left', p)
           pc == IF none THEN "refused" ELSE "execute"
<1>1. /\ call' = [call EXCEPT !.pc = pc] /\ host' = host /\ left' \in Order!Asked
      /\ call.pc = "order" /\ Order!Ready = {}
  BY DEF Order!Call
<1>2. call \in OrderManager  BY DEF OrderInv, OrderType
<1>3. pc \in {"refused", "execute"} /\ (pc = "refused" => none)  OBVIOUS
<1>4. /\ call' \in OrderManager /\ call'.pc = pc /\ call'.order = call.order
      /\ call'.at = call.at /\ call'.results = call.results
  <2> HIDE DEF pc
  <2> QED  BY <1>1, <1>2, <1>3 DEF OrderManager
<1>5. OrderType' /\ OrderWalked'
  BY <1>1, <1>4 DEF OrderInv, OrderType, OrderWalked
<1>6. Order!Ordered = OrderParams.Plugin
  BY <1>1, OrderEndsWalk DEF OrderInv, OrderBegun
<1>7. Order!Ordered' = Order!Ordered  BY <1>4 DEF Order!Ordered
<1>8. Order!Cyclic' <=> Order!Cyclic  BY <1>1 DEF Order!Cyclic
<1>9. call.at = 1 /\ call.results = <<>>  BY <1>1 DEF OrderInv, OrderBegun
<1>10. OrderBegun'
  <2> HIDE DEF pc
  <2> QED  BY <1>1, <1>3, <1>4, <1>6, <1>7, <1>8, <1>9 DEF OrderInv, OrderBegun
<1>11. OrderBrought'  BY <1>4, <1>9 DEF OrderBrought
<1>12. OrderRefused'
  <2> SUFFICES ASSUME pc = "refused"
               PROVE  left'.verb = "apply" /\ Order!Wanted' = {}
    BY <1>4 DEF OrderRefused
  <2>1. none  BY <1>3
  <2>2. \A p \in OrderParams.Plugin : ~Order!Wants(left', p)  BY <2>1, <1>6
  <2> QED  BY <2>1, <2>2 DEF Order!Wanted
<1> QED  BY <1>5, <1>10, <1>11, <1>12 DEF OrderInv

LEMMA OrderPasses ==
  ASSUME OrderInv, Order!Pass
  PROVE  OrderInv'
<1>1. /\ call' = [call EXCEPT !.at = @ + 1] /\ host' = host /\ left' = left
      /\ call.pc = "execute" /\ call.at \in DOMAIN call.order
      /\ ~Order!Wants(left, call.order[call.at])
  BY DEF Order!Pass, Order!Due, Order!Now
<1>2. call \in OrderManager /\ call.at \in Nat  BY DEF OrderInv, OrderType, OrderManager
<1>3. /\ call' \in OrderManager /\ call'.pc = "execute" /\ call'.order = call.order
      /\ call'.at = call.at + 1 /\ call'.results = call.results
  BY <1>1, <1>2 DEF OrderManager
<1>4. OrderType' /\ OrderWalked'
  BY <1>1, <1>3 DEF OrderInv, OrderType, OrderWalked
<1>5. Order!Ordered' = Order!Ordered  BY <1>3 DEF Order!Ordered
<1>6. Order!Cyclic' <=> Order!Cyclic  BY <1>1 DEF Order!Cyclic
<1>7. Len(call.order) \in Nat /\ DOMAIN call.order = 1 .. Len(call.order)
  BY <1>2 DEF OrderManager
<1>8. OrderBegun'
  BY <1>1, <1>2, <1>3, <1>5, <1>6, <1>7 DEF OrderInv, OrderBegun
<1>9. \A k \in 1 .. (call'.at - 1) : k \in 1 .. (call.at - 1) \/ k = call.at  BY <1>2, <1>3
<1>10. \A k \in 1 .. (call.at - 1) : k \in 1 .. (call'.at - 1)  BY <1>2, <1>3
<1>11. \A i \in DOMAIN call.results : call.results[i].plugin # call.order[call.at]
  <2> SUFFICES ASSUME NEW i \in DOMAIN call.results, call.results[i].plugin = call.order[call.at]
               PROVE  FALSE
    OBVIOUS
  <2>1. PICK k \in 1 .. (call.at - 1) :
          call.order[k] = call.results[i].plugin /\ Order!Wants(left, call.order[k])
    BY DEF OrderInv, OrderBrought
  <2> QED  BY <2>1, <1>1
<1>12. OrderBrought'
  <2>1. ASSUME NEW i \in DOMAIN call.results
        PROVE  \E k \in 1 .. (call'.at - 1) :
                 call.order[k] = call.results[i].plugin /\ Order!Wants(left, call.order[k])
    BY <1>10 DEF OrderInv, OrderBrought
  <2>2. ASSUME NEW k \in 1 .. (call'.at - 1), Order!Wants(left, call.order[k])
        PROVE  \E i \in DOMAIN call.results : call.results[i].plugin = call.order[k]
    BY <1>1, <1>9, <2>2 DEF OrderInv, OrderBrought
  <2>3. ASSUME NEW i \in DOMAIN call.results, NEW j \in DOMAIN call.results,
               NEW k \in 1 .. (call'.at - 1), NEW l \in 1 .. (call'.at - 1),
               i < j, call.results[i].plugin = call.order[k], call.results[j].plugin = call.order[l]
        PROVE  k < l
    <3>1. k \in 1 .. (call.at - 1) /\ l \in 1 .. (call.at - 1)  BY <1>9, <1>11, <2>3
    <3> QED  BY <2>3, <3>1 DEF OrderInv, OrderBrought
  <2> QED  BY <1>1, <1>3, <2>1, <2>2, <2>3 DEF OrderBrought
<1>13. OrderRefused'  BY <1>3 DEF OrderRefused
<1> QED  BY <1>4, <1>8, <1>12, <1>13 DEF OrderInv

LEMMA OrderExecutes ==
  ASSUME OrderInv, Order!Execute
  PROVE  OrderInv'
<1>1. PICK success \in BOOLEAN :
        call' = [call EXCEPT !.at = @ + 1,
                   !.results = Append(@, [plugin |-> call.order[call.at], success |-> success])]
  BY DEF Order!Execute, Order!Now
<1>2. /\ host' = host /\ left' = left /\ call.pc = "execute" /\ call.at \in DOMAIN call.order
      /\ Order!Wants(left, call.order[call.at])
  BY DEF Order!Execute, Order!Due, Order!Now
<1>3. /\ call \in OrderManager /\ call.at \in Nat /\ call.order \in Seq(OrderParams.Plugin)
      /\ call.results \in Seq([plugin : OrderParams.Plugin, success : BOOLEAN])
  BY DEF OrderInv, OrderType, OrderManager
<1> DEFINE new == [plugin |-> call.order[call.at], success |-> success]
           results == Append(call.results, new)
           n == Len(call.results)
<1>4. n \in Nat /\ DOMAIN call.results = 1 .. n  BY <1>3
<1>5. call.order[call.at] \in OrderParams.Plugin  BY <1>2, <1>3
<1>6. new \in [plugin : OrderParams.Plugin, success : BOOLEAN] /\ new.plugin = call.order[call.at]
  BY <1>5
<1>7. /\ results \in Seq([plugin : OrderParams.Plugin, success : BOOLEAN])
      /\ DOMAIN results = 1 .. (n + 1) /\ results[n + 1] = new
      /\ \A i \in 1 .. n : results[i] = call.results[i]
  <2> HIDE DEF new
  <2> QED  BY <1>3, <1>4, <1>6
<1>8. /\ call' \in OrderManager /\ call'.pc = "execute" /\ call'.order = call.order
      /\ call'.at = call.at + 1 /\ call'.results = results
  <2> DEFINE moved == [call EXCEPT !.at = call.at + 1]
             filed == [moved EXCEPT !.results = results]
  <2>1. call' = filed  BY <1>1
  <2>2. /\ moved \in OrderManager /\ moved.pc = "execute" /\ moved.order = call.order
        /\ moved.at = call.at + 1
    BY <1>2, <1>3 DEF OrderManager
  <2>3. /\ filed \in OrderManager /\ filed.pc = "execute" /\ filed.order = call.order
        /\ filed.at = call.at + 1 /\ filed.results = results
    <3> HIDE DEF moved, results
    <3> QED  BY <2>2, <1>7 DEF OrderManager
  <2> HIDE DEF filed, results
  <2> QED  BY <2>1, <2>3
<1> HIDE DEF results, new, n
<1>9. OrderType' /\ OrderWalked'
  BY <1>2, <1>8 DEF OrderInv, OrderType, OrderWalked
<1>10. Order!Ordered' = Order!Ordered  BY <1>8 DEF Order!Ordered
<1>11. Order!Cyclic' <=> Order!Cyclic  BY <1>2 DEF Order!Cyclic
<1>12. Len(call.order) \in Nat /\ DOMAIN call.order = 1 .. Len(call.order)  BY <1>3
<1>13. OrderBegun'
  BY <1>2, <1>3, <1>8, <1>10, <1>11, <1>12 DEF OrderInv, OrderBegun
<1>14. \A k \in 1 .. (call'.at - 1) : k \in 1 .. (call.at - 1) \/ k = call.at  BY <1>3, <1>8
<1>15. \A k \in 1 .. (call.at - 1) : k \in 1 .. (call'.at - 1) /\ k < call.at /\ k \in DOMAIN call.order
  BY <1>2, <1>3, <1>8, <1>12
<1>16. call.at \in 1 .. (call'.at - 1)  BY <1>2, <1>3, <1>8, <1>12
<1>17. \A i \in 1 .. (n + 1) : i \in 1 .. n \/ i = n + 1  BY <1>4
<1>18. ASSUME NEW i \in DOMAIN results
       PROVE  \E k \in 1 .. (call'.at - 1) :
                call.order[k] = results[i].plugin /\ Order!Wants(left, call.order[k])
  <2>1. CASE i \in 1 .. n
    BY <2>1, <1>4, <1>7, <1>15 DEF OrderInv, OrderBrought
  <2>2. CASE i = n + 1  BY <2>2, <1>2, <1>6, <1>7, <1>16
  <2> QED  BY <2>1, <2>2, <1>7, <1>17
<1>19. ASSUME NEW k \in 1 .. (call'.at - 1), Order!Wants(left, call.order[k])
       PROVE  \E i \in DOMAIN results : results[i].plugin = call.order[k]
  <2>1. CASE k = call.at
    <3>1. n + 1 \in DOMAIN results  BY <1>4, <1>7
    <3> QED  BY <2>1, <3>1, <1>6, <1>7
  <2>2. CASE k \in 1 .. (call.at - 1)
    <3>1. PICK i \in 1 .. n : call.results[i].plugin = call.order[k]
      BY <2>2, <1>4, <1>19 DEF OrderInv, OrderBrought
    <3>2. i \in DOMAIN results  BY <1>4, <1>7
    <3> QED  BY <3>1, <3>2, <1>7
  <2> QED  BY <2>1, <2>2, <1>14
<1>20. \A k \in 1 .. (call.at - 1) : call.order[k] # call.order[call.at]
  BY <1>2, <1>15 DEF OrderInv, OrderWalked
<1>21. ASSUME NEW i \in DOMAIN results, NEW j \in DOMAIN results,
              NEW k \in 1 .. (call'.at - 1), NEW l \in 1 .. (call'.at - 1),
              i < j, results[i].plugin = call.order[k], results[j].plugin = call.order[l]
       PROVE  k < l
  <2>1. i \in 1 .. n /\ results[i] = call.results[i]  BY <1>4, <1>7, <1>21
  <2>2. \E h \in 1 .. (call.at - 1) : call.order[h] = call.results[i].plugin
    BY <2>1, <1>4 DEF OrderInv, OrderBrought
  <2>3. k # call.at  BY <2>1, <2>2, <1>20, <1>21
  <2>4. k \in 1 .. (call.at - 1)  BY <2>3, <1>14
  <2>5. CASE j = n + 1
    <3>1. l = call.at
      <4>1. call.order[l] = call.order[call.at]  BY <2>5, <1>6, <1>7, <1>21
      <4> QED  BY <4>1, <1>14, <1>20
    <3> QED  BY <3>1, <2>4, <1>15
  <2>6. CASE j # n + 1
    <3>1. j \in 1 .. n /\ results[j] = call.results[j]  BY <2>6, <1>7, <1>17
    <3>2. \E h \in 1 .. (call.at - 1) : call.order[h] = call.results[j].plugin
      BY <3>1, <1>4 DEF OrderInv, OrderBrought
    <3>3. l \in 1 .. (call.at - 1)  BY <3>1, <3>2, <1>14, <1>20, <1>21
    <3> QED  BY <2>1, <2>4, <3>1, <3>3, <1>4, <1>21 DEF OrderInv, OrderBrought
  <2> QED  BY <2>5, <2>6
<1>22. OrderBrought'
  BY <1>2, <1>8, <1>18, <1>19, <1>21 DEF OrderBrought
<1>23. OrderRefused'  BY <1>8 DEF OrderRefused
<1> QED  BY <1>9, <1>13, <1>22, <1>23 DEF OrderInv

\* An execution that came to its end brought one result of each plugin asked for,
\* in an order that the registry has.
LEMMA OrderEnds ==
  ASSUME Order!OrderAssumption, OrderInv, call.pc = "execute", call.at > Len(call.order)
  PROVE  /\ Order!Orderable
         /\ {call.results[i].plugin : i \in DOMAIN call.results} = Order!Wanted
         /\ Len(call.results) = Order!Cardinality(Order!Wanted)
         /\ \A i, j \in DOMAIN call.results :
              call.results[j].plugin \in host[call.results[i].plugin] => j < i
<1> DEFINE P == OrderParams.Plugin
           n == Len(call.order)
           r == call.results
<1>1. /\ call.order \in Seq(P) /\ n \in Nat /\ DOMAIN call.order = 1 .. n
      /\ r \in Seq([plugin : P, success : BOOLEAN]) /\ Len(r) \in Nat /\ DOMAIN r = 1 .. Len(r)
  BY DEF OrderInv, OrderType, OrderManager
<1>2. call.at - 1 = n  BY <1>1 DEF OrderInv, OrderBegun
<1>3. \A p \in P : \E k \in 1 .. n : call.order[k] = p
  BY <1>1 DEF OrderInv, OrderBegun, Order!Ordered
<1>4. \A k, l \in 1 .. n : call.order[k] = call.order[l] => k = l
  BY <1>1 DEF OrderInv, OrderWalked
<1>5. \A k \in 1 .. n : call.order[k] \in P  BY <1>1
<1>6. IsFiniteSet(P) /\ Cardinality(P) = n
  <2>1. IsFiniteSet(P)  BY OrderCounts DEF Order!OrderAssumption
  <2> DEFINE f == [k \in 1 .. n |-> call.order[k]]
  <2>2. f \in Bijection(1 .. n, P)
    <3>1. f \in [1 .. n -> P]  BY <1>5
    <3>2. \A k, l \in 1 .. n : f[k] = f[l] => k = l  BY <1>4
    <3>3. \A p \in P : \E k \in 1 .. n : f[k] = p  BY <1>3
    <3> HIDE DEF f, n, P
    <3> QED  BY <3>1, <3>2, <3>3 DEF Bijection, Injection, Surjection, IsInjective
  <2>3. IsFiniteSet(1 .. n) /\ Cardinality(1 .. n) = n
    <3> HIDE DEF n
    <3> QED  BY <1>1, FS_Interval
  <2> HIDE DEF f, n, P
  <2> QED  BY <2>1, <2>2, <2>3, FS_Bijection DEF ExistsBijection
<1>7. Order!Orderable
  <2> DEFINE rank == [p \in P |-> CHOOSE k \in 1 .. n : call.order[k] = p]
  <2>1. \A p \in P : rank[p] \in 1 .. n /\ call.order[rank[p]] = p  BY <1>3
  <2>2. rank \in [P -> 1 .. Order!Cardinality(P)]
    <3>1. Order!Cardinality(P) = n  BY <1>6, OrderCounts
    <3> HIDE DEF n
    <3> QED  BY <2>1, <3>1
  <2>3. ASSUME NEW p \in P, NEW q \in host[p]
        PROVE  q \in P /\ rank[q] < rank[p]
    <3> HIDE DEF rank, n
    <3>1. PICK j \in 1 .. n : j < rank[p] /\ call.order[j] = q
      <4>1. rank[p] \in 1 .. n /\ call.order[rank[p]] = p  BY <2>1
      <4> QED  BY <4>1, <1>1, <2>3 DEF OrderInv, OrderWalked
    <3>2. q \in P /\ rank[q] = j  BY <2>1, <3>1, <1>4, <1>5
    <3> QED  BY <3>1, <3>2
  <2> HIDE DEF rank
  <2> QED  BY <2>2, <2>3 DEF Order!Orderable
<1>8. ASSUME NEW i \in 1 .. Len(r)
      PROVE  \E k \in 1 .. n : call.order[k] = r[i].plugin /\ Order!Wants(left, r[i].plugin)
  BY <1>1, <1>2 DEF OrderInv, OrderBrought
<1>9. ASSUME NEW p \in Order!Wanted
      PROVE  \E i \in 1 .. Len(r) : r[i].plugin = p
  <2>1. p \in P /\ Order!Wants(left, p)  BY DEF Order!Wanted
  <2>2. PICK k \in 1 .. n : call.order[k] = p  BY <2>1, <1>3
  <2> QED  BY <2>1, <2>2, <1>1, <1>2 DEF OrderInv, OrderBrought
<1>10. ASSUME NEW i \in 1 .. Len(r), NEW j \in 1 .. Len(r), i < j,
              NEW k \in 1 .. n, NEW l \in 1 .. n,
              r[i].plugin = call.order[k], r[j].plugin = call.order[l]
       PROVE  k < l
  BY <1>1, <1>2, <1>10 DEF OrderInv, OrderBrought
<1>11. \A i \in 1 .. Len(r) : r[i].plugin \in Order!Wanted  BY <1>5, <1>8 DEF Order!Wanted
<1>12. {r[i].plugin : i \in DOMAIN r} = Order!Wanted  BY <1>1, <1>9, <1>11
<1>13. Len(r) = Order!Cardinality(Order!Wanted)
  <2> DEFINE f == [i \in 1 .. Len(r) |-> r[i].plugin]
             m == Len(r)
  <2>1. f \in [1 .. m -> Order!Wanted]  BY <1>11
  <2>2. ASSUME NEW i \in 1 .. m, NEW j \in 1 .. m, f[i] = f[j]
        PROVE  i = j
    <3>1. r[i].plugin = r[j].plugin  BY <2>2
    <3>2. ASSUME NEW a \in 1 .. m, NEW b \in 1 .. m, a < b, r[a].plugin = r[b].plugin
          PROVE  FALSE
      <4>1. PICK k \in 1 .. n : call.order[k] = r[a].plugin  BY <1>8, <3>2
      <4>2. k < k  BY <4>1, <3>2, <1>10
      <4> QED  BY <4>2, <1>1
    <3> QED  BY <1>1, <3>1, <3>2
  <2>3. \A p \in Order!Wanted : \E i \in 1 .. m : f[i] = p  BY <1>9
  <2>4. f \in Bijection(1 .. m, Order!Wanted)
    <3> HIDE DEF f, m
    <3> QED  BY <2>1, <2>2, <2>3 DEF Bijection, Injection, Surjection, IsInjective
  <2>5. IsFiniteSet(1 .. m) /\ Cardinality(1 .. m) = m
    <3>1. m \in Nat  BY <1>1
    <3> HIDE DEF m
    <3> QED  BY <3>1, FS_Interval
  <2>6. Cardinality(Order!Wanted) = m
    <3>1. ExistsBijection(1 .. m, Order!Wanted)
      <4> HIDE DEF f, m
      <4> QED  BY <2>4 DEF ExistsBijection
    <3> HIDE DEF f, m
    <3> QED  BY <2>5, <3>1, FS_Bijection
  <2> QED  BY <2>6, OrderCounts
<1>14. ASSUME NEW i \in 1 .. Len(r), NEW j \in 1 .. Len(r), r[j].plugin \in host[r[i].plugin]
       PROVE  j < i
  <2>1. PICK k \in 1 .. n : call.order[k] = r[i].plugin  BY <1>8
  <2>2. PICK l \in 1 .. n : l < k /\ call.order[l] = r[j].plugin
    <3> DEFINE q == r[j].plugin
    <3>1. q \in host[call.order[k]] /\ k \in DOMAIN call.order  BY <1>1, <1>14, <2>1
    <3>2. \A h \in DOMAIN call.order : \A g \in host[call.order[h]] :
            \E l \in DOMAIN call.order : l < h /\ call.order[l] = g
      BY DEF OrderInv, OrderWalked
    <3> HIDE DEF q
    <3>3. \E l \in DOMAIN call.order : l < k /\ call.order[l] = q  BY <3>1, <3>2
    <3> QED  BY <1>1, <3>3 DEF q
  <2>3. CASE i < j
    <3>1. k < l  BY <2>1, <2>2, <2>3, <1>10
    <3> QED  BY <3>1, <2>2
  <2>4. CASE i = j
    <3>1. k = l  BY <2>1, <2>2, <2>4, <1>4
    <3> QED  BY <3>1, <2>2
  <2> QED  BY <2>3, <2>4, <1>1
<1> QED  BY <1>1, <1>7, <1>12, <1>13, <1>14

LEMMA OrderAlways == Spec /\ part = "order" => [](OrderInv /\ part = "order")
<1>1. Init /\ part = "order" => OrderInv  BY OrderInitial DEF Init
<1>2. OrderInv /\ part = "order" /\ [Next]_vars => (OrderInv /\ part = "order")'
  <2> SUFFICES ASSUME OrderInv, part = "order", [Next]_vars
               PROVE  OrderInv' /\ part' = "order"
    OBVIOUS
  <2>1. CASE Next
    <3>1. part' = "order" /\ Order!Next  BY <2>1 DEF Next
    <3>2. Order!OrderAssumption  BY PartsAssumption
    <3> QED
      BY <3>1, <3>2, OrderResolves, OrderWalks, OrderCalls, OrderPasses, OrderExecutes
      DEF Order!Next
  <2>2. CASE UNCHANGED vars
    <3>1. part' = part /\ host' = host /\ call' = call /\ left' = left  BY <2>2 DEF vars
    <3> QED
      BY <3>1 DEF OrderInv, OrderType, OrderWalked, OrderBegun, OrderBrought, OrderRefused,
         Order!Cyclic, Order!Ordered, Order!Orderable, Order!Wanted
  <2> QED  BY <2>1, <2>2
<1> QED  BY <1>1, <1>2, PTL DEF Spec

\* A registry of any plugins is refused only where they have no order, or nothing
\* was to be applied; and what was executed brought one result of each plugin asked
\* for, none before one that it depends on (resolve_dependencies, execution_order,
\* execute_scan, execute_apply).
THEOREM ThePluginOrderIsSound == Spec => []PluginOrderIsSound
<1>1. OrderInv => Order!OrderIsSound
  <2> SUFFICES ASSUME OrderInv PROVE Order!OrderIsSound  OBVIOUS
  <2>1. Order!OrderAssumption  BY PartsAssumption
  <2>2. call.pc = "refused" => (~Order!Orderable \/ (left.verb = "apply" /\ Order!Wanted = {}))
    BY DEF OrderInv, OrderRefused
  <2> QED  BY <2>1, <2>2, OrderEnds DEF Order!OrderIsSound
<1>2. OrderInv => PluginOrderIsSound  BY <1>1 DEF PluginOrderIsSound
<1>3. ~(part = "order") => PluginOrderIsSound  BY DEF PluginOrderIsSound
<1>4. Spec /\ ~(part = "order") => []~(part = "order")
  <2>1. ~(part = "order") /\ [Next]_vars => (~(part = "order"))'  BY DEF Next, vars
  <2> QED  BY <2>1, PTL DEF Spec
<1> QED  BY <1>2, <1>3, <1>4, OrderAlways, PTL

-----------------------------------------------------------------------------
(* The opening of the database.                                            *)

\* Where a process has the write lock.
DbWriting == {"check", "alter", "failed"}
DbPc      == {"closed", "begin", "busy", "open", "refused"} \cup DbWriting
DbOpener   == [pc : DbPc, at : 1..(Len(DatabaseParams.Migrations) + 1)]

DbType ==
    /\ host \in [tables : BOOLEAN, columns : SUBSET Database!Column]
    /\ writer \in [process : Process \cup {"none"}, columns : SUBSET Database!Column]
    /\ call \in [Process -> DbOpener]
    /\ left \in [faults : Nat, columns : SUBSET Database!Column]

\* Whoever migrates holds the lock and has added, or found, what it is past.
DbLocked ==
    \A p \in Process :
       /\ call[p].pc \in DbWriting => writer.process = p
       /\ call[p].pc \in {"check", "alter"} =>
             \A i \in DOMAIN DatabaseParams.Migrations : i < call[p].at
               => DatabaseParams.Migrations[i] \in writer.columns
       /\ call[p].pc = "alter" => /\ call[p].at \in DOMAIN DatabaseParams.Migrations
                                    /\ DatabaseParams.Migrations[call[p].at] \notin writer.columns

\* Before there are tables nobody is past their creation; after that the columns
\* are those of before the upgrade, or all.
DbWhole ==
    /\ ~host.tables => \A p \in Process : call[p].pc = "closed"
    /\ host.columns \in {left.columns, Database!Column}
    /\ \A p \in Process :
          /\ call[p].pc = "open" => host.columns = Database!Column
          /\ call[p].pc \in {"failed", "refused"} => left.faults > 0

DbInv == DbType /\ DbLocked /\ DbWhole

LEMMA DbBounds ==
  ASSUME Database!DatabaseAssumption
  PROVE  /\ Len(DatabaseParams.Migrations) \in Nat /\ DOMAIN DatabaseParams.Migrations =
              1..Len(DatabaseParams.Migrations)
         /\ \A i \in DOMAIN DatabaseParams.Migrations : DatabaseParams.Migrations[i] \in Database!Column
BY DEF Database!DatabaseAssumption, Database!Column

LEMMA DbBegins ==
  ASSUME Database!DatabaseAssumption, Database!Init
  PROVE  DbInv
<1>1. host \in [tables : BOOLEAN, columns : SUBSET Database!Column]
  <2>1. CASE host = [tables |-> FALSE, columns |-> {}]  BY <2>1
  <2>2. ASSUME NEW c \in DatabaseParams.Earlier, host = [tables |-> TRUE, columns |-> c]
        PROVE  host \in [tables : BOOLEAN, columns : SUBSET Database!Column]
    <3>1. c \in SUBSET Database!Column  BY DEF Database!DatabaseAssumption
    <3> QED  BY <2>2, <3>1
  <2> QED  BY <2>1, <2>2 DEF Database!Init
<1>2. writer \in [process : Process \cup {"none"}, columns : SUBSET Database!Column]
  BY DEF Database!Init, Database!Nobody
<1>3. Database!Closed \in DbOpener /\ Database!Closed.pc = "closed"
  BY DbBounds DEF Database!Closed, DbOpener, DbPc
<1>4. call \in [Process -> DbOpener] /\ \A p \in Process : call[p].pc = "closed"
  BY <1>3 DEF Database!Init
<1>5. left \in [faults : Nat, columns : SUBSET Database!Column] /\ left.columns = host.columns
  BY <1>1 DEF Database!Init
<1>6. DbLocked  BY <1>4 DEF DbLocked, DbWriting
<1>7. DbWhole  BY <1>4, <1>5 DEF DbWhole
<1> QED  BY <1>1, <1>2, <1>4, <1>5, <1>6, <1>7 DEF DbInv, DbType

\* A step of p, as the others see it.
DbMoves(p, pc, at) ==
    /\ call' \in [Process -> DbOpener]
    /\ \A q \in Process \ {p} : call'[q] = call[q]
    /\ call'[p].pc = pc /\ call'[p].at = at

LEMMA DbUpdated ==
  ASSUME call \in [Process -> DbOpener], NEW p \in Process, NEW r \in DbOpener,
         call' = [call EXCEPT ![p] = r]
  PROVE  DbMoves(p, r.pc, r.at)
BY DEF DbMoves

LEMMA DbGotoMoves ==
  ASSUME call \in [Process -> DbOpener], NEW p \in Process, NEW pc \in DbPc, Database!Goto(p,
           pc)
  PROVE  DbMoves(p, pc, call[p].at)
<1> DEFINE r == [call[p] EXCEPT !.pc = pc]
<1>1. r \in DbOpener /\ r.pc = pc /\ r.at = call[p].at  BY DEF DbOpener
<1>2. call' = [call EXCEPT ![p] = r]  BY DEF Database!Goto
<1> HIDE DEF r
<1> QED  BY <1>1, <1>2, DbUpdated

LEMMA DbPutMoves ==
  ASSUME call \in [Process -> DbOpener], NEW p \in Process, NEW pc \in DbPc,
         NEW at \in 1..(Len(DatabaseParams.Migrations) + 1),
         call' = [call EXCEPT ![p].pc = pc, ![p].at = at]
  PROVE  DbMoves(p, pc, at)
<1> DEFINE r == [call[p] EXCEPT !.pc = pc, !.at = at]
<1>1. r \in DbOpener /\ r.pc = pc /\ r.at = at  BY DEF DbOpener
<1>2. call' = [call EXCEPT ![p] = r]  OBVIOUS
<1> HIDE DEF r
<1> QED  BY <1>1, <1>2, DbUpdated

LEMMA DbClosedMoves ==
  ASSUME Database!DatabaseAssumption, call \in [Process -> DbOpener], NEW p \in Process,
         call' = [call EXCEPT ![p] = Database!Closed]
  PROVE  DbMoves(p, "closed", 1)
<1>1. Database!Closed \in DbOpener /\ Database!Closed.pc = "closed" /\ Database!Closed.at = 1
  BY DbBounds DEF Database!Closed, DbOpener, DbPc
<1> QED  BY <1>1, DbUpdated

\* A step that takes no part in the lock and leaves the file alone.
LEMMA DbAside ==
  ASSUME Database!DatabaseAssumption, DbInv, NEW p \in Process, NEW pc \in {"closed", "begin",
           "busy", "refused"},
         NEW at, DbMoves(p, pc, at), host' = host, left' \in [faults : Nat,
           columns : {left.columns}],
         left'.faults >= left.faults,
         writer' \in {writer, Database!Nobody}, writer' = writer \/ writer.process = p,
         call[p].pc = "closed" => host.tables,
         pc = "refused" => left.faults > 0
  PROVE  DbInv'
<1>1. left' \in [faults : Nat, columns : SUBSET Database!Column] /\ left'.columns = left.columns
  BY DEF DbInv, DbType
<1>2. writer' \in [process : Process \cup {"none"}, columns : SUBSET Database!Column]
  BY DEF DbInv, DbType, Database!Nobody
<1>3. DbType'  BY <1>1, <1>2 DEF DbInv, DbType, DbMoves
<1>4. \A q \in Process \ {p} : call'[q] = call[q]  BY DEF DbMoves
<1>5. call'[p].pc = pc /\ pc \notin DbWriting  BY DEF DbMoves, DbWriting
<1>6. DbLocked'
  <2>1. ASSUME NEW q \in Process, call'[q].pc \in DbWriting PROVE q # p /\ writer' = writer
    <3>1. q # p  BY <1>5, <2>1
    <3>2. call[q].pc \in DbWriting  BY <1>4, <2>1, <3>1
    <3>3. writer.process = q  BY <3>2 DEF DbInv, DbLocked
    <3> QED  BY <3>1, <3>3
  <2>2. ASSUME NEW q \in Process, call'[q].pc \in DbWriting
        PROVE  /\ writer'.process = q
               /\ call'[q].pc \in {"check", "alter"} =>
                     \A i \in DOMAIN DatabaseParams.Migrations : i < call'[q].at
                       => DatabaseParams.Migrations[i] \in writer'.columns
               /\ call'[q].pc = "alter" => /\ call'[q].at \in DOMAIN DatabaseParams.Migrations
                                             /\ DatabaseParams.Migrations[call'[q].at] \notin writer'.columns
    BY <1>4, <2>1, <2>2 DEF DbInv, DbLocked
  <2> QED  BY <2>2 DEF DbLocked, DbWriting
<1>7. DbWhole'
  <2>1. ~host.tables => pc = "closed"  BY DEF DbInv, DbWhole
  <2>2. ~host'.tables => \A q \in Process : call'[q].pc = "closed"
    BY <1>4, <1>5, <2>1 DEF DbInv, DbWhole
  <2>3. \A q \in Process : call'[q].pc = "open" => host'.columns = Database!Column
    BY <1>4, <1>5 DEF DbInv, DbWhole
  <2>4. left.faults \in Nat /\ left'.faults \in Nat  BY <1>1 DEF DbInv, DbType
  <2>5. \A q \in Process : call'[q].pc \in {"failed", "refused"} => left'.faults > 0
    BY <1>4, <1>5, <2>4 DEF DbInv, DbWhole
  <2> QED  BY <1>1, <2>2, <2>3, <2>5 DEF DbInv, DbWhole
<1> QED  BY <1>3, <1>6, <1>7 DEF DbInv

\* A step of the process that has the lock, or that takes it.
LEMMA DbWithin ==
  ASSUME Database!DatabaseAssumption, DbInv, NEW p \in Process, NEW pc \in DbWriting,
         NEW at \in 1..(Len(DatabaseParams.Migrations) + 1), DbMoves(p, pc, at),
         host' = host, host.tables, left' \in [faults : Nat, columns : {left.columns}],
         left'.faults >= left.faults,
         writer' \in [process : {p}, columns : SUBSET Database!Column],
         writer = Database!Nobody \/ writer.process = p,
         pc \in {"check", "alter"} =>
            \A i \in DOMAIN DatabaseParams.Migrations : i < at
              => DatabaseParams.Migrations[i] \in writer'.columns,
         pc = "alter"
           => (at \in DOMAIN DatabaseParams.Migrations
             /\ DatabaseParams.Migrations[at] \notin writer'.columns),
         pc = "failed" => left'.faults > 0
  PROVE  DbInv'
<1>1. left' \in [faults : Nat, columns : SUBSET Database!Column] /\ left'.columns = left.columns
  BY DEF DbInv, DbType
<1>2. DbType'  BY <1>1 DEF DbInv, DbType, DbMoves
<1>3. \A q \in Process \ {p} : call'[q] = call[q] /\ call[q].pc \notin DbWriting
  BY DEF DbMoves, DbInv, DbLocked, Database!Nobody, Database!DatabaseAssumption
<1>4. call'[p].pc = pc /\ call'[p].at = at  BY DEF DbMoves
<1>5. DbLocked'
  <2>1. ASSUME NEW q \in Process \ {p} PROVE call'[q].pc \notin {"check", "alter", "failed"}
    BY <1>3 DEF DbWriting
  <2>2. writer'.process = p  OBVIOUS
  <2> QED  BY <1>4, <2>1, <2>2 DEF DbLocked, DbWriting
<1>6. DbWhole'
  <2>1. pc # "open" /\ pc # "refused" /\ pc # "closed"  BY DEF DbWriting
  <2>2. left.faults \in Nat /\ left'.faults \in Nat  BY <1>1 DEF DbInv, DbType
  <2>3. \A q \in Process : call'[q].pc \in {"failed", "refused"} => left'.faults > 0
    BY <1>3, <1>4, <2>1, <2>2 DEF DbInv, DbWhole
  <2>4. \A q \in Process : call'[q].pc = "open" => host'.columns = Database!Column
    BY <1>3, <1>4, <2>1 DEF DbInv, DbWhole
  <2> QED  BY <1>1, <2>3, <2>4 DEF DbInv, DbWhole
<1> QED  BY <1>2, <1>5, <1>6 DEF DbInv

\* What a step leaves of the faults.
LEMMA DbSamePast ==
  ASSUME DbType, left' = left
  PROVE  left' \in [faults : Nat, columns : {left.columns}] /\ left'.faults >= left.faults
BY DEF DbType

LEMMA DbFaultPast ==
  ASSUME DbType, Database!Fault
  PROVE  /\ left' \in [faults : Nat, columns : {left.columns}]
         /\ left'.faults >= left.faults /\ left'.faults > 0
<1>1. left' = [left EXCEPT !.faults = left.faults + 1]  BY DEF Database!Fault
<1> QED  BY <1>1 DEF DbType

LEMMA DbTablesStep ==
  ASSUME Database!DatabaseAssumption, DbInv, NEW p \in Process, Database!CreateTables(p)
  PROVE  DbInv'
<1>1. call \in [Process -> DbOpener] /\ DbType  BY DEF DbInv, DbType
<1>2. DbMoves(p, "begin", call[p].at) /\ writer' = writer
  BY <1>1, DbGotoMoves DEF Database!CreateTables, DbPc
<1>3. CASE host.tables
  <2>1. host' = host /\ left' = left  BY <1>3 DEF Database!CreateTables
  <2> QED  BY <1>1, <1>2, <1>3, <2>1, DbSamePast, DbAside
<1>4. CASE ~host.tables
  <2>1. /\ host' = [tables |-> TRUE, columns |-> DatabaseParams.Schema]
        /\ left' = [left EXCEPT !.columns = DatabaseParams.Schema]
    BY <1>4 DEF Database!CreateTables
  <2>2. DatabaseParams.Schema \in SUBSET Database!Column  BY DEF Database!DatabaseAssumption
  <2>3. host'.tables /\ host'.columns = DatabaseParams.Schema /\ left'.columns =
          DatabaseParams.Schema
    BY <1>1, <2>1 DEF DbType
  <2>4. DbType'  BY <1>1, <1>2, <2>1, <2>2 DEF DbType, DbMoves
  <2>5. \A q \in Process : call'[q].pc \in {"closed", "begin"}
    BY <1>2, <1>4 DEF DbInv, DbWhole, DbMoves
  <2>6. DbLocked'  BY <2>5 DEF DbLocked, DbWriting
  <2>7. DbWhole'  BY <2>3, <2>5 DEF DbWhole
  <2> QED  BY <2>4, <2>6, <2>7 DEF DbInv
<1> QED  BY <1>3, <1>4

\* A process past the creation of tables finds them.
LEMMA DbTables ==
  ASSUME DbInv, NEW p \in Process, call[p].pc # "closed"
  PROVE  host.tables
BY DEF DbInv, DbWhole

LEMMA DbBeginStep ==
  ASSUME Database!DatabaseAssumption, DbInv, NEW p \in Process,
           Database!BeginImmediate(p) \/ Database!Busy(p)
  PROVE  DbInv'
<1>1. call \in [Process -> DbOpener] /\ DbType  BY DEF DbInv, DbType
<1>2. host' = host /\ left' = left /\ host.tables
  BY DbTables DEF Database!BeginImmediate, Database!Busy, Database!At
<1>3. CASE Database!Busy(p)
  <2>1. DbMoves(p, "busy", call[p].at) /\ writer' = writer
    BY <1>1, <1>3, DbGotoMoves DEF Database!Busy, DbPc
  <2> QED  BY <1>1, <1>2, <2>1, DbSamePast, DbAside
<1>4. CASE Database!BeginImmediate(p)
  <2>1. 1 \in 1..(Len(DatabaseParams.Migrations) + 1)  BY DbBounds
  <2>2. DbMoves(p, "check", 1)
    BY <1>1, <1>4, <2>1, DbPutMoves DEF Database!BeginImmediate, DbPc, DbWriting
  <2>3. writer' = [process |-> p, columns |-> host.columns] /\ writer = Database!Nobody
    BY <1>4 DEF Database!BeginImmediate
  <2>4. writer' \in [process : {p}, columns : SUBSET Database!Column]
    BY <1>1, <2>3 DEF DbType
  <2>5. "check" \in DbWriting /\ \A i \in DOMAIN DatabaseParams.Migrations : ~(i < 1)
    BY DbBounds DEF DbWriting
  <2> QED  BY <1>1, <1>2, <2>1, <2>2, <2>3, <2>4, <2>5, DbSamePast, DbWithin
<1> QED  BY <1>3, <1>4

LEMMA DbCheckStep ==
  ASSUME Database!DatabaseAssumption, DbInv, NEW p \in Process, Database!Check(p)
  PROVE  DbInv'
<1>1. call \in [Process -> DbOpener] /\ DbType  BY DEF DbInv, DbType
<1>2. /\ call[p].pc = "check" /\ host' = host /\ left' = left /\ writer' = writer
      /\ call[p].at \in DOMAIN DatabaseParams.Migrations
  BY DEF Database!Check, Database!At
<1>3. writer.process = p  BY <1>2 DEF DbInv, DbLocked, DbWriting
<1>4. writer' \in [process : {p}, columns : SUBSET Database!Column]
  BY <1>1, <1>2, <1>3 DEF DbType
<1>5. Database!Sees(p) = writer.columns  BY <1>3 DEF Database!Sees, Database!Locked
<1> DEFINE at == call[p].at
<1>6. at \in 1..Len(DatabaseParams.Migrations) /\ Len(DatabaseParams.Migrations) \in Nat
  BY <1>2, DbBounds
<1>7. \A i \in DOMAIN DatabaseParams.Migrations : i < at
        => DatabaseParams.Migrations[i] \in writer.columns
  BY <1>2 DEF DbInv, DbLocked
<1>8. host.tables  BY <1>2, DbTables
<1>9. CASE DatabaseParams.Migrations[at] \in writer.columns
  <2>1. call' = [call EXCEPT ![p] = [call[p] EXCEPT !.at = at + 1]]
    BY <1>5, <1>9 DEF Database!Check
  <2>2. at + 1 \in 1..(Len(DatabaseParams.Migrations) + 1)  BY <1>6
  <2> DEFINE r == [call[p] EXCEPT !.at = at + 1]
  <2>3. r \in DbOpener /\ r.pc = "check" /\ r.at = at + 1  BY <1>1, <1>2, <2>2 DEF DbOpener
  <2>4. DbMoves(p, "check", at + 1)
    <3> HIDE DEF r
    <3> QED  BY <1>1, <2>1, <2>3, DbUpdated DEF r
  <2>5. \A i \in DOMAIN DatabaseParams.Migrations : i < at + 1
          => DatabaseParams.Migrations[i] \in writer'.columns
    BY <1>2, <1>6, <1>7, <1>9, DbBounds
  <2>6. "check" \in DbWriting  BY DEF DbWriting
  <2> QED  BY <1>1, <1>2, <1>3, <1>4, <1>8, <2>2, <2>4, <2>5, <2>6, DbSamePast, DbWithin
<1>10. CASE DatabaseParams.Migrations[at] \notin writer.columns
  <2>1. Database!Goto(p, "alter") /\ "alter" \in DbPc
    BY <1>5, <1>10 DEF Database!Check, DbPc, DbWriting
  <2>2. DbMoves(p, "alter", at)  BY <1>1, <2>1, DbGotoMoves
  <2>3. "alter" \in DbWriting /\ at \in 1..(Len(DatabaseParams.Migrations) + 1)
    BY <1>6 DEF DbWriting
  <2> QED  BY <1>1, <1>2, <1>3, <1>4, <1>7, <1>8, <1>10, <2>2, <2>3, DbSamePast, DbWithin
<1> QED  BY <1>9, <1>10

LEMMA DbAlterStep ==
  ASSUME Database!DatabaseAssumption, DbInv, NEW p \in Process,
           Database!Alter(p) \/ Database!AlterFails(p)
  PROVE  DbInv'
<1>1. call \in [Process -> DbOpener] /\ DbType  BY DEF DbInv, DbType
<1>2. call[p].pc = "alter"  BY DEF Database!Alter, Database!AlterFails, Database!At
<1> DEFINE at == call[p].at
<1>3. /\ writer.process = p /\ at \in DOMAIN DatabaseParams.Migrations
           /\ DatabaseParams.Migrations[at] \notin writer.columns
      /\ \A i \in DOMAIN DatabaseParams.Migrations : i < at
           => DatabaseParams.Migrations[i] \in writer.columns
  BY <1>2 DEF DbInv, DbLocked, DbWriting
<1>4. at \in 1..Len(DatabaseParams.Migrations) /\ Len(DatabaseParams.Migrations) \in Nat
        /\ DatabaseParams.Migrations[at] \in Database!Column
  BY <1>3, DbBounds
<1>5. host.tables  BY <1>2, DbTables
<1>6. CASE Database!Alter(p)
  <2>1. /\ call' = [call EXCEPT ![p].pc = "check", ![p].at = at + 1]
        /\ writer' = [writer EXCEPT !.columns = writer.columns
             \cup {DatabaseParams.Migrations[at]}]
        /\ host' = host /\ left' = left
    BY <1>3, <1>6 DEF Database!Alter, Database!Sees, Database!Locked
  <2>2. at + 1 \in 1..(Len(DatabaseParams.Migrations) + 1)  BY <1>4
  <2>3. DbMoves(p, "check", at + 1)  BY <1>1, <2>1, <2>2, DbPutMoves DEF DbPc, DbWriting
  <2>4. /\ writer' \in [process : {p}, columns : SUBSET Database!Column]
        /\ writer'.columns = writer.columns \cup {DatabaseParams.Migrations[at]}
    BY <1>1, <1>3, <1>4, <2>1 DEF DbType
  <2>5. \A i \in DOMAIN DatabaseParams.Migrations : i < at + 1
          => DatabaseParams.Migrations[i] \in writer'.columns
    BY <1>3, <1>4, <2>4, DbBounds
  <2>6. "check" \in DbWriting  BY DEF DbWriting
  <2> QED  BY <1>1, <1>3, <1>5, <2>1, <2>2, <2>3, <2>4, <2>5, <2>6, DbSamePast, DbWithin
<1>7. CASE Database!AlterFails(p)
  <2>1. /\ Database!Goto(p, "failed") /\ "failed" \in DbPc /\ "failed" \in DbWriting
             /\ Database!Fault
        /\ host' = host /\ writer' = writer
    BY <1>7 DEF Database!AlterFails, DbPc, DbWriting
  <2>2. DbMoves(p, "failed", at) /\ at \in 1..(Len(DatabaseParams.Migrations) + 1)
    BY <1>1, <1>4, <2>1, DbGotoMoves
  <2>3. writer' \in [process : {p}, columns : SUBSET Database!Column]
    BY <1>1, <1>3, <2>1 DEF DbType
  <2> QED  BY <1>1, <1>3, <1>5, <2>1, <2>2, <2>3, DbFaultPast, DbWithin
<1> QED  BY <1>6, <1>7

LEMMA DbCommitStep ==
  ASSUME Database!DatabaseAssumption, DbInv, NEW p \in Process, Database!Commit(p)
  PROVE  DbInv'
<1>1. call \in [Process -> DbOpener] /\ DbType  BY DEF DbInv, DbType
<1>2. call[p].pc = "check" /\ call[p].at \notin DOMAIN DatabaseParams.Migrations
  BY DEF Database!Commit, Database!At
<1>3. writer.process = p  BY <1>2 DEF DbInv, DbLocked, DbWriting
<1>4. /\ host' = [host EXCEPT !.columns = writer.columns] /\ writer' = Database!Nobody
           /\ left' = left
      /\ DbMoves(p, "open", call[p].at)
  BY <1>1, <1>3, DbGotoMoves DEF Database!Commit, Database!Release, Database!Locked, DbPc
<1>5. writer.columns = Database!Column
  <2>1. call[p].at \in 1..(Len(DatabaseParams.Migrations) + 1)  BY <1>1 DEF DbOpener
  <2>2. \A i \in DOMAIN DatabaseParams.Migrations : i < call[p].at  BY <1>2, <2>1, DbBounds
  <2>3. \A i \in DOMAIN DatabaseParams.Migrations : DatabaseParams.Migrations[i] \in writer.columns
    BY <1>2, <2>2 DEF DbInv, DbLocked
  <2>4. writer.columns \subseteq Database!Column  BY <1>1 DEF DbType
  <2> QED  BY <2>3, <2>4 DEF Database!Column
<1>6. host'.columns = Database!Column /\ host'.tables = host.tables /\ host.tables
  BY <1>1, <1>2, <1>4, <1>5, DbTables DEF DbType
<1>7. DbType'  BY <1>1, <1>4, <1>5 DEF DbType, DbMoves, Database!Nobody
<1>8. \A q \in Process \ {p} : call'[q] = call[q] /\ call[q].pc \notin DbWriting
  BY <1>3, <1>4 DEF DbMoves, DbInv, DbLocked
<1>9. call'[p].pc = "open"  BY <1>4 DEF DbMoves
<1>10. DbLocked'  BY <1>8, <1>9 DEF DbLocked, DbWriting
<1>11. DbWhole'  BY <1>4, <1>6, <1>8, <1>9 DEF DbWhole, DbInv
<1> QED  BY <1>7, <1>10, <1>11 DEF DbInv

LEMMA DbEndStep ==
  ASSUME Database!DatabaseAssumption, DbInv, NEW p \in Process,
           Database!Rollback(p) \/ Database!Close(p) \/ Database!Die(p)
  PROVE  DbInv'
<1>1. call \in [Process -> DbOpener] /\ DbType  BY DEF DbInv, DbType
<1>2. host' = host /\ host.tables
  BY DbTables DEF Database!Rollback, Database!Close, Database!Die, Database!At
<1>3. CASE Database!Rollback(p)
  <2>1. DbMoves(p, "refused", call[p].at) /\ left' = left /\ call[p].pc = "failed"
    BY <1>1, <1>3, DbGotoMoves DEF Database!Rollback, DbPc, Database!At
  <2>2. left.faults > 0  BY <2>1 DEF DbInv, DbWhole
  <2>3. writer' \in {writer, Database!Nobody} /\ (writer' = writer \/ writer.process = p)
    BY <1>3 DEF Database!Rollback, Database!Release, Database!Locked
  <2> QED  BY <1>1, <1>2, <2>1, <2>2, <2>3, DbSamePast, DbAside
<1>4. CASE Database!Close(p)
  <2>1. DbMoves(p, "closed", 1) /\ left' = left /\ writer' = writer
    BY <1>1, <1>4, DbClosedMoves DEF Database!Close
  <2> QED  BY <1>1, <1>2, <2>1, DbSamePast, DbAside
<1>5. CASE Database!Die(p)
  <2>1. DbMoves(p, "closed", 1) /\ Database!Fault  BY <1>1, <1>5, DbClosedMoves DEF Database!Die
  <2>2. writer' \in {writer, Database!Nobody} /\ (writer' = writer \/ writer.process = p)
    BY <1>5 DEF Database!Die, Database!Release, Database!Locked
  <2> QED  BY <1>1, <1>2, <2>1, <2>2, DbFaultPast, DbAside
<1> QED  BY <1>3, <1>4, <1>5

LEMMA DbNext ==
  ASSUME Database!DatabaseAssumption, DbInv, [Database!Next]_(Database!vars)
  PROVE  DbInv'
<1>1. CASE UNCHANGED Database!vars
  BY <1>1 DEF Database!vars, DbInv, DbType, DbLocked, DbWhole
<1>2. ASSUME NEW p \in Process, Database!Step(p) PROVE DbInv'
  BY <1>2, DbTablesStep, DbBeginStep, DbCheckStep, DbAlterStep, DbCommitStep, DbEndStep
     DEF Database!Step
<1> QED  BY <1>1, <1>2 DEF Database!Next

LEMMA DbAlways == Spec /\ part = "database" => [](DbInv /\ part = "database")
<1>1. Init /\ part = "database" => DbInv  BY PartsAssumption, DbBegins DEF Init
<1>2. DbInv /\ part = "database" /\ [Next]_vars => (DbInv /\ part = "database")'
  <2> SUFFICES ASSUME DbInv, part = "database", [Next]_vars
               PROVE  DbInv' /\ part' = "database"
    OBVIOUS
  <2>1. part' = "database" /\ [Database!Next]_(Database!vars)
    BY DEF Next, vars, Database!vars
  <2> QED  BY <2>1, PartsAssumption, DbNext
<1> QED  BY <1>1, <1>2, PTL DEF Spec

\* init_db with its BEGIN IMMEDIATE: of any number of processes that open a
\* database of any release at once, none finds half of an upgrade, and none is
\* refused but for a failure of its own.
THEOREM UpgradesAreWhole == Spec => []UpgradeIsWhole
<1>1. DbInv => UpgradeIsWhole
  BY DEF DbInv, DbWhole, UpgradeIsWhole, Database!UpgradeIsWhole, Database!At
<1>2. ~(part = "database") => UpgradeIsWhole  BY DEF UpgradeIsWhole
<1>3. Spec /\ ~(part = "database") => []~(part = "database")
  <2>1. ~(part = "database") /\ [Next]_vars => (~(part = "database"))'  BY DEF Next, vars
  <2> QED  BY <2>1, PTL DEF Spec
<1> QED  BY <1>1, <1>2, <1>3, DbAlways, PTL

-----------------------------------------------------------------------------
(* The compliance report.                                                  *)

\* What the standard module says of a set it says in the instance.
LEMMA PostureCounts ==
  \A S : Posture!Cardinality(S) = Cardinality(S)
BY Zenon DEF Posture!Cardinality, Cardinality

\* The checks of a result that were found, and not excepted.
Live(r) == {f.check : f \in {f \in r.findings : ~f.applied}}

Accounts(r, earned) ==
    /\ r.plugin \in Posture!Plugins
    /\ \/ r.marker
       \/ ~r.ok
       \/ Posture!StandsFor(Posture!Checks[r.plugin] \ earned)
            \subseteq Posture!StandsFor(Live(r)) \cup Posture!StandsFor(r.unchecked)

\* More checks stand for more.
LEMMA StandsGrow ==
  ASSUME NEW A, NEW B, A \subseteq B
  PROVE  Posture!StandsFor(A) \subseteq Posture!StandsFor(B)
BY DEF Posture!StandsFor

LEMMA StandsSplit ==
  ASSUME NEW A, NEW B
  PROVE  Posture!StandsFor(A \cup B) = Posture!StandsFor(A) \cup Posture!StandsFor(B)
BY DEF Posture!StandsFor

\* What a plugin checks is what its tables name.
LEMMA ChecksNamed ==
  /\ \A row \in Posture!FirewallControls :
        /\ row[1] \in {"disabled", "not-at-boot"}
        /\ row[2] = {"3.4.1.1", "3.4.1.2", "RHEL-08-040101", "8.20", "8.21"}
  /\ \A c \in {"disabled", "not-at-boot"} : \E row \in Posture!FirewallControls : row[1] = c
<1> DEFINE S == {"3.4.1.1", "3.4.1.2", "RHEL-08-040101", "8.20", "8.21"}
<1>1. Posture!FirewallControls = {<<c, S>> : c \in {"disabled", "not-at-boot"}}
  BY DEF Posture!FirewallControls
<1> HIDE DEF S
<1>2. \A row \in Posture!FirewallControls : row[1] \in {"disabled", "not-at-boot"} /\ row[2] = S
  BY <1>1
<1>3. \A c \in {"disabled", "not-at-boot"} : \E row \in Posture!FirewallControls : row[1] = c
  <2> TAKE c \in {"disabled", "not-at-boot"}
  <2>1. <<c, S>> \in Posture!FirewallControls /\ <<c, S>>[1] = c  BY <1>1
  <2> QED  BY <2>1
<1> QED  BY <1>2, <1>3 DEF S

LEMMA FirewallStandsAlike ==
  ASSUME NEW c \in {"disabled", "not-at-boot"}, NEW d \in {"disabled", "not-at-boot"}
  PROVE  Posture!StandsFor({d}) \subseteq Posture!StandsFor({c})
<1> DEFINE S == {"3.4.1.1", "3.4.1.2", "RHEL-08-040101", "8.20", "8.21"}
<1>1. \A row \in Posture!Stands : row[1] \in {"disabled", "not-at-boot"}
        => row \in Posture!FirewallControls
  BY DEF Posture!Stands, Posture!Plugins, Posture!Table, Posture!AuditPresence,
     Posture!AuditLoaded, Posture!KernelMemory, Posture!KernelFiles, Posture!KernelRoutes,
     Posture!MacPresence, Posture!MacMode, Posture!PamLength, Posture!PamLockout,
     Posture!PamAges, Posture!PermissionAccounts, Posture!PermissionGroups,
     Posture!PermissionPolicy, Posture!ServiceControls, Posture!SshLogin, Posture!SshLimits,
     Posture!SshSession, Posture!SshCrypto
<1>2. Posture!FirewallControls \subseteq Posture!Stands
  BY DEF Posture!Stands, Posture!Plugins, Posture!Table
<1>3. \A row \in Posture!Stands : row[1] = d => row[2] = S
  BY <1>1, ChecksNamed
<1>4. PICK row \in Posture!Stands : row[1] = c /\ row[2] = S
  BY <1>2, ChecksNamed
<1> HIDE DEF S
<1> QED  BY <1>3, <1>4 DEF Posture!StandsFor

LEMMA MacStandsAlike ==
  Posture!StandsFor({"apparmor-complain-mode"})
    \subseteq Posture!StandsFor({"apparmor-no-profiles"})
<1> DEFINE S == {"1.6.1.4", "8.3", "5.15"}
           r == <<"apparmor-no-profiles", S>>
<1>1. \A row \in Posture!Stands : row[1] = "apparmor-complain-mode" => row \in Posture!MacMode
  BY DEF Posture!Stands, Posture!Plugins, Posture!Table, Posture!AuditPresence,
     Posture!AuditLoaded, Posture!KernelMemory, Posture!KernelFiles, Posture!KernelRoutes,
     Posture!MacPresence, Posture!FirewallControls, Posture!PamLength, Posture!PamLockout,
     Posture!PamAges, Posture!PermissionAccounts, Posture!PermissionGroups,
     Posture!PermissionPolicy, Posture!ServiceControls, Posture!SshLogin, Posture!SshLimits,
     Posture!SshSession, Posture!SshCrypto
<1>2. Posture!MacMode \subseteq Posture!Stands
  BY DEF Posture!Stands, Posture!Plugins, Posture!Table
<1>3. \A row \in Posture!Stands : row[1] = "apparmor-complain-mode" => row[2] = S
  BY <1>1 DEF Posture!MacMode
<1>4. r \in Posture!Stands /\ r[1] = "apparmor-no-profiles" /\ r[2] = S
  BY <1>2 DEF Posture!MacMode
<1> HIDE DEF S, r
<1> QED  BY <1>3, <1>4 DEF Posture!StandsFor

LEMMA LeastNatural ==
  ASSUME NEW S \in SUBSET Nat, S # {}
  PROVE  \E i \in S : \A j \in S : i <= j
<1> DEFINE R == OpToRel(<, Nat)
<1>1. PICK i \in S : \A j \in S : <<j, i>> \notin R
  BY NatLessThanWellFounded, WFMin
<1>2. \A j \in S : ~(j < i)  BY <1>1 DEF OpToRel
<1> QED  BY <1>2

\* What a scan says of the checks that it leaves unearned.
Tells(r, p, h) ==
    /\ r.plugin = p
    /\ \/ ~r.ok
       \/ Posture!StandsFor(Posture!Checks[p] \ Posture!Earned(p, h))
            \subseteq Posture!StandsFor(Live(r)) \cup Posture!StandsFor(r.unchecked)

LEMMA LiveFound ==
  ASSUME NEW h, NEW checks, NEW r, r.findings = Posture!Found(h, checks)
  PROVE  Live(r) = checks \ h.except
<1>1. \A c \in checks : [check |-> c, applied |-> c \in h.except] \in r.findings
  BY DEF Posture!Found
<1>3. \A c \in checks : LET f == [check |-> c, applied |-> c \in h.except] IN
                          f.check = c /\ (f.applied <=> c \in h.except)
  OBVIOUS
<1>2. ASSUME NEW f \in r.findings
      PROVE  \E c \in checks : f.check = c /\ (f.applied <=> c \in h.except)
  <2>1. PICK c \in checks : f = [check |-> c, applied |-> c \in h.except]  BY DEF Posture!Found
  <2>2. f.check = c /\ (f.applied <=> c \in h.except)  BY <1>3, <2>1
  <2> QED  BY <2>2
<1>4. ASSUME NEW c \in Live(r) PROVE c \in checks /\ c \notin h.except
  <2>1. PICK f \in r.findings : ~f.applied /\ f.check = c  BY DEF Live
  <2> QED  BY <1>2, <2>1
<1>5. ASSUME NEW c \in checks, c \notin h.except PROVE c \in Live(r)
  <2> DEFINE f == [check |-> c, applied |-> c \in h.except]
  <2>1. f \in r.findings /\ ~f.applied /\ f.check = c  BY <1>1, <1>3, <1>5
  <2> HIDE DEF f
  <2> QED  BY <2>1 DEF Live
<1> QED  BY <1>4, <1>5

LEMMA ToldEach ==
  ASSUME NEW p, NEW h, NEW r, r.plugin = p,
         Posture!Checks[p] \ Posture!Earned(p, h) \subseteq Live(r) \cup r.unchecked
  PROVE  Tells(r, p, h)
<1>1. Posture!StandsFor(Posture!Checks[p] \ Posture!Earned(p, h))
        \subseteq Posture!StandsFor(Live(r) \cup r.unchecked)
  BY StandsGrow
<1> QED  BY <1>1, StandsSplit DEF Tells

LEMMA ResultHolds ==
  ASSUME NEW p, NEW ok, NEW findings, NEW unchecked
  PROVE  LET r == Posture!Result(p, ok, findings, unchecked) IN
         /\ r.plugin = p /\ r.ok = ok /\ r.findings = findings /\ r.unchecked = unchecked
BY DEF Posture!Result

\* A result whose findings and unchecked checks take in what deviates and is
\* neither documented nor left unsaid.
LEMMA ResultTells ==
  ASSUME NEW p, NEW h, NEW ok, NEW checks, NEW unchecked,
         (Posture!Checks[p] \cap Posture!Deviating(p, h)) \ (h.except \cup Posture!Unsaid(p, h))
           \subseteq checks \cup unchecked
  PROVE  Tells(Posture!Result(p, ok, Posture!Found(h, checks), unchecked), p, h)
<1> DEFINE r == Posture!Result(p, ok, Posture!Found(h, checks), unchecked)
<1>1. r.plugin = p /\ r.findings = Posture!Found(h, checks) /\ r.unchecked = unchecked
  BY ResultHolds
<1>2. Live(r) = checks \ h.except  BY <1>1, LiveFound
<1>3. Posture!Checks[p] \ Posture!Earned(p, h) \subseteq Live(r) \cup r.unchecked
  <2> HIDE DEF r
  <2> QED  BY <1>1, <1>2 DEF Posture!Earned
<1> HIDE DEF r
<1> QED  BY <1>1, <1>3, ToldEach DEF r

LEMMA FailureTells ==
  ASSUME NEW p, NEW h, NEW findings, NEW unchecked
  PROVE  Tells(Posture!Result(p, FALSE, findings, unchecked), p, h)
<1> DEFINE r == Posture!Result(p, FALSE, findings, unchecked)
<1>1. r.plugin = p  BY DEF Posture!Result
<1>2. ~r.ok  BY DEF Posture!Result
<1> HIDE DEF r
<1> QED  BY <1>1, <1>2 DEF Tells, r

LEMMA AuditScanTells ==
  ASSUME NEW h, h.whole \in {"unknown", "absent", "there"},
         h.whole = "there" => "not_installed" \notin h.bad
  PROVE  \A r \in Posture!Scan("audit", h) : Tells(r, "audit", h)
<1>1. Posture!Scan("audit", h) = Posture!AuditScan(h)  BY DEF Posture!Scan
<1>2. Posture!Checks["audit"] = {"not_installed", "not_enabled", "not_running", "rules"}
  BY DEF Posture!Checks, Posture!Plugins, Posture!Table, Posture!Named, Posture!AuditPresence,
     Posture!AuditLoaded
<1>3. Posture!Deviating("audit", h) = h.bad /\ Posture!Unsaid("audit", h) = {}
  BY DEF Posture!Deviating, Posture!Unsaid
<1> DEFINE daemon == (h.bad \cup h.blind) \cap {"not_enabled", "not_running"}
<1>4. Posture!Found(h, {}) = {}  BY DEF Posture!Found
<1>5. CASE h.whole = "unknown"
  <2>1. Posture!AuditScan(h) = {Posture!Result("audit", TRUE, Posture!Found(h, {}),
          Posture!Checks["audit"])}
    BY <1>4, <1>5 DEF Posture!AuditScan
  <2>2. Tells(Posture!Result("audit", TRUE, Posture!Found(h, {}), Posture!Checks["audit"]),
          "audit", h)
    BY ResultTells
  <2> QED  BY <1>1, <2>1, <2>2
<1>6. CASE h.whole = "absent"
  <2>1. Posture!AuditScan(h) = {Posture!Result("audit", TRUE, Posture!Found(h,
          {"not_installed"}), Posture!AuditPostInstall)}
    BY <1>6 DEF Posture!AuditScan
  <2>2. Tells(Posture!Result("audit", TRUE, Posture!Found(h, {"not_installed"}),
          Posture!AuditPostInstall), "audit", h)
    <3>1. Posture!Checks["audit"] \subseteq {"not_installed"} \cup Posture!AuditPostInstall
      BY <1>2 DEF Posture!AuditPostInstall
    <3> QED  BY <3>1, ResultTells
  <2> QED  BY <1>1, <2>1, <2>2
<1>7. CASE h.whole = "there"
  <2>1. Tells(Posture!Result("audit", TRUE, Posture!Found(h, daemon
          \cup (h.bad \cap {"rules"})), {}), "audit", h)
    <3>1. Posture!Checks["audit"] \cap h.bad \subseteq daemon \cup (h.bad \cap {"rules"})
      BY <1>2, <1>7
    <3> HIDE DEF daemon
    <3> QED  BY <1>3, <3>1, ResultTells
  <2>2. Tells(Posture!Result("audit", TRUE, Posture!Found(h, daemon), {"rules"}), "audit", h)
    <3>1. Posture!Checks["audit"] \cap h.bad \subseteq daemon \cup {"rules"}  BY <1>2, <1>7
    <3> HIDE DEF daemon
    <3> QED  BY <1>3, <3>1, ResultTells
  <2>3. Tells(Posture!Result("audit", TRUE, Posture!Found(h, daemon \cup {"rules"}), {}),
          "audit", h)
    <3>1. Posture!Checks["audit"] \cap h.bad \subseteq daemon \cup {"rules"}  BY <1>2, <1>7
    <3> HIDE DEF daemon
    <3> QED  BY <1>3, <3>1, ResultTells
  <2>4. Posture!AuditScan(h) \subseteq
          {Posture!Result("audit", TRUE, Posture!Found(h, daemon \cup (h.bad \cap {"rules"})),
            {}),
           Posture!Result("audit", TRUE, Posture!Found(h, daemon), {"rules"}),
           Posture!Result("audit", TRUE, Posture!Found(h, daemon \cup {"rules"}), {})}
    BY <1>7 DEF Posture!AuditScan
  <2> HIDE DEF daemon
  <2> QED  BY <1>1, <2>1, <2>2, <2>3, <2>4
<1> QED  BY <1>5, <1>6, <1>7

LEMMA KernelScanTells ==
  ASSUME NEW h
  PROVE  \A r \in Posture!Scan("kernel", h) : Tells(r, "kernel", h)
<1> DEFINE found == (h.bad \ h.blind) \cup h.later
           unchecked == h.blind \cup (IF h.whole =
             "unread" THEN Posture!Checks["kernel"] ELSE {})
<1>1. Posture!Scan("kernel", h) = {Posture!Result("kernel", TRUE, Posture!Found(h, found),
        unchecked)}
  BY DEF Posture!Scan, Posture!KernelScan
<1>2. /\ Posture!Deviating("kernel", h) = h.bad \cup h.later \cup h.hidden
      /\ h.whole # "unread" => Posture!Unsaid("kernel", h) = h.hidden
  BY DEF Posture!Deviating, Posture!Unsaid
<1>3. (Posture!Checks["kernel"] \cap Posture!Deviating("kernel", h))
          \ (h.except \cup Posture!Unsaid("kernel", h))
        \subseteq found \cup unchecked
  BY <1>2
<1> HIDE DEF found, unchecked
<1>4. Tells(Posture!Result("kernel", TRUE, Posture!Found(h, found), unchecked), "kernel", h)
  BY <1>3, ResultTells
<1> QED  BY <1>1, <1>4

LEMMA PamScanTells ==
  ASSUME NEW h, h.whole \in {"enforced", "unenforced", "unasked"}
  PROVE  \A r \in Posture!Scan("pam", h) : Tells(r, "pam", h)
<1> DEFINE idle == h.unstacked \cup (IF h.whole = "unenforced" THEN {"PASS_MIN_DAYS"} ELSE {})
           told == (h.bad \ h.blind) \ idle
           r    == Posture!Result("pam", TRUE,
                     Posture!Found(h, told) \cup {[check |-> c,
                       applied |-> FALSE] : c \in idle},
                     h.blind \ idle)
<1>1. Posture!Scan("pam", h) = {r}  BY DEF Posture!Scan, Posture!PamScan
<1>2. (Posture!Checks["pam"] \cap Posture!Deviating("pam", h)) \ (h.except
        \cup Posture!Unsaid("pam", h))
        \subseteq (told \ h.except) \cup idle \cup (h.blind \ idle)
  BY DEF Posture!Deviating, Posture!Unsaid
<1>3. Live(r) = (told \ h.except) \cup idle
  <2> HIDE DEF told, idle
  <2> DEFINE q == [findings |-> Posture!Found(h, told)]
  <2>1. Live(q) = told \ h.except  BY LiveFound
  <2>2. \A f \in r.findings : f \in q.findings \/ \E c \in idle : f = [check |-> c,
          applied |-> FALSE]
    BY DEF Posture!Result
  <2>3. \A c \in idle : [check |-> c, applied |-> FALSE] \in r.findings  BY DEF Posture!Result
  <2>4. q.findings \subseteq r.findings  BY DEF Posture!Result
  <2>5. \A c : LET f == [check |-> c, applied |-> FALSE] IN f.check = c /\ ~f.applied  OBVIOUS
  <2>6. ASSUME NEW c \in Live(r) PROVE c \in Live(q) \cup idle
    <3>1. PICK f \in r.findings : ~f.applied /\ f.check = c  BY <2>6 DEF Live
    <3>2. CASE f \in q.findings  BY <3>1, <3>2 DEF Live
    <3>3. CASE \E d \in idle : f = [check |-> d, applied |-> FALSE]  BY <3>1, <3>3, <2>5
    <3> QED  BY <2>2, <3>2, <3>3
  <2>7. ASSUME NEW c \in idle PROVE c \in Live(r)
    <3> DEFINE f == [check |-> c, applied |-> FALSE]
    <3>1. f \in r.findings /\ f.check = c /\ ~f.applied  BY <2>3, <2>5
    <3> HIDE DEF f, r
    <3> QED  BY <3>1 DEF Live
  <2>8. Live(q) \subseteq Live(r)  BY <2>4 DEF Live
  <2> HIDE DEF q, r
  <2> QED  BY <2>1, <2>6, <2>7, <2>8
<1>4. r.plugin = "pam" /\ r.unchecked = h.blind \ idle
  <2> HIDE DEF told, idle
  <2> QED  BY DEF Posture!Result
<1>5. Posture!Checks["pam"] \ Posture!Earned("pam", h) \subseteq Live(r) \cup r.unchecked
  <2> HIDE DEF r, told, idle
  <2> QED  BY <1>2, <1>3, <1>4 DEF Posture!Earned
<1>6. Tells(r, "pam", h)
  <2> HIDE DEF r
  <2> QED  BY <1>4, <1>5, ToldEach
<1> HIDE DEF r
<1> QED  BY <1>1, <1>6

LEMMA MacScanTells ==
  ASSUME NEW h, h.whole \in {"undetected", "none", "selinux", "apparmor"},
         h.whole = "selinux" => h.bad \subseteq {"selinux-not-enforcing"},
         h.whole = "apparmor"
           => h.bad \subseteq {"apparmor-complain-mode", "apparmor-no-profiles"}
  PROVE  \A r \in Posture!Scan("mac", h) : Tells(r, "mac", h)
<1> DEFINE modes == {"selinux-not-enforcing", "apparmor-complain-mode", "apparmor-no-profiles"}
<1>1. Posture!Scan("mac", h) = Posture!MacScan(h)  BY DEF Posture!Scan
<1>2. Posture!Checks["mac"] = {"no-mac-system"} \cup modes /\ Posture!Named(Posture!MacMode) =
        modes
  BY DEF Posture!Checks, Posture!Plugins, Posture!Table, Posture!Named, Posture!MacPresence,
     Posture!MacMode
<1>3. Posture!Found(h, {}) = {}  BY DEF Posture!Found
<1>4. Posture!Unsaid("mac", h) = IF Posture!Mute(h) THEN modes ELSE {}
  BY <1>2 DEF Posture!Unsaid
<1>5. CASE h.whole = "undetected"
  <2>1. Posture!MacScan(h) = {Posture!Result("mac", TRUE, Posture!Found(h, {}),
          {"no-mac-system"})}
    BY <1>3, <1>5 DEF Posture!MacScan
  <2>2. (Posture!Checks["mac"] \cap Posture!Deviating("mac", h)) \ (h.except
          \cup Posture!Unsaid("mac", h))
          \subseteq {} \cup {"no-mac-system"}
    BY <1>2, <1>4, <1>5 DEF Posture!Mute
  <2>3. Tells(Posture!Result("mac", TRUE, Posture!Found(h, {}), {"no-mac-system"}), "mac", h)
    BY <2>2, ResultTells
  <2> QED  BY <1>1, <2>1, <2>3
<1>6. CASE h.whole = "none"
  <2>1. Posture!MacScan(h) = {Posture!Result("mac", TRUE, Posture!Found(h, {"no-mac-system"}),
          Posture!Named(Posture!MacMode))}
    BY <1>6 DEF Posture!MacScan
  <2>2. Posture!Checks["mac"] \subseteq {"no-mac-system"} \cup Posture!Named(Posture!MacMode)
    BY <1>2
  <2>3. Tells(Posture!Result("mac", TRUE, Posture!Found(h, {"no-mac-system"}),
          Posture!Named(Posture!MacMode)), "mac", h)
    BY <2>2, ResultTells
  <2> QED  BY <1>1, <2>1, <2>3
<1>7. h.whole # "none" => Posture!Deviating("mac", h) = h.bad  BY DEF Posture!Deviating
<1>8. CASE h.whole \in {"selinux", "apparmor"} /\ h.blind = {}
  <2>1. Posture!MacScan(h) = {Posture!Result("mac", TRUE, Posture!Found(h, h.bad \cap modes),
          {})}
    BY <1>2, <1>8 DEF Posture!MacScan
  <2>2. h.bad \subseteq modes  BY <1>8
  <2>3. Posture!Checks["mac"] \cap Posture!Deviating("mac", h)
          \subseteq (h.bad \cap modes) \cup {}
    BY <1>7, <1>8, <2>2
  <2>4. Tells(Posture!Result("mac", TRUE, Posture!Found(h, h.bad \cap modes), {}), "mac", h)
    BY <2>3, ResultTells
  <2> QED  BY <1>1, <2>1, <2>4
<1>9. CASE h.whole \in {"selinux", "apparmor"} /\ Posture!Mute(h)
  <2>1. h.bad \subseteq modes  BY <1>9
  <2>2. (Posture!Checks["mac"] \cap Posture!Deviating("mac", h)) \ (h.except
          \cup Posture!Unsaid("mac", h)) = {}
    BY <1>4, <1>7, <1>9, <2>1
  <2>3. Posture!MacScan(h) \subseteq {Posture!Result("mac", TRUE, Posture!Found(h, {}), {}),
                              Posture!Result("mac", TRUE, Posture!Found(h, {}),
                                {"apparmor-no-profiles"})}
    BY <1>3, <1>9 DEF Posture!MacScan, Posture!Mute
  <2>4. \A unchecked : Tells(Posture!Result("mac", TRUE, Posture!Found(h, {}), unchecked),
          "mac", h)
    BY <2>2, ResultTells
  <2> QED  BY <1>1, <2>3, <2>4
<1>10. CASE h.whole = "apparmor" /\ h.blind # {} /\ ~Posture!Mute(h)
  <2> DEFINE r == Posture!Result("mac", TRUE, {}, {"apparmor-no-profiles"})
             lost == Posture!Checks["mac"] \ Posture!Earned("mac", h)
  <2>1. h.blind = {"refused"}  BY <1>10 DEF Posture!Mute
  <2>2. Posture!MacScan(h) = {r}  BY <1>10, <2>1 DEF Posture!MacScan
  <2>3. r.plugin = "mac" /\ r.unchecked = {"apparmor-no-profiles"}  BY DEF Posture!Result
  <2>4. lost \subseteq {"apparmor-complain-mode"} \cup {"apparmor-no-profiles"}
    BY <1>7, <1>10 DEF Posture!Earned
  <2>5. Posture!StandsFor(lost) \subseteq Posture!StandsFor({"apparmor-no-profiles"})
    <3> HIDE DEF lost
    <3>1. Posture!StandsFor(lost)
            \subseteq Posture!StandsFor({"apparmor-complain-mode"}
              \cup {"apparmor-no-profiles"})
      BY <2>4, StandsGrow
    <3> QED  BY <3>1, StandsSplit, MacStandsAlike
  <2>6. Tells(r, "mac", h)
    <3> HIDE DEF r
    <3> QED  BY <2>3, <2>5 DEF Tells
  <2> HIDE DEF r
  <2> QED  BY <1>1, <2>2, <2>6
<1>11. h.whole = "selinux" => h.blind = {} \/ Posture!Mute(h)  BY DEF Posture!Mute
<1> QED  BY <1>5, <1>6, <1>8, <1>9, <1>10, <1>11

LEMMA PlainScanTells ==
  ASSUME NEW h
  PROVE  /\ \A r \in Posture!Scan("permissions", h) : Tells(r, "permissions", h)
         /\ \A r \in Posture!Scan("services", h) : Tells(r, "services", h)
         /\ h.whole \in {"read", "refused", "failed"}
              => \A r \in Posture!Scan("ssh", h) : Tells(r, "ssh", h)
<1>1. Posture!Found(h, {}) = {}  BY DEF Posture!Found
<1>2. \A p \in {"permissions", "services", "ssh"} : Posture!Deviating(p, h) = h.bad
  BY DEF Posture!Deviating
<1>3. \A r \in Posture!Scan("permissions", h) : Tells(r, "permissions", h)
  <2> DEFINE told == h.bad \ h.blind
  <2>1. Posture!Scan("permissions", h) =
          {Posture!Result("permissions", TRUE, Posture!Found(h, told \ h.fat), h.blind
            \cup (told \cap h.fat))}
    BY DEF Posture!Scan, Posture!PermissionScan
  <2>2. Posture!Checks["permissions"] \cap Posture!Deviating("permissions", h)
          \subseteq (told \ h.fat) \cup (h.blind \cup (told \cap h.fat))
    BY <1>2
  <2> HIDE DEF told
  <2>3. Tells(Posture!Result("permissions", TRUE, Posture!Found(h, told \ h.fat), h.blind
          \cup (told \cap h.fat)),
              "permissions", h)
    BY <2>2, ResultTells
  <2> QED  BY <2>1, <2>3
<1>4. \A r \in Posture!Scan("services", h) : Tells(r, "services", h)
  <2>1. Tells(Posture!Result("services", TRUE, Posture!Found(h, h.bad), {}), "services", h)
    BY <1>2, ResultTells
  <2>2. Posture!Scan("services", h) \in {{Posture!Result("services", FALSE, {},
          Posture!Checks["services"])},
                                 {Posture!Result("services", TRUE, Posture!Found(h, h.bad),
                                   {})}}
    BY DEF Posture!Scan, Posture!ServiceScan
  <2>3. Tells(Posture!Result("services", FALSE, {}, Posture!Checks["services"]), "services", h)
    BY FailureTells
  <2> QED  BY <2>1, <2>2, <2>3
<1>5. ASSUME h.whole \in {"read", "refused", "failed"}
      PROVE  \A r \in Posture!Scan("ssh", h) : Tells(r, "ssh", h)
  <2>1. Tells(Posture!Result("ssh", TRUE, Posture!Found(h, h.bad), {}), "ssh", h)
    BY <1>2, ResultTells
  <2>2. Tells(Posture!Result("ssh", TRUE, Posture!Found(h, {}), Posture!Checks["ssh"]), "ssh",
          h)
    BY ResultTells
  <2>3. Posture!Scan("ssh", h) \in {{Posture!Result("ssh", FALSE, {}, Posture!Checks["ssh"])},
                            {Posture!Result("ssh", TRUE, Posture!Found(h, {}),
                              Posture!Checks["ssh"])},
                            {Posture!Result("ssh", TRUE, Posture!Found(h, h.bad), {})}}
    BY <1>1, <1>5 DEF Posture!Scan, Posture!SshScan
  <2>4. Tells(Posture!Result("ssh", FALSE, {}, Posture!Checks["ssh"]), "ssh", h)
    BY FailureTells
  <2> QED  BY <2>1, <2>2, <2>3, <2>4
<1> QED  BY <1>3, <1>4, <1>5

LEMMA FirewallScanTells ==
  ASSUME NEW h, h.backends \in Seq(Posture!Backend)
  PROVE  \A r \in Posture!Scan("firewall", h) : Tells(r, "firewall", h)
<1> DEFINE w == Posture!Winner(h.backends)
           b == h.backends[w]
           lost == Posture!Checks["firewall"] \ Posture!Earned("firewall", h)
           running == {i \in DOMAIN h.backends : Posture!Activity(h.backends[i]) \in {"verified", "unverified"}}
           on == {i \in DOMAIN h.backends : h.backends[i].active}
<1>1. Posture!Scan("firewall", h) = Posture!FirewallScan(h)  BY DEF Posture!Scan
<1>2. Posture!Checks["firewall"] = {"disabled", "not-at-boot"}
  <2>1. Posture!Checks["firewall"] = Posture!Named(Posture!FirewallControls)
    BY DEF Posture!Checks, Posture!Plugins, Posture!Table
  <2>2. ASSUME NEW c PROVE c \in Posture!Named(Posture!FirewallControls) <=> c \in {"disabled",
                 "not-at-boot"}
    BY ChecksNamed DEF Posture!Named
  <2> QED  BY <2>1, <2>2
<1>3. Posture!Found(h, {}) = {}  BY DEF Posture!Found
<1>4. w = 0 \/ w \in running
  <2>1. CASE running = {}  BY <2>1 DEF Posture!Winner
  <2>2. CASE running # {}
    <3>1. DOMAIN h.backends = 1 .. Len(h.backends) /\ Len(h.backends) \in Nat  OBVIOUS
    <3>2. running \subseteq Nat  BY <3>1
    <3>3. PICK i \in running : \A j \in running : i <= j
      BY <2>2, <3>2, LeastNatural
    <3>4. w = CHOOSE k \in running : \A j \in running : k <= j  BY <2>2 DEF Posture!Winner
    <3> HIDE DEF running
    <3> QED  BY <3>3, <3>4
  <2> QED  BY <2>1, <2>2
<1>5. ASSUME NEW findings, NEW unchecked, NEW c \in {"disabled", "not-at-boot"}, c \in unchecked
      PROVE  Tells(Posture!Result("firewall", TRUE, findings, unchecked), "firewall", h)
  <2> DEFINE r == Posture!Result("firewall", TRUE, findings, unchecked)
  <2>1. r.plugin = "firewall" /\ r.unchecked = unchecked  BY DEF Posture!Result
  <2>2. lost \subseteq {"disabled"} \cup {"not-at-boot"}  BY <1>2
  <2>3. Posture!StandsFor(lost) \subseteq Posture!StandsFor({c})
    <3> HIDE DEF lost
    <3>1. Posture!StandsFor(lost) \subseteq Posture!StandsFor({"disabled"} \cup {"not-at-boot"})
      BY <2>2, StandsGrow
    <3> QED  BY <3>1, StandsSplit, FirewallStandsAlike
  <2>4. Posture!StandsFor({c}) \subseteq Posture!StandsFor(unchecked)  BY <1>5, StandsGrow
  <2> HIDE DEF r, lost
  <2> QED  BY <2>1, <2>3, <2>4 DEF Tells, r, lost
<1>6. CASE h.whole = "unlisted" \/ h.backends = <<>>
  <2>1. Posture!FirewallScan(h) = {Posture!Result("firewall", FALSE, {}, {})}
    BY <1>6 DEF Posture!FirewallScan
  <2>2. Tells(Posture!Result("firewall", FALSE, {}, {}), "firewall", h)  BY FailureTells
  <2> QED  BY <1>1, <2>1, <2>2
<1>7. CASE ~(h.whole = "unlisted" \/ h.backends = <<>>) /\ w = 0 /\ Posture!Silent(h)
  <2>1. Posture!FirewallScan(h) = {Posture!Result("firewall", TRUE, Posture!Found(h,
          {"disabled"}), {})}
    BY <1>7 DEF Posture!FirewallScan
  <2>2. on # {} => Posture!Misjudged(h)
    <3> SUFFICES ASSUME NEW i \in DOMAIN h.backends, h.backends[i].active
                 PROVE  h.backends[i].asked = "fails"
      BY DEF Posture!Misjudged
    <3>1. h.backends[i] \in Posture!Backend  OBVIOUS
    <3>2. Posture!Activity(h.backends[i]) = "inactive"  BY <1>7 DEF Posture!Silent
    <3> QED  BY <3>1, <3>2 DEF Posture!Activity, Posture!Backend
  <2>3. Posture!Deviating("firewall", h) \ Posture!Unsaid("firewall", h) \subseteq {"disabled"}
    BY <2>2 DEF Posture!Deviating, Posture!Unsaid
  <2>4. Tells(Posture!Result("firewall", TRUE, Posture!Found(h, {"disabled"}), {}), "firewall",
          h)
    BY <2>3, ResultTells
  <2> QED  BY <1>1, <2>1, <2>4
<1>8. CASE ~(h.whole = "unlisted" \/ h.backends = <<>>)
           /\ ((w = 0 /\ ~Posture!Silent(h)) \/ (w # 0 /\ Posture!Activity(b) = "unverified"))
  <2>1. Posture!FirewallScan(h) = {Posture!Result("firewall", TRUE, {}, {"disabled"})}
    BY <1>8 DEF Posture!FirewallScan
  <2>2. Tells(Posture!Result("firewall", TRUE, {}, {"disabled"}), "firewall", h)  BY <1>5
  <2> QED  BY <1>1, <2>1, <2>2
<1>9. CASE ~(h.whole = "unlisted" \/ h.backends = <<>>) /\ w # 0
        /\ Posture!Activity(b) # "unverified"
  <2>1. w \in DOMAIN h.backends /\ Posture!Activity(b) = "verified" /\ b \in Posture!Backend
    BY <1>4, <1>9
  <2>2. w \in on  BY <2>1 DEF Posture!Activity, Posture!Backend
  <2>3. CASE ~b.told
    <3>1. Posture!FirewallScan(h) = {Posture!Result("firewall", TRUE, {}, {"not-at-boot"})}
      BY <1>9, <2>3 DEF Posture!FirewallScan
    <3>2. Tells(Posture!Result("firewall", TRUE, {}, {"not-at-boot"}), "firewall", h)  BY <1>5
    <3> QED  BY <1>1, <3>1, <3>2
  <2>4. CASE b.told /\ ~b.boot
    <3>1. Posture!FirewallScan(h) = {Posture!Result("firewall", TRUE, Posture!Found(h,
            {"not-at-boot"}), {})}
      BY <1>9, <2>4 DEF Posture!FirewallScan
    <3>2. Posture!Deviating("firewall", h) \subseteq {"not-at-boot"}
      BY <2>2 DEF Posture!Deviating
    <3>3. Tells(Posture!Result("firewall", TRUE, Posture!Found(h, {"not-at-boot"}), {}),
            "firewall", h)
      BY <3>2, ResultTells
    <3> QED  BY <1>1, <3>1, <3>3
  <2>5. CASE b.told /\ b.boot
    <3>1. Posture!FirewallScan(h) = {Posture!Result("firewall", TRUE, Posture!Found(h, {}), {})}
      BY <1>3, <1>9, <2>5 DEF Posture!FirewallScan
    <3>2. Posture!Deviating("firewall", h) = {}  BY <2>2, <2>5 DEF Posture!Deviating
    <3>3. Tells(Posture!Result("firewall", TRUE, Posture!Found(h, {}), {}), "firewall", h)
      BY <3>2, ResultTells
    <3> QED  BY <1>1, <3>1, <3>3
  <2>6. b.told \in BOOLEAN /\ b.boot \in BOOLEAN  BY <2>1 DEF Posture!Backend
  <2> QED  BY <2>3, <2>4, <2>5, <2>6
<1> QED  BY <1>6, <1>7, <1>8, <1>9

LEMMA ScanTells ==
  ASSUME NEW h, Posture!Possible(h), NEW p \in Posture!Plugins
  PROVE  \A r \in Posture!Scan(p, h[p]) : Tells(r, p, h[p])
<1>1. CASE p = "audit"  BY <1>1, AuditScanTells DEF Posture!Possible
<1>2. CASE p = "firewall"  BY <1>2, FirewallScanTells DEF Posture!Possible
<1>3. CASE p = "kernel"  BY <1>3, KernelScanTells DEF Posture!Possible
<1>4. CASE p = "mac"  BY <1>4, MacScanTells DEF Posture!Possible
<1>5. CASE p = "pam"  BY <1>5, PamScanTells DEF Posture!Possible
<1>6. CASE p \in {"permissions", "services", "ssh"}
  BY <1>6, PlainScanTells DEF Posture!Possible
<1> QED  BY <1>1, <1>2, <1>3, <1>4, <1>5, <1>6 DEF Posture!Plugins

\* Nothing in a run's results is silent of a check that the run has not earned.
PostureInv ==
    /\ Posture!Possible(host)
    /\ call.pc \in {"idle", "scan", "done"}
    /\ call.step \in 0 .. (Len(Posture!Registry) + 1)
    /\ call.pc = "scan" => call.step # 0
    /\ call.earned \subseteq Posture!Named(Posture!Stands)
    /\ \A r \in call.results : Accounts(r, call.earned)
    /\ left \in 0 .. PostureParams.MaxChanges

LEMMA RegistryHolds ==
  /\ Len(Posture!Registry) = 8
  /\ DOMAIN Posture!Registry = 1 .. 8
  /\ \A i \in 1 .. 8 : Posture!Registry[i] \in Posture!Plugins
  /\ \A p \in Posture!Plugins : Posture!Checks[p] \subseteq Posture!Named(Posture!Stands)
<1>1. Len(Posture!Registry) = 8 /\ DOMAIN Posture!Registry = 1 .. 8  BY DEF Posture!Registry
<1>2. \A i \in 1 .. 8 : Posture!Registry[i] \in Posture!Plugins
  <2> SUFFICES ASSUME NEW i \in 1 .. 8 PROVE Posture!Registry[i] \in Posture!Plugins  OBVIOUS
  <2>1. i = 1 \/ i = 2 \/ i = 3 \/ i = 4 \/ i = 5 \/ i = 6 \/ i = 7 \/ i = 8  OBVIOUS
  <2> QED  BY <2>1 DEF Posture!Registry, Posture!Plugins
<1>3. \A p \in Posture!Plugins : Posture!Checks[p] \subseteq Posture!Named(Posture!Stands)
  BY DEF Posture!Checks, Posture!Named, Posture!Stands
<1> QED  BY <1>1, <1>2, <1>3

LEMMA AccountsGrow ==
  ASSUME NEW r, NEW E, NEW F, E \subseteq F, Accounts(r, E)
  PROVE  Accounts(r, F)
<1>1. Posture!StandsFor(Posture!Checks[r.plugin] \ F)
        \subseteq Posture!StandsFor(Posture!Checks[r.plugin] \ E)
  <2>1. Posture!Checks[r.plugin] \ F \subseteq Posture!Checks[r.plugin] \ E  OBVIOUS
  <2> QED  BY <2>1, StandsGrow
<1> QED  BY <1>1 DEF Accounts

LEMMA PostureBegins ==
  ASSUME Posture!PostureAssumption, Posture!Init
  PROVE  PostureInv
BY RegistryHolds DEF Posture!Init, Posture!Idle, PostureInv, Posture!PostureAssumption

LEMMA PostureSteps ==
  ASSUME Posture!PostureAssumption, PostureInv, Posture!Next
  PROVE  PostureInv'
<1>1. CASE Posture!Begin
  <2>1. PICK selection \in PostureParams.Selections :
          call' = [Posture!Idle EXCEPT !.pc = "scan", !.step = 1, !.of = selection]
    BY <1>1 DEF Posture!Begin
  <2>2. call'.pc = "scan" /\ call'.step = 1 /\ call'.earned = {} /\ call'.results = {}
    BY <2>1 DEF Posture!Idle
  <2> QED  BY <1>1, <2>2, RegistryHolds DEF Posture!Begin, PostureInv
<1>2. CASE Posture!PassBy
  <2> DEFINE results == IF Posture!Now \in call.of.off /\ call.of.marked
                        THEN call.results \cup {Posture!Marker(Posture!Now)} ELSE call.results
  <2>1. call' = [call EXCEPT !.step = call.step + 1, !.results = results]
        /\ host' = host /\ left' = left /\ call.pc = "scan"
             /\ call.step \in DOMAIN Posture!Registry
    BY <1>2 DEF Posture!PassBy, Posture!Due
  <2>2. Accounts(Posture!Marker(Posture!Now), call.earned)
    <3>1. Posture!Now \in Posture!Plugins  BY <2>1, RegistryHolds DEF Posture!Now
    <3>2. Posture!Marker(Posture!Now).plugin = Posture!Now /\ Posture!Marker(Posture!Now).marker
      BY DEF Posture!Marker, Posture!Result
    <3> QED  BY <3>1, <3>2 DEF Accounts
  <2>3. \A r \in results : Accounts(r, call.earned)  BY <2>2 DEF PostureInv
  <2> HIDE DEF results
  <2>4. call'.pc = call.pc /\ call'.step = call.step + 1 /\ call'.earned = call.earned
        /\ call'.results = results
    BY <2>1
  <2> QED  BY <2>1, <2>3, <2>4, RegistryHolds DEF PostureInv
<1>3. CASE Posture!ScanPlugin
  <2>1. PICK r \in Posture!Scan(Posture!Now, host[Posture!Now]) :
          call' = [call EXCEPT !.step = @ + 1, !.results = @ \cup {r},
                               !.earned = @ \cup Posture!Earned(Posture!Now, host[Posture!Now])]
    BY <1>3 DEF Posture!ScanPlugin
  <2> DEFINE earned == call.earned \cup Posture!Earned(Posture!Now, host[Posture!Now])
  <2>2. host' = host /\ left' = left /\ call.pc = "scan"
          /\ call.step \in DOMAIN Posture!Registry
    BY <1>3 DEF Posture!ScanPlugin, Posture!Runs, Posture!Due
  <2>3. Posture!Now \in Posture!Plugins  BY <2>2, RegistryHolds DEF Posture!Now
  <2>4. Tells(r, Posture!Now, host[Posture!Now])  BY <2>3, ScanTells DEF PostureInv
  <2>5. Accounts(r, Posture!Earned(Posture!Now, host[Posture!Now]))
    BY <2>3, <2>4 DEF Tells, Accounts
  <2>6. \A q \in call.results \cup {r} : Accounts(q, earned)
    BY <2>5, AccountsGrow DEF PostureInv
  <2>7. earned \subseteq Posture!Named(Posture!Stands)
    BY <2>3, RegistryHolds DEF PostureInv, Posture!Earned
  <2>8. call'.pc = call.pc /\ call'.step = call.step + 1 /\ call'.earned = earned
        /\ call'.results = call.results \cup {r}
    BY <2>1
  <2> HIDE DEF earned
  <2> QED  BY <2>2, <2>6, <2>7, <2>8, RegistryHolds DEF PostureInv
<1>4. CASE Posture!ScanFails
  <2>1. call' = [call EXCEPT !.step = @ + 1, !.results = @
          \cup {Posture!FailedScan(Posture!Now)}]
        /\ host' = host /\ left > 0 /\ left' = left - 1
        /\ call.pc = "scan" /\ call.step \in DOMAIN Posture!Registry
    BY <1>4 DEF Posture!ScanFails, Posture!Runs, Posture!Due
  <2>2. Accounts(Posture!FailedScan(Posture!Now), call.earned)
    <3>1. Posture!Now \in Posture!Plugins  BY <2>1, RegistryHolds DEF Posture!Now
    <3>2. Posture!FailedScan(Posture!Now).plugin = Posture!Now
            /\ ~Posture!FailedScan(Posture!Now).ok  BY DEF Posture!FailedScan, Posture!Result
    <3> QED  BY <3>1, <3>2 DEF Accounts
  <2>3. \A r \in call.results \cup {Posture!FailedScan(Posture!Now)} : Accounts(r, call.earned)
    BY <2>2 DEF PostureInv
  <2>4. call'.pc = call.pc /\ call'.step = call.step + 1 /\ call'.earned = call.earned
        /\ call'.results = call.results \cup {Posture!FailedScan(Posture!Now)}
    BY <2>1
  <2> QED  BY <2>1, <2>3, <2>4, RegistryHolds DEF PostureInv, Posture!PostureAssumption
<1>5. CASE Posture!HostChanges
  <2>1. host' \in PostureParams.Hosts \cup {PostureParams.Clean} /\ left > 0 /\ left' = left - 1
          /\ call' = call
    BY <1>5 DEF Posture!HostChanges
  <2> QED  BY <2>1 DEF PostureInv, Posture!PostureAssumption
<1>6. CASE Posture!Report
  <2>1. PICK request \in PostureParams.Requests : call' = [call EXCEPT !.pc = "done",
          !.request = request]
    BY <1>6 DEF Posture!Report
  <2>2. host' = host /\ left' = left  BY <1>6 DEF Posture!Report
  <2>3. call'.pc = "done" /\ call'.step = call.step /\ call'.earned = call.earned
        /\ call'.results = call.results
    BY <2>1
  <2> QED  BY <2>2, <2>3 DEF PostureInv
<1> QED  BY <1>1, <1>2, <1>3, <1>4, <1>5, <1>6 DEF Posture!Next

\* What the evidence of a run's results leaves neither found nor unchecked is earned.
LEMMA EvidenceTells ==
  ASSUME NEW results, NEW skipped, NEW earned,
         \A r \in results : Accounts(r, earned)
  PROVE  LET e == Posture!Flatten(results, skipped) IN
         Posture!StandsFor(Posture!Named(Posture!Stands) \ earned)
           \subseteq e.live \cup e.unchecked
<1> DEFINE e == Posture!Flatten(results, skipped)
           ran == {r \in results : ~r.marker}
           off == {r.plugin : r \in results \ ran}
           bad == {r.plugin : r \in {r \in ran : ~r.ok}}
           absent == Posture!Plugins \ {r.plugin : r \in results}
           live == UNION {Posture!StandsFor({f.check : f \in {f \in r.findings : ~f.applied}}) : r \in ran}
           seen == UNION ({Posture!StandsFor(r.unchecked) : r \in ran}
                            \cup {Posture!StandIn(p) : p \in off \cup bad
                              \cup (absent \cap skipped)}
                            \cup {Posture!StandIn(p) : p \in absent \ skipped})
<1>1. e.live = live /\ e.unchecked = seen
  <2>1. e = [live |-> live, unchecked |-> seen]  BY Zenon DEF Posture!Flatten
  <2> HIDE DEF e, live, seen
  <2> QED  BY <2>1
<1>2. SUFFICES ASSUME NEW k \in Posture!StandsFor(Posture!Named(Posture!Stands) \ earned)
               PROVE  k \in live \cup seen
  <2> HIDE DEF live, seen, e
  <2> QED  BY <1>1 DEF e
<1>3. PICK row \in Posture!Stands : row[1] \notin earned /\ k \in row[2]
  BY DEF Posture!StandsFor
<1>4. PICK p \in Posture!Plugins : row \in Posture!Table(p)  BY DEF Posture!Stands
<1>5. k \in Posture!StandsFor(Posture!Checks[p] \ earned) /\ k \in Posture!StandIn(p)
  <2>1. row[1] \in Posture!Checks[p]  BY <1>4 DEF Posture!Checks, Posture!Named
  <2> QED  BY <1>3, <2>1 DEF Posture!StandsFor, Posture!StandIn
<1>6. CASE p \in absent
  <2> HIDE DEF absent, off, bad
  <2> QED  BY <1>5, <1>6
<1>7. CASE p \notin absent
  <2>1. PICK r \in results : r.plugin = p  BY <1>4, <1>7
  <2>2. CASE r.marker
    <3>1. p \in off  BY <2>1, <2>2
    <3> HIDE DEF off, bad, absent
    <3> QED  BY <1>5, <3>1
  <2>3. CASE ~r.marker /\ ~r.ok
    <3>1. p \in bad  BY <2>1, <2>3
    <3> HIDE DEF off, bad, absent
    <3> QED  BY <1>5, <3>1
  <2>4. CASE ~r.marker /\ r.ok
    <3>1. r \in ran  BY <2>4
    <3>2. k \in Posture!StandsFor(Live(r)) \cup Posture!StandsFor(r.unchecked)
      BY <1>5, <2>1, <2>4 DEF Accounts
    <3> HIDE DEF ran
    <3>3. Posture!StandsFor(Live(r)) \subseteq live /\ Posture!StandsFor(r.unchecked)
            \subseteq seen
      BY <3>1 DEF Live
    <3> QED  BY <3>2, <3>3
  <2> QED  BY <2>2, <2>3, <2>4
<1> QED  BY <1>6, <1>7

\* Renumbering more controls gives more, and takes a union apart.
LEMMA TranslateGrows ==
  ASSUME NEW profile, NEW A, NEW B, A \subseteq B
  PROVE  Posture!Translate(profile, A) \subseteq Posture!Translate(profile, B)
BY DEF Posture!Translate

LEMMA TranslateSplits ==
  ASSUME NEW profile, NEW A, NEW B
  PROVE  Posture!Translate(profile, A \cup B) = Posture!Translate(profile, A)
           \cup Posture!Translate(profile, B)
BY DEF Posture!Translate

\* What no check covers keeps a number of its own.
LEMMA StigAside ==
  \A row \in Posture!Rhel10Stig : row[2] \cap Posture!CuratedISO = {}
BY DEF Posture!Rhel10Stig, Posture!CuratedISO, Posture!OrganizationalAndPeople,
   Posture!PhysicalAndTechnological
LEMMA HostAside ==
  \A row \in Posture!Rhel10CisHost : row[2] \cap Posture!CuratedISO = {}
BY DEF Posture!Rhel10CisHost, Posture!CuratedISO, Posture!OrganizationalAndPeople,
   Posture!PhysicalAndTechnological
LEMMA AccessAside ==
  \A row \in Posture!Rhel10CisAccess : row[2] \cap Posture!CuratedISO = {}
BY DEF Posture!Rhel10CisAccess, Posture!CuratedISO, Posture!OrganizationalAndPeople,
   Posture!PhysicalAndTechnological

LEMMA StigApart ==
  \A row, other \in Posture!Rhel10Stig : row[2] \cap other[2] # {} => row[1] = other[1]
BY DEF Posture!Rhel10Stig
LEMMA HostApart ==
  \A row, other \in Posture!Rhel10CisHost : row[2] \cap other[2] # {} => row[1] = other[1]
BY DEF Posture!Rhel10CisHost
LEMMA AccessApart ==
  \A row, other \in Posture!Rhel10CisAccess : row[2] \cap other[2] # {} => row[1] = other[1]
BY DEF Posture!Rhel10CisAccess
LEMMA TablesApart ==
  /\ \A row \in Posture!Rhel10Stig : \A other \in Posture!Rhel10CisHost : row[2] \cap other[2] =
       {}
  /\ \A row \in Posture!Rhel10Stig : \A other \in Posture!Rhel10CisAccess : row[2] \cap other[2] = {}
  /\ \A row \in Posture!Rhel10CisHost : \A other \in Posture!Rhel10CisAccess : row[2] \cap other[2] = {}
<1>1. \A row \in Posture!Rhel10Stig : \A other \in Posture!Rhel10CisHost : row[2] \cap other[2] = {}
  BY DEF Posture!Rhel10Stig, Posture!Rhel10CisHost
<1>2. \A row \in Posture!Rhel10Stig : \A other \in Posture!Rhel10CisAccess : row[2] \cap other[2] = {}
  BY DEF Posture!Rhel10Stig, Posture!Rhel10CisAccess
<1>3. \A row \in Posture!Rhel10CisHost : \A other \in Posture!Rhel10CisAccess : row[2] \cap other[2] = {}
  BY DEF Posture!Rhel10CisHost, Posture!Rhel10CisAccess
<1> QED  BY <1>1, <1>2, <1>3

LEMMA Hundred ==
  ASSUME NEW a \in Nat, NEW m \in Nat \ {0}, a \div m = 100
  PROVE  100 * m <= a
OBVIOUS

LEMMA UnassessedAside ==
  ASSUME NEW profile
  PROVE  Posture!Translate(profile, Posture!Coverage) \cap Posture!Translate(profile,
           Posture!Unassessed) = {}
<1>1. Posture!Unassessed \cap Posture!Coverage = {}
        /\ Posture!CuratedISO \cap Posture!Unassessed = Posture!CuratedISO \ Posture!Coverage
  BY DEF Posture!Unassessed
<1>2. \A row \in Posture!Rhel10 : row[2] \cap Posture!CuratedISO = {}
  BY StigAside, HostAside, AccessAside DEF Posture!Rhel10
<1>3. ASSUME NEW row \in Posture!Rhel10, NEW other \in Posture!Rhel10, row[2] \cap other[2] # {}
      PROVE  row[1] = other[1]
  BY <1>3, StigApart, HostApart, AccessApart, TablesApart DEF Posture!Rhel10
<1>4. ASSUME NEW k \in Posture!Translate(profile, Posture!Coverage),
               k \in Posture!Translate(profile, Posture!Unassessed)
      PROVE  FALSE
  <2>1. CASE profile = "generic"  BY <1>1, <1>4, <2>1 DEF Posture!Translate
  <2>2. CASE profile # "generic"
    <3>1. k \in Posture!Coverage \cap Posture!CuratedISO \/ \E row \in Posture!Rhel10 : row[1] \in Posture!Coverage /\ k \in row[2]
      BY <1>4, <2>2 DEF Posture!Translate
    <3>2. k \in Posture!Unassessed \cap Posture!CuratedISO \/ \E row \in Posture!Rhel10 : row[1] \in Posture!Unassessed /\ k \in row[2]
      BY <1>4, <2>2 DEF Posture!Translate
    <3>3. CASE k \in Posture!CuratedISO  BY <1>1, <1>2, <3>1, <3>2, <3>3
    <3>4. CASE k \notin Posture!CuratedISO
      <4>1. PICK row \in Posture!Rhel10 : row[1] \in Posture!Coverage /\ k \in row[2]
        BY <3>1, <3>4
      <4>2. PICK other \in Posture!Rhel10 : other[1] \in Posture!Unassessed /\ k \in other[2]
        BY <3>2, <3>4
      <4>3. row[1] = other[1]  BY <1>3, <4>1, <4>2
      <4> QED  BY <1>1, <4>1, <4>2, <4>3
    <3> QED  BY <3>3, <3>4
  <2> QED  BY <2>1, <2>2
<1> QED  BY <1>4

\* A framework is scored at a hundred only where all of its controls that are in the
\* catalogue pass or are excluded.
LEMMA ScoreTells ==
  ASSUME NEW profile, NEW framework, NEW v, IsFiniteSet(Posture!Catalogue(profile)),
         v.fail \subseteq Posture!Catalogue(profile), v.pass
           \subseteq Posture!Catalogue(profile),
         v.excluded \subseteq Posture!Catalogue(profile), v.pass \cap v.excluded = {},
         Posture!ScorePercentage(profile, framework, v) = 100
  PROVE  Posture!Of(profile, framework) \cap Posture!Catalogue(profile)
           \subseteq v.pass \cup v.excluded
<1> DEFINE within == Posture!Of(profile, framework)
           X == within \cap (Posture!Catalogue(profile) \cup v.fail)
           A == within \cap v.pass
           E == within \cap v.excluded
           total == Cardinality(X)
           applicable == total - Cardinality(E)
<1>1. Posture!ScorePercentage(profile, framework, v) =
        IF applicable > 0 THEN (100 * Cardinality(A)) \div applicable
        ELSE IF total > 0 THEN 0 ELSE 100
  BY Zenon, PostureCounts DEF Posture!ScorePercentage
<1>2. X = within \cap Posture!Catalogue(profile) /\ A \subseteq X /\ E
        \subseteq X /\ A \cap E = {}  OBVIOUS
<1> HIDE DEF within, X, A, E
<1>3. IsFiniteSet(X)  BY <1>2, FS_Subset
<1>4. IsFiniteSet(A) /\ IsFiniteSet(E) /\ IsFiniteSet(A \cup E)
  BY <1>2, <1>3, FS_Subset, FS_Union
<1>5. total \in Nat /\ Cardinality(A) \in Nat /\ Cardinality(E) \in Nat
  BY <1>3, <1>4, FS_CardinalityType
<1>6. Cardinality(A \cup E) = Cardinality(A) + Cardinality(E)
  <2>1. Cardinality(A \cap E) = 0  BY <1>2, FS_EmptySet
  <2>2. Cardinality(A \cup E) = Cardinality(A) + Cardinality(E) - Cardinality(A \cap E)
    BY <1>4, FS_Union
  <2> QED  BY <1>5, <2>1, <2>2
<1>7. CASE applicable > 0
  <2>1. (100 * Cardinality(A)) \div applicable = 100  BY <1>1, <1>7
  <2>2. Cardinality(A) >= applicable
    <3> DEFINE n == Cardinality(A)
               m == applicable
    <3>1. n \in Nat /\ m \in Nat \ {0} /\ (100 * n) \div m = 100  BY <1>5, <1>7, <2>1
    <3> HIDE DEF n, m
    <3>2. 100 * m <= 100 * n  BY <3>1, Hundred
    <3>3. m <= n  BY <3>1, <3>2
    <3> QED  BY <3>1, <3>3 DEF n, m
  <2>3. Cardinality(A \cup E) >= total  BY <1>5, <1>6, <2>2
  <2>4. A \cup E = X
    <3>1. A \cup E \subseteq X  BY <1>2
    <3>2. /\ Cardinality(A \cup E) <= Cardinality(X)
          /\ Cardinality(X) = Cardinality(A \cup E) => X = A \cup E
      BY <1>3, <3>1, FS_Subset
    <3>3. Cardinality(A \cup E) \in Nat  BY <1>5, <1>6
    <3> QED  BY <1>5, <2>3, <3>2, <3>3
  <2> QED  BY <1>2, <2>4 DEF A, E, within
<1>8. CASE ~(applicable > 0)
  <2>1. ~(total > 0)  BY <1>1, <1>8
  <2>2. X = {}
    <3>1. total = 0  BY <1>5, <2>1
    <3> QED  BY <1>3, <3>1, FS_EmptySet
  <2> QED  BY <1>2, <2>2 DEF within
<1> QED  BY <1>7, <1>8

\* The tables and the catalogues are finite.
LEMMA FewFinite ==
  /\ \A a : IsFiniteSet({a})
  /\ \A a, b : IsFiniteSet({a, b})
  /\ \A a, b, c : IsFiniteSet({a, b, c})
  /\ \A a, b, c, d : IsFiniteSet({a, b, c, d})
  /\ \A a, b, c, d, e : IsFiniteSet({a, b, c, d, e})
<1>1. \A a : IsFiniteSet({a})  BY FS_Singleton
<1>2. \A a, b : IsFiniteSet({a, b})
  <2> TAKE a, b
  <2>1. IsFiniteSet({a}) /\ IsFiniteSet({b})  BY <1>1
  <2>2. IsFiniteSet({a} \cup {b})  BY <2>1, FS_Union
  <2>3. {a, b} = {a} \cup {b}  OBVIOUS
  <2> QED  BY <2>2, <2>3
<1>3. \A a, b, c : IsFiniteSet({a, b, c})
  <2> TAKE a, b, c
  <2>1. IsFiniteSet({a, b}) /\ IsFiniteSet({c})  BY <1>1, <1>2
  <2>2. IsFiniteSet({a, b} \cup {c})  BY <2>1, FS_Union
  <2>3. {a, b, c} = {a, b} \cup {c}  OBVIOUS
  <2> QED  BY <2>2, <2>3
<1>4. \A a, b, c, d : IsFiniteSet({a, b, c, d})
  <2> TAKE a, b, c, d
  <2>1. IsFiniteSet({a, b, c}) /\ IsFiniteSet({d})  BY <1>1, <1>3
  <2>2. IsFiniteSet({a, b, c} \cup {d})  BY <2>1, FS_Union
  <2>3. {a, b, c, d} = {a, b, c} \cup {d}  OBVIOUS
  <2> QED  BY <2>2, <2>3
<1>5. \A a, b, c, d, e : IsFiniteSet({a, b, c, d, e})
  <2> TAKE a, b, c, d, e
  <2>1. IsFiniteSet({a, b, c, d}) /\ IsFiniteSet({e})  BY <1>1, <1>4
  <2>2. IsFiniteSet({a, b, c, d} \cup {e})  BY <2>1, FS_Union
  <2>3. {a, b, c, d, e} = {a, b, c, d} \cup {e}  OBVIOUS
  <2> QED  BY <2>2, <2>3
<1> QED  BY <1>1, <1>2, <1>3, <1>4, <1>5

LEMMA KernelStandsFinite ==
  IsFiniteSet(UNION {row[2] : row \in Posture!KernelMemory \cup Posture!KernelFiles
    \cup Posture!KernelRoutes})
<1> DEFINE C0 == {"1.5.1", "RHEL-08-010430", "8.9", "1.5.4", "RHEL-08-040283"}
           C1 == {"RHEL-08-010375", "1.5.2", "RHEL-08-040282", "1.5.3", "RHEL-08-010374"}
           C2 == {"3.2.7", "RHEL-08-040285", "8.20", "3.2.8", "3.2.1"}
           C3 == {"RHEL-08-040239", "3.2.2", "3.2.3", "3.2.4", "8.15"}
<1>1. UNION {row[2] : row \in Posture!KernelMemory \cup Posture!KernelFiles
        \cup Posture!KernelRoutes} \subseteq
        C0 \cup C1 \cup C2 \cup C3
  BY DEF Posture!KernelMemory, Posture!KernelFiles, Posture!KernelRoutes
<1>2. IsFiniteSet(C0) /\ IsFiniteSet(C1) /\ IsFiniteSet(C2) /\ IsFiniteSet(C3)
  BY FewFinite
<1> HIDE DEF C0, C1, C2, C3
<1>3. IsFiniteSet(C0 \cup C1 \cup C2 \cup C3)  BY <1>2, FS_Union
<1> QED  BY <1>1, <1>3, FS_Subset

LEMMA ProbedStandsFinite ==
  IsFiniteSet(UNION {row[2] : row \in Posture!AuditPresence \cup Posture!AuditLoaded
    \cup Posture!MacPresence \cup Posture!MacMode \cup Posture!ServiceControls})
<1> DEFINE C0 == {"4.1.1.1", "OL08-00-030180", "8.15", "4.1.1.2", "OL08-00-030181"}
           C1 == {"4.1.2.1", "8.16", "1.6.1.1", "8.3", "5.15"}
           C2 == {"1.6.1.4", "OL08-00-010170", "2.1.1", "8.19", "8.9"}
           C3 == {"2.2.3", "8.20", "2.2.4"}
<1>1. UNION {row[2] : row \in Posture!AuditPresence \cup Posture!AuditLoaded
        \cup Posture!MacPresence \cup Posture!MacMode \cup Posture!ServiceControls} \subseteq
        C0 \cup C1 \cup C2 \cup C3
  BY DEF Posture!AuditPresence, Posture!AuditLoaded, Posture!MacPresence, Posture!MacMode,
     Posture!ServiceControls
<1>2. IsFiniteSet(C0) /\ IsFiniteSet(C1) /\ IsFiniteSet(C2) /\ IsFiniteSet(C3)
  BY FewFinite
<1> HIDE DEF C0, C1, C2, C3
<1>3. IsFiniteSet(C0 \cup C1 \cup C2 \cup C3)  BY <1>2, FS_Union
<1> QED  BY <1>1, <1>3, FS_Subset

LEMMA PamStandsFinite ==
  IsFiniteSet(UNION {row[2] : row \in Posture!PamLength \cup Posture!PamLockout
    \cup Posture!PamAges})
<1> DEFINE C0 == {"5.3.1", "RHEL-08-020230", "8.5", "RHEL-08-020130", "RHEL-08-020110"}
           C1 == {"RHEL-08-020120", "RHEL-08-020280", "RHEL-08-020150", "5.3.2",
             "RHEL-08-020011"}
           C2 == {"5.3.3", "5.4.1.1", "RHEL-08-020200", "5.4.1.2", "RHEL-08-020190"}
           C3 == {"5.4.1.3"}
<1>1. UNION {row[2] : row \in Posture!PamLength \cup Posture!PamLockout
        \cup Posture!PamAges} \subseteq
        C0 \cup C1 \cup C2 \cup C3
  BY DEF Posture!PamLength, Posture!PamLockout, Posture!PamAges
<1>2. IsFiniteSet(C0) /\ IsFiniteSet(C1) /\ IsFiniteSet(C2) /\ IsFiniteSet(C3)
  BY FewFinite
<1> HIDE DEF C0, C1, C2, C3
<1>3. IsFiniteSet(C0 \cup C1 \cup C2 \cup C3)  BY <1>2, FS_Union
<1> QED  BY <1>1, <1>3, FS_Subset

LEMMA PermissionStandsFinite ==
  IsFiniteSet(UNION {row[2] : row \in Posture!PermissionAccounts \cup Posture!PermissionGroups
    \cup Posture!PermissionPolicy})
<1> DEFINE C0 == {"6.1.2", "8.3", "6.1.3", "6.1.4", "6.1.5"}
           C1 == {"8.2"}
<1>1. UNION {row[2] : row \in Posture!PermissionAccounts \cup Posture!PermissionGroups
        \cup Posture!PermissionPolicy} \subseteq
        C0 \cup C1
  BY DEF Posture!PermissionAccounts, Posture!PermissionGroups, Posture!PermissionPolicy
<1>2. IsFiniteSet(C0) /\ IsFiniteSet(C1)
  BY FewFinite
<1> HIDE DEF C0, C1
<1>3. IsFiniteSet(C0 \cup C1)  BY <1>2, FS_Union
<1> QED  BY <1>1, <1>3, FS_Subset

LEMMA SshStandsFinite ==
  IsFiniteSet(UNION {row[2] : row \in Posture!SshLogin \cup Posture!SshLimits
    \cup Posture!SshSession \cup Posture!SshCrypto})
<1> DEFINE C0 == {"5.2.10", "8.5", "8.2", "5.2.11", "5.2.7"}
           C1 == {"5.2.6", "8.20", "5.2.13", "5.2.14", "8.24"}
           C2 == {"5.2.15", "RHEL-08-010291", "5.2.16", "RHEL-08-010290"}
<1>1. UNION {row[2] : row \in Posture!SshLogin \cup Posture!SshLimits \cup Posture!SshSession
        \cup Posture!SshCrypto} \subseteq
        C0 \cup C1 \cup C2
  BY DEF Posture!SshLogin, Posture!SshLimits, Posture!SshSession, Posture!SshCrypto
<1>2. IsFiniteSet(C0) /\ IsFiniteSet(C1) /\ IsFiniteSet(C2)
  BY FewFinite
<1> HIDE DEF C0, C1, C2
<1>3. IsFiniteSet(C0 \cup C1 \cup C2)  BY <1>2, FS_Union
<1> QED  BY <1>1, <1>3, FS_Subset

LEMMA Rhel10StigFinite ==
  IsFiniteSet(UNION {row[2] : row \in Posture!Rhel10Stig})
<1> DEFINE C0 == {"RHEL-10-701130", "RHEL-10-701060", "RHEL-10-701030", "RHEL-10-701140",
      "RHEL-10-701070"}
           C1 == {"RHEL-10-701080", "RHEL-10-800130", "RHEL-10-800160", "RHEL-10-800100",
             "RHEL-10-800150"}
           C2 == {"RHEL-10-600220", "RHEL-10-600310", "RHEL-10-600250", "RHEL-10-600240",
             "RHEL-10-600230"}
           C3 == {"RHEL-10-600290", "RHEL-10-600410", "RHEL-10-600100", "RHEL-10-600210",
             "RHEL-10-200531"}
           C4 == {"RHEL-10-300040", "RHEL-10-300060", "RHEL-10-200660", "RHEL-10-200661",
             "RHEL-10-700420"}
<1>1. UNION {row[2] : row \in Posture!Rhel10Stig} \subseteq
        C0 \cup C1 \cup C2 \cup C3 \cup C4
  BY DEF Posture!Rhel10Stig
<1>2. IsFiniteSet(C0) /\ IsFiniteSet(C1) /\ IsFiniteSet(C2) /\ IsFiniteSet(C3) /\
      IsFiniteSet(C4)
  BY FewFinite
<1> HIDE DEF C0, C1, C2, C3, C4
<1>3. IsFiniteSet(C0 \cup C1 \cup C2 \cup C3 \cup C4)  BY <1>2, FS_Union
<1> QED  BY <1>1, <1>3, FS_Subset

LEMMA Rhel10CisHostFinite ==
  IsFiniteSet(UNION {row[2] : row \in Posture!Rhel10CisHost})
<1> DEFINE C0 == {"1.5.8", "1.5.7", "1.5.4", "1.5.5", "1.5.6"}
           C1 == {"1.3.1.1", "1.3.1.2", "1.3.1.3", "1.3.1.5", "2.1.20"}
           C2 == {"2.1.2", "2.1.10", "3.3.1.14", "3.3.1.15", "3.3.1.8"}
           C3 == {"3.3.1.9", "3.3.1.10", "3.3.1.11", "3.3.1.16", "3.3.1.17"}
           C4 == {"3.3.1.12", "3.3.1.13", "3.3.1.18", "4.1.1", "4.1.3"}
           C5 == {"6.3.1.1", "6.3.1.4", "6.3.2.1"}
<1>1. UNION {row[2] : row \in Posture!Rhel10CisHost} \subseteq
        C0 \cup C1 \cup C2 \cup C3 \cup C4 \cup C5
  BY DEF Posture!Rhel10CisHost
<1>2. IsFiniteSet(C0) /\ IsFiniteSet(C1) /\ IsFiniteSet(C2) /\ IsFiniteSet(C3) /\
      IsFiniteSet(C4) /\ IsFiniteSet(C5)
  BY FewFinite
<1> HIDE DEF C0, C1, C2, C3, C4, C5
<1>3. IsFiniteSet(C0 \cup C1 \cup C2 \cup C3 \cup C4 \cup C5)  BY <1>2, FS_Union
<1> QED  BY <1>1, <1>3, FS_Subset

LEMMA Rhel10CisAccessFinite ==
  IsFiniteSet(UNION {row[2] : row \in Posture!Rhel10CisAccess})
<1> DEFINE C0 == {"2.4.1.9", "5.1.1", "5.1.8", "5.1.16", "5.1.20"}
           C1 == {"5.1.19", "5.1.7", "5.1.12", "5.1.6", "5.1.15"}
           C2 == {"5.3.2.2.2", "5.3.2.2.3", "5.3.2.2.4", "5.3.2.1.1", "5.3.2.1.2"}
           C3 == {"5.3.2.3.1", "5.4.1.1", "5.4.1.2", "5.4.1.3", "7.1.1"}
           C4 == {"7.1.5", "7.1.3", "7.1.7"}
<1>1. UNION {row[2] : row \in Posture!Rhel10CisAccess} \subseteq
        C0 \cup C1 \cup C2 \cup C3 \cup C4
  BY DEF Posture!Rhel10CisAccess
<1>2. IsFiniteSet(C0) /\ IsFiniteSet(C1) /\ IsFiniteSet(C2) /\ IsFiniteSet(C3) /\
      IsFiniteSet(C4)
  BY FewFinite
<1> HIDE DEF C0, C1, C2, C3, C4
<1>3. IsFiniteSet(C0 \cup C1 \cup C2 \cup C3 \cup C4)  BY <1>2, FS_Union
<1> QED  BY <1>1, <1>3, FS_Subset

LEMMA CuratedCISFinite ==
  IsFiniteSet(Posture!CuratedCIS)
<1> DEFINE C0 == {"1.5.1", "1.5.2", "1.5.3", "1.5.4", "1.6.1.1"}
           C1 == {"1.6.1.2", "1.6.1.3", "1.6.1.4", "2.1.1", "2.2.2"}
           C2 == {"2.2.3", "2.2.4", "3.2.1", "3.2.2", "3.2.3"}
           C3 == {"3.2.4", "3.2.7", "3.2.8", "3.4.1.1", "3.4.1.2"}
           C4 == {"4.1.1.1", "4.1.1.2", "4.1.2.1", "5.1.8", "5.2.1"}
           C5 == {"5.2.4", "5.2.6", "5.2.7", "5.2.10", "5.2.11"}
           C6 == {"5.2.13", "5.2.14", "5.2.15", "5.2.16", "5.3.1"}
           C7 == {"5.3.2", "5.3.3", "6.1.2", "6.1.3", "6.1.4"}
           C8 == {"6.1.5"}
<1>1. Posture!CuratedCIS =
        C0 \cup C1 \cup C2 \cup C3 \cup C4 \cup C5 \cup C6 \cup C7 \cup C8
  BY DEF Posture!CuratedCIS
<1>2. IsFiniteSet(C0) /\ IsFiniteSet(C1) /\ IsFiniteSet(C2) /\ IsFiniteSet(C3) /\
      IsFiniteSet(C4) /\ IsFiniteSet(C5) /\ IsFiniteSet(C6) /\ IsFiniteSet(C7)
      /\ IsFiniteSet(C8)
  BY FewFinite
<1> HIDE DEF C0, C1, C2, C3, C4, C5, C6, C7, C8
<1>3. IsFiniteSet(C0 \cup C1 \cup C2 \cup C3 \cup C4 \cup C5 \cup C6 \cup C7 \cup C8)
  BY <1>2, FS_Union
<1> QED  BY <1>1, <1>3, FS_Subset

LEMMA OrganizationalAndPeopleFinite ==
  IsFiniteSet(Posture!OrganizationalAndPeople)
<1> DEFINE C0 == {"5.1", "5.2", "5.3", "5.4", "5.5"}
           C1 == {"5.6", "5.7", "5.8", "5.9", "5.10"}
           C2 == {"5.11", "5.12", "5.13", "5.14", "5.15"}
           C3 == {"5.16", "5.17", "5.18", "5.19", "5.20"}
           C4 == {"5.21", "5.22", "5.23", "5.24", "5.25"}
           C5 == {"5.26", "5.27", "5.28", "5.29", "5.30"}
           C6 == {"5.31", "5.32", "5.33", "5.34", "5.35"}
           C7 == {"5.36", "5.37", "6.1", "6.2", "6.3"}
           C8 == {"6.4", "6.5", "6.6", "6.7", "6.8"}
<1>1. Posture!OrganizationalAndPeople =
        C0 \cup C1 \cup C2 \cup C3 \cup C4 \cup C5 \cup C6 \cup C7 \cup C8
  BY DEF Posture!OrganizationalAndPeople
<1>2. IsFiniteSet(C0) /\ IsFiniteSet(C1) /\ IsFiniteSet(C2) /\ IsFiniteSet(C3) /\
      IsFiniteSet(C4) /\ IsFiniteSet(C5) /\ IsFiniteSet(C6) /\ IsFiniteSet(C7)
      /\ IsFiniteSet(C8)
  BY FewFinite
<1> HIDE DEF C0, C1, C2, C3, C4, C5, C6, C7, C8
<1>3. IsFiniteSet(C0 \cup C1 \cup C2 \cup C3 \cup C4 \cup C5 \cup C6 \cup C7 \cup C8)
  BY <1>2, FS_Union
<1> QED  BY <1>1, <1>3, FS_Subset

LEMMA PhysicalAndTechnologicalFinite ==
  IsFiniteSet(Posture!PhysicalAndTechnological)
<1> DEFINE C0 == {"7.1", "7.2", "7.3", "7.4", "7.5"}
           C1 == {"7.6", "7.7", "7.8", "7.9", "7.10"}
           C2 == {"7.11", "7.12", "7.13", "7.14", "8.1"}
           C3 == {"8.2", "8.3", "8.4", "8.5", "8.6"}
           C4 == {"8.7", "8.8", "8.9", "8.10", "8.11"}
           C5 == {"8.12", "8.13", "8.14", "8.15", "8.16"}
           C6 == {"8.17", "8.18", "8.19", "8.20", "8.21"}
           C7 == {"8.22", "8.23", "8.24", "8.25", "8.26"}
           C8 == {"8.27", "8.28", "8.29", "8.30", "8.31"}
           C9 == {"8.32", "8.33", "8.34"}
<1>1. Posture!PhysicalAndTechnological =
        C0 \cup C1 \cup C2 \cup C3 \cup C4 \cup C5 \cup C6 \cup C7 \cup C8 \cup C9
  BY DEF Posture!PhysicalAndTechnological
<1>2. IsFiniteSet(C0) /\ IsFiniteSet(C1) /\ IsFiniteSet(C2) /\ IsFiniteSet(C3) /\
      IsFiniteSet(C4) /\ IsFiniteSet(C5) /\ IsFiniteSet(C6) /\ IsFiniteSet(C7)
      /\ IsFiniteSet(C8) /\ IsFiniteSet(C9)
  BY FewFinite
<1> HIDE DEF C0, C1, C2, C3, C4, C5, C6, C7, C8, C9
<1>3. IsFiniteSet(C0 \cup C1 \cup C2 \cup C3 \cup C4 \cup C5 \cup C6 \cup C7 \cup C8 \cup C9)
  BY <1>2, FS_Union
<1> QED  BY <1>1, <1>3, FS_Subset

LEMMA CatalogueFinite ==
  ASSUME NEW profile
  PROVE  IsFiniteSet(Posture!Catalogue(profile))
<1> DEFINE K == UNION {row[2] : row \in Posture!KernelMemory \cup Posture!KernelFiles
      \cup Posture!KernelRoutes}
           M == UNION {row[2] : row \in Posture!AuditPresence \cup Posture!AuditLoaded
             \cup Posture!MacPresence
                                          \cup Posture!MacMode \cup Posture!ServiceControls}
           A == UNION {row[2] : row \in Posture!PamLength \cup Posture!PamLockout
             \cup Posture!PamAges}
           O == UNION {row[2] : row \in Posture!PermissionAccounts \cup Posture!PermissionGroups
                                          \cup Posture!PermissionPolicy}
           S == UNION {row[2] : row \in Posture!SshLogin \cup Posture!SshLimits
             \cup Posture!SshSession \cup Posture!SshCrypto}
           F == {"3.4.1.1", "3.4.1.2", "RHEL-08-040101", "8.20", "8.21"}
           stands == K \cup M \cup A \cup O \cup S \cup F
           X == UNION {row[2] : row \in Posture!Rhel10Stig}
           Y == UNION {row[2] : row \in Posture!Rhel10CisHost}
           Z == UNION {row[2] : row \in Posture!Rhel10CisAccess}
<1>1. IsFiniteSet(K) /\ IsFiniteSet(M) /\ IsFiniteSet(A) /\ IsFiniteSet(O) /\ IsFiniteSet(S)
  BY Zenon, KernelStandsFinite, ProbedStandsFinite, PamStandsFinite, PermissionStandsFinite,
     SshStandsFinite
<1>2. IsFiniteSet(F)  BY FewFinite
<1>3. IsFiniteSet(X) /\ IsFiniteSet(Y) /\ IsFiniteSet(Z)
  BY Zenon, Rhel10StigFinite, Rhel10CisHostFinite, Rhel10CisAccessFinite
<1>4. Posture!Coverage \subseteq stands
  <2> SUFFICES ASSUME NEW k \in Posture!Coverage PROVE k \in stands  OBVIOUS
  <2>1. PICK row \in Posture!Stands : k \in row[2]  BY DEF Posture!Coverage, Posture!StandsFor
  <2>2. PICK p \in Posture!Plugins : row \in Posture!Table(p)  BY <2>1 DEF Posture!Stands
  <2>3. CASE p = "audit"  BY <2>1, <2>2, <2>3 DEF Posture!Table
  <2>4. CASE p = "firewall"  BY <2>1, <2>2, <2>4, ChecksNamed DEF Posture!Table
  <2>5. CASE p = "kernel"  BY <2>1, <2>2, <2>5 DEF Posture!Table
  <2>6. CASE p = "mac"  BY <2>1, <2>2, <2>6 DEF Posture!Table
  <2>7. CASE p = "pam"  BY <2>1, <2>2, <2>7 DEF Posture!Table
  <2>8. CASE p = "permissions"  BY <2>1, <2>2, <2>8 DEF Posture!Table
  <2>9. CASE p = "services"  BY <2>1, <2>2, <2>9 DEF Posture!Table
  <2>10. CASE p = "ssh"  BY <2>1, <2>2, <2>10 DEF Posture!Table
  <2> QED  BY <2>2, <2>3, <2>4, <2>5, <2>6, <2>7, <2>8, <2>9, <2>10 DEF Posture!Plugins
<1>5. IsFiniteSet(Posture!CuratedISO) /\ IsFiniteSet(Posture!CuratedCIS)
  BY OrganizationalAndPeopleFinite, PhysicalAndTechnologicalFinite, CuratedCISFinite, FS_Union
     DEF Posture!CuratedISO
<1>6. Posture!Catalogue(profile)
        \subseteq Posture!CuratedISO \cup (Posture!CuratedCIS \cup (stands \cup (X \cup (Y
          \cup Z))))
  <2>1. \A row \in Posture!Rhel10 : row[2] \subseteq X \cup Y \cup Z  BY DEF Posture!Rhel10
  <2> HIDE DEF X, Y, Z, stands
  <2>2. Posture!Translate(profile, Posture!CuratedCIS \cup Posture!CuratedISO
          \cup Posture!Coverage) \subseteq
          Posture!CuratedCIS \cup Posture!CuratedISO \cup Posture!Coverage
            \cup UNION {row[2] : row \in Posture!Rhel10}
    BY DEF Posture!Translate
  <2>3. UNION {row[2] : row \in Posture!Rhel10} \subseteq X \cup Y \cup Z  BY <2>1
  <2> QED  BY <1>4, <2>2, <2>3 DEF Posture!Catalogue
<1> HIDE DEF K, M, A, O, S, F, X, Y, Z
<1>7. IsFiniteSet(stands)
  <2>1. IsFiniteSet(K \cup M)  BY <1>1, FS_Union
  <2>2. IsFiniteSet(K \cup M \cup A)  BY <1>1, <2>1, FS_Union
  <2>3. IsFiniteSet(K \cup M \cup A \cup O)  BY <1>1, <2>2, FS_Union
  <2>4. IsFiniteSet(K \cup M \cup A \cup O \cup S)  BY <1>1, <2>3, FS_Union
  <2> QED  BY <1>2, <2>4, FS_Union
<1> HIDE DEF stands
<1>8. IsFiniteSet(X \cup (Y \cup Z))  BY <1>3, FS_Union
<1>9. IsFiniteSet(stands \cup (X \cup (Y \cup Z)))  BY <1>7, <1>8, FS_Union
<1>10. IsFiniteSet(Posture!CuratedCIS \cup (stands \cup (X \cup (Y \cup Z))))
  BY <1>5, <1>9, FS_Union
<1>11. IsFiniteSet(Posture!CuratedISO \cup (Posture!CuratedCIS \cup (stands \cup (X \cup (Y
         \cup Z)))))
  BY <1>5, <1>10, FS_Union
<1> QED  BY <1>6, <1>11, FS_Subset

\* The verdicts of a report whose evidence takes in what is unearned.
LEMMA VerdictsTell ==
  ASSUME NEW profile, NEW live, NEW unchecked, NEW excused, NEW U,
         live \subseteq Posture!Catalogue(profile),
         U \subseteq Posture!Catalogue(profile),
         U \subseteq live \cup unchecked,
         NEW said, said = Posture!Verdicts(profile, [live |-> live, unchecked |-> unchecked],
           excused)
  PROVE  /\ (said.pass \cup said.excluded) \cap U = {}
         /\ said.pass \cap Posture!Translate(profile, Posture!Unassessed) = {}
         /\ \A f \in Posture!Framework :
               Posture!ScorePercentage(profile, f, said) = 100
                 => Posture!Of(profile, f) \cap U = {}
<1> DEFINE seen == Posture!Catalogue(profile) \ (live \cup unchecked)
           pass == seen \cap Posture!Assessed(profile)
           na   == (seen \ pass) \cap excused
<1>1. said.fail = live /\ said.pass = pass /\ said.excluded = na
  <2>1. said = [fail |-> live, pass |-> pass, excluded |-> na,
                manual |-> Posture!Catalogue(profile) \ (live \cup pass \cup na)]
    BY DEF Posture!Verdicts
  <2> HIDE DEF pass, na
  <2> QED  BY <2>1
<1>2. (said.pass \cup said.excluded) \cap U = {}  BY <1>1
<1>3. said.pass \cap Posture!Translate(profile, Posture!Unassessed) = {}
  BY <1>1, UnassessedAside DEF Posture!Assessed
<1>4. ASSUME NEW f \in Posture!Framework, Posture!ScorePercentage(profile, f, said) = 100
      PROVE  Posture!Of(profile, f) \cap U = {}
  <2>1. /\ said.fail \subseteq Posture!Catalogue(profile) /\ said.pass
             \subseteq Posture!Catalogue(profile)
        /\ said.excluded
             \subseteq Posture!Catalogue(profile) /\ said.pass \cap said.excluded = {}
    BY <1>1
  <2>2. Posture!Of(profile, f) \cap Posture!Catalogue(profile)
          \subseteq said.pass \cup said.excluded
    BY <1>4, <2>1, CatalogueFinite, ScoreTells
  <2> QED  BY <1>2, <2>2
<1> QED  BY <1>2, <1>3, <1>4

LEMMA PostureTold ==
  ASSUME PostureInv
  PROVE  Posture!PostureIsEarned
<1> SUFFICES ASSUME call.pc = "done" PROVE Posture!PostureIsEarned
  BY DEF Posture!PostureIsEarned
<1> DEFINE p == Posture!ProfileOf(call.request)
           skipped == IF call.of.marked THEN {} ELSE call.of.off \cap call.of.known
           e == Posture!Flatten(call.results, skipped)
           excused == Posture!Excused(call.request.exclusions, call.request.host,
             call.request.last,
                              PostureParams.Today, Absent)
           unearned == Posture!Named(Posture!Stands) \ call.earned
           live == Posture!Translate(p, e.live)
           unchecked == Posture!Translate(p, e.unchecked)
           U == Posture!Translate(p, Posture!StandsFor(unearned))
<1>1. Posture!Said = Posture!Verdicts(p, [live |-> live, unchecked |-> unchecked], excused)
  BY Zenon DEF Posture!Said, Posture!Renumber
<1>2. Posture!StandsFor(unearned) \subseteq e.live \cup e.unchecked
  BY EvidenceTells DEF PostureInv
<1>3. e.live \subseteq Posture!Coverage
  <2>1. e.live = UNION {Posture!StandsFor({f.check : f \in {f \in r.findings : ~f.applied}}) :
                           r \in {r \in call.results : ~r.marker}}
    BY DEF Posture!Flatten
  <2> HIDE DEF e
  <2>2. \A checks : Posture!StandsFor(checks) \subseteq Posture!Coverage
    BY DEF Posture!StandsFor, Posture!Coverage, Posture!Named
  <2> QED  BY <2>1, <2>2
<1>4. Posture!StandsFor(unearned) \subseteq Posture!Coverage
  BY DEF Posture!StandsFor, Posture!Coverage, Posture!Named
<1> HIDE DEF e, unearned, p, excused
<1>5. Posture!Translate(p, Posture!Coverage) \subseteq Posture!Catalogue(p)
  BY TranslateGrows DEF Posture!Catalogue
<1>6. live \subseteq Posture!Catalogue(p) /\ U \subseteq Posture!Catalogue(p)
  BY <1>3, <1>4, <1>5, TranslateGrows
<1>7. U \subseteq live \cup unchecked
  <2>1. U \subseteq Posture!Translate(p, e.live \cup e.unchecked)
    BY Zenon, <1>2, TranslateGrows
  <2> HIDE DEF U
  <2> QED  BY <2>1, TranslateSplits
<1> HIDE DEF live, unchecked, U
<1>8. /\ (Posture!Said.pass \cup Posture!Said.excluded) \cap U = {}
      /\ Posture!Said.pass \cap Posture!Translate(p, Posture!Unassessed) = {}
      /\ \A f \in Posture!Framework : Posture!ScorePercentage(p, f, Posture!Said) = 100
           => Posture!Of(p, f) \cap U = {}
  BY <1>1, <1>6, <1>7, VerdictsTell
<1> QED  BY Zenon, <1>8 DEF Posture!PostureIsEarned, p, U, unearned

LEMMA PostureAlways == Spec /\ part = "posture" => [](PostureInv /\ part = "posture")
<1>1. Init /\ part = "posture" => PostureInv
  <2>1. Posture!PostureAssumption  BY PartsAssumption
  <2> QED  BY <2>1, PostureBegins DEF Init
<1>2. PostureInv /\ part = "posture" /\ [Next]_vars => (PostureInv /\ part = "posture")'
  <2> SUFFICES ASSUME PostureInv, part = "posture", [Next]_vars
               PROVE  PostureInv' /\ part' = "posture"
    OBVIOUS
  <2>1. Posture!PostureAssumption  BY PartsAssumption
  <2>2. CASE Next
    <3>1. part' = "posture" /\ Posture!Next  BY <2>2 DEF Next
    <3> QED  BY <2>1, <3>1, PostureSteps
  <2>3. CASE UNCHANGED vars
    <3>1. part' = part /\ host' = host /\ call' = call /\ left' = left  BY <2>3 DEF vars
    <3> QED  BY <3>1 DEF PostureInv
  <2> QED  BY <2>2, <2>3
<1> QED  BY <1>1, <1>2, PTL DEF Spec

\* Whatever hosts, selections, exclusions and profile a report is of: a control that
\* passes, or is declared away, is one whose checks were all made in that run and held,
\* or had their deviation documented, but for the deviations a scan passes over
\* (`Unsaid`); one that takes in what no check covers does not
\* pass; and a framework scores a hundred only where all of its checks are earned
\* (flatten, generate_for_framework, from_controls).
THEOREM ThePostureIsEarned == Spec => []PostureIsEarned
<1>1. PostureInv => PostureIsEarned  BY PostureTold DEF PostureIsEarned
<1>2. ~(part = "posture") => PostureIsEarned  BY DEF PostureIsEarned
<1>3. Spec /\ ~(part = "posture") => []~(part = "posture")
  <2>1. ~(part = "posture") /\ [Next]_vars => (~(part = "posture"))'  BY DEF Next, vars
  <2> QED  BY <2>1, PTL DEF Spec
<1> QED  BY <1>1, <1>2, <1>3, PostureAlways, PTL

-----------------------------------------------------------------------------
(* Each plugin's invariant, whenever the part is that plugin's.            *)

LEMMA AuditAlways == Spec /\ part = "audit" => [](AuditInv /\ part = "audit")
<1>1. Init /\ part = "audit" => AuditInv  BY HardeningAssumption, AuditInitial DEF Init
<1>2. AuditInv /\ part = "audit" /\ [Next]_vars => (AuditInv /\ part = "audit")'
  <2> SUFFICES ASSUME AuditInv, part = "audit", [Next]_vars
               PROVE  AuditInv' /\ part' = "audit"
    OBVIOUS
  <2>1. CASE Next
    <3>1. part' = "audit" /\ Audit!Next  BY <2>1 DEF Next
    <3> QED  BY <3>1, HardeningAssumption, AuditNext
  <2>2. CASE UNCHANGED vars
    <3>1. part' = part /\ host' = host /\ call' = call  BY <2>2 DEF vars
    <3> QED
      BY <3>1 DEF AuditInv, AuditType, AuditApplying, AuditUndoing, AuditKept,
         Audit!SuccessMeansAudited, Audit!SuccessUnloadsNothing, Audit!UndoneMeansUndone
  <2> QED  BY <2>1, <2>2
<1> QED  BY <1>1, <1>2, PTL DEF Spec

\* What an audit apply leaves loaded until it flushes the kernel.
LEMMA AuditStaysAlways == Spec /\ part = "audit" => []AuditStays
<1>1. Init /\ part = "audit" => AuditStays
  <2> SUFFICES ASSUME Audit!Init PROVE AuditStays  BY DEF Init
  <2>1. call.pc = "idle" /\ call.filed = {}  BY DEF Audit!Init, Audit!Idle
  <2> QED  BY <2>1 DEF AuditStays
<1>2. AuditInv /\ part = "audit" /\ AuditStays /\ [Next]_vars => AuditStays'
  <2> SUFFICES ASSUME AuditInv, part = "audit", AuditStays, [Next]_vars PROVE AuditStays'
    OBVIOUS
  <2>1. CASE Next
    <3>1. Audit!Next  BY <2>1 DEF Next
    <3> QED  BY <3>1, HardeningAssumption, AuditStaysNext
  <2>2. CASE UNCHANGED vars
    <3>1. host' = host /\ call' = call  BY <2>2 DEF vars
    <3> QED  BY <3>1 DEF AuditStays
  <2> QED  BY <2>1, <2>2
<1> QED  BY <1>1, <1>2, AuditAlways, PTL DEF Spec

LEMMA ServAlways == Spec /\ part = "services" => [](ServInv /\ part = "services")
<1>1. Init /\ part = "services" => ServInv  BY HardeningAssumption, ServInitial DEF Init
<1>2. ServInv /\ part = "services" /\ [Next]_vars => (ServInv /\ part = "services")'
  <2> SUFFICES ASSUME ServInv, part = "services", [Next]_vars
               PROVE  ServInv' /\ part' = "services"
    OBVIOUS
  <2>1. CASE Next
    <3>1. part' = "services" /\ Serv!Next  BY <2>1 DEF Next
    <3> QED  BY <3>1, HardeningAssumption, ServNext
  <2>2. CASE UNCHANGED vars
    <3>1. part' = part /\ host' = host /\ call' = call  BY <2>2 DEF vars
    <3> QED
      BY <3>1 DEF ServInv, ServType, ServApplying, ServSaved, ServUndone,
         Serv!SuccessMeansMinimised
  <2> QED  BY <2>1, <2>2
<1> QED  BY <1>1, <1>2, PTL DEF Spec

LEMMA MacAlways == Spec /\ part = "mac" => [](MacInv /\ part = "mac")
<1>1. Init /\ part = "mac" => MacInv
  <2> SUFFICES ASSUME Init, part = "mac" PROVE MacInv
    OBVIOUS
  <2>1. Mac!Init  BY DEF Init
  <2>2. host \in Mac!Host  BY <2>1, HardeningAssumption DEF Mac!MacAssumption, Mac!Init
  <2>3. call \in MacCall /\ call.pc = "idle" /\ call.result = "none"
    BY <2>1 DEF Mac!Init, Mac!Idle, MacCall
  <2> QED
    BY <2>2, <2>3
       DEF MacInv, MacType, Mac!SuccessMeansEnforcing, Mac!UndoneMeansRestored
<1>2. MacInv /\ part = "mac" /\ [Next]_vars => (MacInv /\ part = "mac")'
  <2> SUFFICES ASSUME MacInv, part = "mac", [Next]_vars
               PROVE  MacInv' /\ part' = "mac"
    OBVIOUS
  <2>1. CASE Next
    <3>1. part' = "mac" /\ Mac!Next  BY <2>1 DEF Next
    <3> QED  BY <3>1, HardeningAssumption, MacNext
  <2>2. CASE UNCHANGED vars
    <3>1. part' = part /\ host' = host /\ call' = call  BY <2>2 DEF vars
    <3> QED
      BY <3>1 DEF MacInv, MacType, Mac!SuccessMeansEnforcing, Mac!UndoneMeansRestored
  <2> QED  BY <2>1, <2>2
<1> QED  BY <1>1, <1>2, PTL DEF Spec

LEMMA FwAlways == Spec /\ part = "firewall" => [](FwInv /\ part = "firewall")
<1>1. Init /\ part = "firewall" => FwInv
  <2> SUFFICES ASSUME Init, part = "firewall" PROVE FwInv
    OBVIOUS
  <2>1. Firewall!Init  BY DEF Init
  <2>2. host \in Firewall!Host /\ host.saved = Absent /\ Firewall!Keeps(host.kind, host)
    BY <2>1, HardeningAssumption DEF Firewall!FirewallAssumption, Firewall!Init
  <2>3. call \in FwCall /\ call.pc = "idle" /\ call.result = "none"
    BY <2>1, FwIdle, HardeningAssumption DEF Firewall!Init
  <2> QED  BY <2>2, <2>3 DEF FwInv, FwType, Firewall!UndoneMeansUndone
<1>2. FwInv /\ part = "firewall" /\ [Next]_vars => (FwInv /\ part = "firewall")'
  <2> SUFFICES ASSUME FwInv, part = "firewall", [Next]_vars
               PROVE  FwInv' /\ part' = "firewall"
    OBVIOUS
  <2>1. CASE Next
    <3>1. part' = "firewall" /\ Firewall!Next  BY <2>1 DEF Next
    <3> QED  BY <3>1, HardeningAssumption, FwNext
  <2>2. CASE UNCHANGED vars
    <3>1. part' = part /\ host' = host /\ call' = call  BY <2>2 DEF vars
    <3> QED  BY <3>1 DEF FwInv, FwType, Firewall!UndoneMeansUndone
  <2> QED  BY <2>1, <2>2
<1> QED  BY <1>1, <1>2, PTL DEF Spec

LEMMA FwKeptAlways == Spec /\ part = "firewall" => [](FwKept /\ part = "firewall")
<1>1. Init /\ part = "firewall" => FwKept
  BY FwStartsKept, HardeningAssumption DEF Init
<1>2. FwInv /\ FwKept /\ part = "firewall" /\ [Next]_vars => FwKept' /\ (part = "firewall")'
  <2>1. part = "firewall" /\ [Next]_vars => [Firewall!Next]_<<host, call>> /\ part' = "firewall"
    BY DEF Next, vars
  <2> QED  BY <2>1, HardeningAssumption, FwKeepsOn
<1> QED  BY <1>1, <1>2, FwAlways, PTL DEF Spec

LEMMA PermAlways == Spec /\ part = "permissions" => [](PermInv /\ part = "permissions")
<1>1. Init /\ part = "permissions" => PermInv
  <2> SUFFICES ASSUME Init, part = "permissions" PROVE PermInv
    OBVIOUS
  <2>1. Perm!Init  BY DEF Init
  <2>2. host \in Perm!Host  BY <2>1, HardeningAssumption DEF Perm!PermissionsAssumption, Perm!Init
  <2>3. call \in PermCall /\ call.pc = "idle" /\ call.result = "none"
    BY <2>1 DEF Perm!Init, Perm!Idle, PermCall
  <2> QED  BY <2>2, <2>3 DEF PermInv, PermType, PermApplying, Perm!SuccessMeansClean
<1>2. PermInv /\ part = "permissions" /\ [Next]_vars => (PermInv /\ part = "permissions")'
  <2> SUFFICES ASSUME PermInv, part = "permissions", [Next]_vars
               PROVE  PermInv' /\ part' = "permissions"
    OBVIOUS
  <2>1. CASE Next
    <3>1. part' = "permissions" /\ Perm!Next  BY <2>1 DEF Next
    <3> QED  BY <3>1, HardeningAssumption, PermNext
  <2>2. CASE UNCHANGED vars
    <3>1. part' = part /\ host' = host /\ call' = call  BY <2>2 DEF vars
    <3> QED
      BY <3>1 DEF PermInv, PermType, PermApplying, Perm!SuccessMeansClean, Perm!P,
                  Perm!Directive
  <2> QED  BY <2>1, <2>2
<1> QED  BY <1>1, <1>2, PTL DEF Spec

LEMMA PamAlways == Spec /\ part = "pam" => [](PamInv /\ part = "pam")
<1>1. Init /\ part = "pam" => PamInv
  <2> SUFFICES ASSUME Init, part = "pam" PROVE PamInv
    OBVIOUS
  <2>1. Pam!Init  BY DEF Init
  <2>2. host \in Pam!Host  BY <2>1, HardeningAssumption DEF Pam!PamAssumption, Pam!Init
  <2>3. /\ [f \in Pam!Conf |-> Pam!NoFile] \in [Pam!Conf -> Pam!File]
        /\ (CHOOSE c \in PamParams.Configs : TRUE) \in PamParams.Configs
        /\ Unset \in PamParams.Value
    BY HardeningAssumption DEF Pam!PamAssumption, Pam!NoFile, Pam!File
  <2>4. call \in PamCall /\ call.pc = "idle" /\ call.result = "none" /\ call.blind = {}
    BY <2>1, <2>3 DEF Pam!Init, Pam!Idle, PamCall
  <2> QED  BY <2>2, <2>4 DEF PamInv, PamType, PamApplying, Pam!SuccessMeansHardened
<1>2. PamInv /\ part = "pam" /\ [Next]_vars => (PamInv /\ part = "pam")'
  <2> SUFFICES ASSUME PamInv, part = "pam", [Next]_vars
               PROVE  PamInv' /\ part' = "pam"
    OBVIOUS
  <2>1. CASE Next
    <3>1. part' = "pam" /\ Pam!Next  BY <2>1 DEF Next
    <3> QED  BY <3>1, HardeningAssumption, PamNext
  <2>2. CASE UNCHANGED vars
    <3>1. part' = part /\ host' = host /\ call' = call  BY <2>2 DEF vars
    <3> QED
      BY <3>1 DEF PamInv, PamType, PamApplying, Pam!SuccessMeansHardened
  <2> QED  BY <2>1, <2>2
<1> QED  BY <1>1, <1>2, PTL DEF Spec

LEMMA KernAlways == Spec /\ part = "kernel" => [](KernInv /\ part = "kernel")
<1>1. Init /\ part = "kernel" => KernInv
  <2> SUFFICES ASSUME Init, part = "kernel" PROVE KernInv
    OBVIOUS
  <2>1. Kernel!Init  BY DEF Init
  <2>2. /\ (CHOOSE c \in KernelParams.Configs : TRUE) \in KernelParams.Configs
        /\ Unset \in KernelParams.Value /\ Len(KernelParams.Params) \in Nat
        /\ KernelParams.Ours \in Kernel!Name
    BY HardeningAssumption DEF Kernel!KernelAssumption
  <2>3. call = KernFresh(0, "none", CHOOSE c \in KernelParams.Configs : TRUE)
    BY <2>1 DEF Kernel!Init, Kernel!Idle, KernFresh
  <2>4. /\ call \in KernCall /\ call.pc = 0 /\ call.result = "none"
        /\ \A k \in Kernel!Param : call.file[k] = Unset
    <3>1. Kernel!Nothing \in [Kernel!Param -> KernelParams.Value]
          /\ \A k \in Kernel!Param : Kernel!Nothing[k] = Unset
      BY <2>2 DEF Kernel!Nothing
    <3>2. 0 \in 0..(Len(KernelParams.Params) + 1)  BY <2>2
    <3> QED  BY <2>2, <2>3, <3>1, <3>2 DEF KernFresh, KernCall
  <2>5. PICK live \in KernelParams.Kernels, mine \in {Absent} \cup KernelParams.Files :
           host = [etc |-> Kernel!NoFiles, usr |-> [Kernel!NoFiles EXCEPT ![1] = mine],
                   ufw |-> Absent, legacy |-> Absent, live |-> live, saved |-> Absent]
    BY Zenon, <2>1 DEF Kernel!Init
  <2>6. /\ live \in [Kernel!Param -> KernelParams.Value \ {Unset}]
        /\ mine \in Kernel!File \cup {Absent}
    BY HardeningAssumption DEF Kernel!KernelAssumption
  <2>7. /\ Kernel!NoFiles \in [Kernel!Name -> Kernel!File \cup {Absent}]
        /\ Kernel!NoFiles[KernelParams.Ours] = Absent
        /\ [Kernel!NoFiles EXCEPT ![1] = mine] \in [Kernel!Name -> Kernel!File \cup {Absent}]
    BY <2>2, <2>6 DEF Kernel!NoFiles
  <2>8. /\ host \in Kernel!Host /\ host.etc[KernelParams.Ours] = Absent
        /\ host.saved = Absent
    BY <2>5, <2>6, <2>7 DEF Kernel!Host
  <2> QED  BY <2>4, <2>8 DEF KernInv, KernType, KernDecided
<1>2. KernInv /\ part = "kernel" /\ [Next]_vars => (KernInv /\ part = "kernel")'
  <2> SUFFICES ASSUME KernInv, part = "kernel", [Next]_vars
               PROVE  KernInv' /\ part' = "kernel"
    OBVIOUS
  <2>1. CASE Next
    <3>1. part' = "kernel" /\ Kernel!Next  BY <2>1 DEF Next
    <3> QED
      BY <3>1, HardeningAssumption, KernBegins, KernSets, KernPersists, KernRollsBack,
         KernReboots, KernDisturbed DEF Kernel!Next
  <2>2. CASE UNCHANGED vars
    <3>1. part' = part /\ host' = host /\ call' = call  BY <2>2 DEF vars
    <3> QED  BY <3>1 DEF KernInv, KernType, KernDecided, KernKeeps
  <2> QED  BY <2>1, <2>2
<1> QED  BY <1>1, <1>2, PTL DEF Spec

LEMMA SshAlways == Spec /\ part = "ssh" => [](SshInv /\ part = "ssh")
<1>1. Init /\ part = "ssh" => SshInv
  <2> SUFFICES ASSUME Ssh!Init PROVE SshInv
    BY DEF Init
  <2>1. PICK m \in SshParams.Mains,
             f \in [Ssh!Fragment -> SshParams.Theirs \cup {Ssh!Empty}] :
           host = [main |-> m, frag |-> f, running |-> Ssh!Obeyed(m, f), inode |-> 1]
    BY Zenon DEF Ssh!Init
  <2>2. SshIsHost(host)
    <3>1. Ssh!IsMain(m)  BY HardeningAssumption DEF Ssh!SshAssumption
    <3>2. \A content \in SshParams.Theirs \cup {Ssh!Empty} : Ssh!IsFragment(content)
      BY HardeningAssumption DEF Ssh!SshAssumption, Ssh!IsFragment, Ssh!Empty
    <3> QED  BY <2>1, <3>1, <3>2 DEF SshIsHost
  <2>3. call = [p \in Process |-> Ssh!NoCall]  BY DEF Ssh!Init
  <2>4. SshIsCall(Ssh!NoCall) /\ SshHolds(Ssh!NoCall, host)
    <3>1. Ssh!IsMain(CHOOSE n \in SshParams.Mains : TRUE)
      BY HardeningAssumption DEF Ssh!SshAssumption
    <3> QED  BY <3>1 DEF SshIsCall, SshHolds, Ssh!NoCall
  <2> QED  BY <2>2, <2>3, <2>4 DEF SshInv
<1>2. SshInv /\ part = "ssh" /\ [Next]_vars => (SshInv /\ part = "ssh")'
  <2> SUFFICES ASSUME SshInv, part = "ssh", [Next]_vars
               PROVE  SshInv' /\ part' = "ssh"
    OBVIOUS
  <2>1. part' = "ssh" /\ [Ssh!Next]_<<host, call>>  BY DEF Next, vars
  <2> QED  BY <2>1, HardeningAssumption, SshSteps
<1> QED  BY <1>1, <1>2, PTL DEF Spec

-----------------------------------------------------------------------------
(* What the plugins promise.                                               *)

\* An apply of the audit plugin, of a host nobody else has changed since it began,
\* that reports a success has unloaded no category but those its configuration
\* excepts; and one that failed or died, whichever of its commands failed, no rule that
\* was loaded from the files, unless it flushed the kernel's rules (what
\* reload_audit_rules says when both of its loads have failed).
THEOREM NothingIsUnloaded == Spec => []AuditNothingUnloaded
<1>1. AuditInv /\ AuditStays => AuditNothingUnloaded  BY AuditLoses DEF AuditNothingUnloaded
<1>2. ~(part = "audit") => AuditNothingUnloaded  BY DEF AuditNothingUnloaded
<1>3. Spec /\ ~(part = "audit") => []~(part = "audit")
  <2>1. ~(part = "audit") /\ [Next]_vars => (~(part = "audit"))'  BY DEF Next, vars
  <2> QED  BY <2>1, PTL DEF Spec
<1> QED  BY <1>1, <1>2, <1>3, AuditAlways, AuditStaysAlways, PTL

\* What a services apply has seen stopped runs no more, unless others have started it.
LEMMA ServSeenAlways == Spec /\ part = "services" => []ServSeen
<1>1. Init /\ part = "services" => ServSeen
  BY DEF Init, Serv!Init, Serv!Idle, ServSeen
<1>2. ServInv /\ part = "services" /\ ServSeen /\ [Next]_vars => ServSeen'
  <2> SUFFICES ASSUME ServInv, part = "services", ServSeen, [Next]_vars PROVE ServSeen'
    OBVIOUS
  <2>1. CASE Next
    <3>1. Serv!Next  BY <2>1 DEF Next
    <3> QED  BY <3>1, HardeningAssumption, ServSeenNext
  <2>2. CASE UNCHANGED vars
    <3>1. host' = host /\ call' = call  BY <2>2 DEF vars
    <3> QED  BY <3>1 DEF ServSeen
  <2> QED  BY <2>1, <2>2
<1> QED  BY <1>1, <1>2, ServAlways, PTL DEF Spec

\* An apply masks no service that runs, whichever of its commands fail and whatever
\* others do to the units between them, but one they have started since it began and
\* one systemctl would not speak about: a service masked while it runs is one no later
\* scan would see start (apply, disable_service).
THEOREM NoneIsMaskedRunning == Spec => ServicesNeverMasksRunning
<1>1. ServInv /\ ServSeen /\ part = "services" /\ [Next]_vars
        => (part = "services" => Serv!NeverMasksRunning)
  <2> SUFFICES ASSUME ServInv, ServSeen, part = "services", [Next]_vars
               PROVE  Serv!NeverMasksRunning
    OBVIOUS
  <2>1. [Serv!Next]_<<host, call>>  BY DEF Next, vars
  <2> QED  BY <2>1, HardeningAssumption, ServMasksStopped
<1>2. Spec /\ ~(part = "services") => []~(part = "services")
  <2>1. ~(part = "services") /\ [Next]_vars => (~(part = "services"))'  BY DEF Next, vars
  <2> QED  BY <2>1, PTL DEF Spec
<1> QED  BY <1>1, <1>2, ServAlways, ServSeenAlways, PTL DEF Spec, ServicesNeverMasksRunning

\* A rollback that reports a success has undone: the audit rules are the files' and
\* are loaded, and none the reload made is left; the firewall runs what the next boot
\* loads, or tells; the links of the services are back; the running mode of SELinux is
\* the one of the restored file; and a fleet's has taken back the fleet's last apply.
THEOREM RollbacksUndo == Spec => []UndoneMeansUndone
<1>1. /\ AuditInv /\ part = "audit" => UndoneMeansUndone
      /\ FwInv /\ part = "firewall" => UndoneMeansUndone
      /\ ServInv /\ part = "services" => UndoneMeansUndone
      /\ MacInv /\ part = "mac" => UndoneMeansUndone
      /\ Fleet!UndoRestoresTheFleet /\ part = "fleet" => UndoneMeansUndone
  <2>1. AuditInv => Audit!UndoneMeansUndone  BY DEF AuditInv, AuditKept
  <2>2. FwInv => Firewall!UndoneMeansUndone  BY DEF FwInv
  <2>3. ServInv => Serv!UndoneMeansUndone  BY ServPromises
  <2>4. MacInv => Mac!UndoneMeansRestored  BY DEF MacInv
  <2> QED  BY <2>1, <2>2, <2>3, <2>4 DEF UndoneMeansUndone
<1>2. Spec /\ part = "fleet" => []Fleet!UndoRestoresTheFleet /\ [](part = "fleet")
  <2>1. Init /\ part = "fleet" => Fleet!Init  BY DEF Init
  <2>2. [Next]_vars /\ part = "fleet" => [Fleet!Next]_(Fleet!vars) /\ (part = "fleet")'
    BY DEF Next, vars, aside, Fleet!vars
  <2>3. Spec /\ part = "fleet" => Fleet!Spec /\ [](part = "fleet")
    BY <2>1, <2>2, PTL DEF Spec, Fleet!Spec
  <2>4. Fleet!Spec => []Fleet!UndoRestoresTheFleet
    BY PartsAssumption, Fleet!RollbackRestoresTheFleet
  <2> QED  BY <2>3, <2>4, PTL
<1> DEFINE other == /\ ~(part = "audit") /\ ~(part = "firewall") /\ ~(part = "services")
                    /\ ~(part = "mac") /\ ~(part = "fleet")
<1>3. other => UndoneMeansUndone  BY DEF UndoneMeansUndone
<1>4. Spec /\ other => []other
  <2>1. other /\ [Next]_vars => other'  BY DEF Next, vars
  <2> QED  BY <2>1, PTL DEF Spec
<1>5. other \/ part = "audit" \/ part = "firewall" \/ part = "services" \/ part = "mac"
        \/ part = "fleet"
  OBVIOUS
<1> HIDE DEF other
<1> QED
  BY <1>1, <1>2, <1>3, <1>4, <1>5, AuditAlways, FwAlways, ServAlways, MacAlways, PTL

\* A pam apply hides no value the vendor layer sets below the file it creates: the
\* drop-in begins as a copy of what was in force (ensure_admin_config).
THEOREM NoVendorValueIsHidden == Spec => PamVendorSurvives
<1>1. PamInv /\ part = "pam" /\ [Next]_vars => (part = "pam" => Pam!VendorSurvives)
  <2> SUFFICES ASSUME PamInv, part = "pam", [Next]_vars
               PROVE  Pam!VendorSurvives
    OBVIOUS
  <2>1. [Pam!Next]_<<host, call>>  BY DEF Next, vars
  <2> QED  BY <2>1, HardeningAssumption, PamKeepsItsWord
<1>2. Spec /\ ~(part = "pam") => []~(part = "pam")
  <2>1. ~(part = "pam") /\ [Next]_vars => (~(part = "pam"))'  BY DEF Next, vars
  <2> QED  BY <2>1, PTL DEF Spec
<1> QED  BY <1>1, <1>2, PamAlways, PTL DEF Spec, PamVendorSurvives

\* What a step of an apply may not do, of any part.
HonestStep ==
    CASE part = "pam" -> Pam!PreviewIsHonest
      [] part = "audit" -> Audit!PreviewIsHonest
      [] part = "permissions" -> Perm!PreviewIsHonest
      [] OTHER -> TRUE

\* An apply changes nothing that the dry run of the same host would not have
\* announced: no pam directive, no unit and no rules file of auditd, no mode
\* (estimate, and the apply that reads the host again).  Two targets that are the two
\* least numbers there are negate alike, and may stand in each other's place.
THEOREM PreviewsAreHonest ==
  ASSUME PamTargetsApart
  PROVE  Spec => PreviewIsHonest
<1>1. PamInv /\ part = "pam" /\ [Next]_vars => HonestStep
  <2> SUFFICES ASSUME PamInv, part = "pam", [Next]_vars
               PROVE  Pam!PreviewIsHonest
    BY DEF HonestStep
  <2>1. [Pam!Next]_<<host, call>>  BY DEF Next, vars
  <2> QED  BY <2>1, HardeningAssumption, PamTargetsApart, PamKeepsItsWord
<1>2. AuditInv /\ part = "audit" /\ [Next]_vars => HonestStep
  <2> SUFFICES ASSUME AuditInv, part = "audit", [Next]_vars
               PROVE  Audit!PreviewIsHonest
    BY DEF HonestStep
  <2>1. [Audit!Next]_<<host, call>>  BY DEF Next, vars
  <2> QED  BY <2>1, HardeningAssumption, AuditAnnounces
<1>3. PermInv /\ part = "permissions" /\ [Next]_vars => HonestStep
  <2> SUFFICES ASSUME PermInv, part = "permissions", [Next]_vars
               PROVE  Perm!PreviewIsHonest
    BY DEF HonestStep
  <2>1. [Perm!Next]_<<host, call>>  BY DEF Next, vars
  <2> QED  BY <2>1, HardeningAssumption, PermAnnounces
<1> DEFINE other == ~(part = "pam") /\ ~(part = "audit") /\ ~(part = "permissions")
<1>4. other => HonestStep  BY DEF HonestStep
<1>5. Spec /\ other => []other
  <2>1. other /\ [Next]_vars => other'  BY DEF Next, vars
  <2> QED  BY <2>1, PTL DEF Spec
<1>6. other \/ part = "pam" \/ part = "audit" \/ part = "permissions"
  OBVIOUS
<1> HIDE DEF other
<1>7. PreviewIsHonest <=> [][HonestStep]_vars  BY DEF PreviewIsHonest, HonestStep
<1> QED
  BY <1>1, <1>2, <1>3, <1>4, <1>5, <1>6, <1>7, PamAlways, AuditAlways, PermAlways, PTL
     DEF Spec

\* What a step of an apply or a rollback may not weaken, of any part.
TighteningStep ==
    CASE part = "ssh" -> Ssh!KeepsCompliance
      [] part = "kernel" -> Kernel!NeverLoosens
      [] part = "pam" -> Pam!NeverLoosens
      [] part = "mac" -> Mac!NeverLoosensOnAGuess
      [] part = "permissions" -> Perm!MaskNeverAdds
      [] part = "firewall" -> Firewall!UndoNeverOpens
      [] OTHER -> TRUE

\* On a host nobody else has changed since the apply began, whichever of its commands
\* and writes fail: no directive sshd obeys, but those skipped and those a failed write
\* of the main file strands, no pam value in force and no running or persisted kernel
\* parameter is weakened, and no bit is added to a mode a mask is to tighten; no
\* rollback makes SELinux permissive but on the word of the file it restored, or stops
\* a firewall but the table this tool loaded.
THEOREM NothingIsLoosened == Spec => NeverLoosens
<1>1. PamInv /\ part = "pam" /\ [Next]_vars => TighteningStep
  <2> SUFFICES ASSUME PamInv, part = "pam", [Next]_vars
               PROVE  Pam!NeverLoosens
    BY DEF TighteningStep
  <2>1. [Pam!Next]_<<host, call>>  BY DEF Next, vars
  <2> QED  BY <2>1, HardeningAssumption, PamKeepsItsWord
<1>2. MacInv /\ part = "mac" /\ [Next]_vars => TighteningStep
  <2> SUFFICES ASSUME MacInv, part = "mac", [Next]_vars
               PROVE  Mac!NeverLoosensOnAGuess
    BY DEF TighteningStep
  <2>1. [Mac!Next]_<<host, call>>  BY DEF Next, vars
  <2> QED  BY <2>1, HardeningAssumption, MacLoosensNothing
<1>3. PermInv /\ part = "permissions" /\ [Next]_vars => TighteningStep
  <2> SUFFICES ASSUME PermInv, part = "permissions", [Next]_vars
               PROVE  Perm!MaskNeverAdds
    BY DEF TighteningStep
  <2>1. [Perm!Next]_<<host, call>>  BY DEF Next, vars
  <2> QED  BY <2>1, HardeningAssumption, PermLoosensNothing
<1>4. FwInv /\ part = "firewall" /\ [Next]_vars => TighteningStep
  <2> SUFFICES ASSUME FwInv, part = "firewall", [Next]_vars
               PROVE  Firewall!UndoNeverOpens
    BY DEF TighteningStep
  <2>1. [Firewall!Next]_<<host, call>>  BY DEF Next, vars
  <2> QED  BY <2>1, HardeningAssumption, FwUndoOpensNothing
<1>5. KernInv /\ part = "kernel" /\ [Next]_vars => TighteningStep
  <2> SUFFICES ASSUME KernInv, part = "kernel", [Next]_vars
               PROVE  Kernel!NeverLoosens
    BY DEF TighteningStep
  <2>1. [Kernel!Next]_<<host, call>>  BY DEF Next, vars
  <2> QED  BY <2>1, HardeningAssumption, KernLoosensNothing
<1>6. SshInv /\ part = "ssh" /\ [Next]_vars => TighteningStep
  <2> SUFFICES ASSUME SshInv, part = "ssh", [Next]_vars
               PROVE  Ssh!KeepsCompliance
    BY DEF TighteningStep
  <2>1. [Ssh!Next]_<<host, call>>  BY DEF Next, vars
  <2> QED  BY <2>1, HardeningAssumption, SshSteps
<1> DEFINE other == /\ ~(part = "ssh") /\ ~(part = "kernel") /\ ~(part = "pam")
                    /\ ~(part = "mac") /\ ~(part = "permissions") /\ ~(part = "firewall")
<1>7. other => TighteningStep  BY DEF TighteningStep
<1>8. Spec /\ other => []other
  <2>1. other /\ [Next]_vars => other'  BY DEF Next, vars
  <2> QED  BY <2>1, PTL DEF Spec
<1>9. other \/ part = "pam" \/ part = "mac" \/ part = "permissions" \/ part = "firewall"
        \/ part = "kernel" \/ part = "ssh"
  OBVIOUS
<1> HIDE DEF other
<1>10. NeverLoosens <=> [][TighteningStep]_vars  BY DEF NeverLoosens, TighteningStep
<1> QED
  BY <1>1, <1>2, <1>3, <1>4, <1>5, <1>6, <1>7, <1>8, <1>9, <1>10, PamAlways, MacAlways,
     PermAlways, FwAlways, KernAlways, SshAlways, PTL DEF Spec

\* What an apply that reports a success stands for, on a host nobody else has changed
\* since it began.  ssh: no directive sshd obeys is insecure (nor one the files give it,
\* where it reports that there was nothing to do), but those it reports as skipped and
\* those no write was owed for (`Unasked`).  pam: a scan finds nothing but what nothing
\* asks the file for and the drift of layers it found.  audit: no rule is missing after
\* a boot.  services, permissions, mac: no service of those systemctl spoke about, no
\* mode and no running mode is left to find.  kernel: a parameter the next boot brings
\* another value for is one a scan reports.  firewall: the default asked for is kept,
\* and what was written runs.
THEOREM SuccessesAreEarned == Spec => []SuccessIsEarned
<1>1. /\ PamInv /\ part = "pam" => SuccessIsEarned
      /\ AuditInv /\ part = "audit" => SuccessIsEarned
      /\ ServInv /\ part = "services" => SuccessIsEarned
      /\ MacInv /\ part = "mac" => SuccessIsEarned
      /\ PermInv /\ part = "permissions" => SuccessIsEarned
      /\ KernInv /\ part = "kernel" => SuccessIsEarned
      /\ SshInv /\ part = "ssh" => SuccessIsEarned
      /\ FwKept /\ part = "firewall" => SuccessIsEarned
  <2>1. PamInv => Pam!SuccessMeansHardened  BY DEF PamInv
  <2>2. AuditInv => Audit!SuccessMeansAudited  BY DEF AuditInv, AuditKept
  <2>3. ServInv => Serv!SuccessMeansMinimised  BY ServPromises
  <2>4. MacInv => Mac!SuccessMeansEnforcing  BY DEF MacInv
  <2>5. PermInv => Perm!SuccessMeansClean  BY DEF PermInv
  <2>6. KernInv => Kernel!HardeningSurvivesBoot  BY HardeningAssumption, KernSurvives
  <2>7. SshInv => Ssh!SuccessMeansHardened /\ Ssh!NoopMeansCompliant  BY SshPromises
  <2>8. FwKept => Firewall!SuccessMeansKept  BY DEF FwKept
  <2> QED  BY <2>1, <2>2, <2>3, <2>4, <2>5, <2>6, <2>7, <2>8 DEF SuccessIsEarned
<1> DEFINE other == /\ ~(part = "ssh") /\ ~(part = "kernel") /\ ~(part = "pam")
                    /\ ~(part = "audit") /\ ~(part = "firewall") /\ ~(part = "services")
                    /\ ~(part = "mac") /\ ~(part = "permissions")
<1>2. other => SuccessIsEarned  BY DEF SuccessIsEarned
<1>3. Spec /\ other => []other
  <2>1. other /\ [Next]_vars => other'  BY DEF Next, vars
  <2> QED  BY <2>1, PTL DEF Spec
<1>4. \/ other \/ part = "pam" \/ part = "audit" \/ part = "services" \/ part = "mac"
      \/ part = "permissions" \/ part = "kernel" \/ part = "ssh" \/ part = "firewall"
  OBVIOUS
<1> HIDE DEF other
<1> QED
  BY <1>1, <1>2, <1>3, <1>4, PamAlways, AuditAlways, ServAlways, MacAlways, PermAlways,
     KernAlways, SshAlways, FwKeptAlways, PTL

\* An apply that succeeds leaves admitted the traffic the session it came through came
\* by, whichever backend is there and whatever it found in its files, where the
\* configured ssh rule is one that traffic matches and no deny comes before it; where
\* firewalld had the rules and was not reloaded, in what it keeps.  Nothing is said of a
\* session on a port, or from a network, that ssh.port or source takes out of the rule:
\* ruleset_refusal asks whether the rule is there, and does not compare.
THEOREM TheSessionSurvives == Spec => []FirewallSessionSurvives
<1>1. FwKept => FirewallSessionSurvives  BY DEF FwKept, FirewallSessionSurvives
<1>2. ~(part = "firewall") => FirewallSessionSurvives  BY DEF FirewallSessionSurvives
<1>3. Spec /\ ~(part = "firewall") => []~(part = "firewall")
  <2>1. ~(part = "firewall") /\ [Next]_vars => ~(part = "firewall")'  BY DEF Next, vars
  <2> QED  BY <2>1, PTL DEF Spec
<1> QED  BY <1>1, <1>2, <1>3, FwKeptAlways, PTL

\* What a rollback says of the running system is true: a kernel parameter it reports as
\* diverged is, whatever files it could not read, and where every question is answered
\* one the boot brings another value for is not passed over; and every service that ran
\* and does not now is told (sysctl_divergences, service_divergences).
THEOREM RollbacksTellTheTruth == Spec => []DivergencesAreTrue
<1>1. /\ KernInv /\ part = "kernel" => DivergencesAreTrue
      /\ ServInv /\ part = "services" => DivergencesAreTrue
  <2>1. KernInv => Kernel!DivergedIsReal /\ Kernel!SilenceIsEarned
    BY HardeningAssumption, KernTells DEF KernInv, KernType
  <2>2. ServInv => Serv!LossIsTold  BY ServPromises
  <2> QED  BY <2>1, <2>2 DEF DivergencesAreTrue
<1> DEFINE other == ~(part = "kernel") /\ ~(part = "services")
<1>2. other => DivergencesAreTrue  BY DEF DivergencesAreTrue
<1>3. Spec /\ other => []other
  <2>1. other /\ [Next]_vars => other'  BY DEF Next, vars
  <2> QED  BY <2>1, PTL DEF Spec
<1>4. other \/ part = "kernel" \/ part = "services"  OBVIOUS
<1> HIDE DEF other
<1> QED  BY <1>1, <1>2, <1>3, <1>4, KernAlways, ServAlways, PTL

-----------------------------------------------------------------------------
(* Every part keeps the types it declares.                                 *)

LEMMA SshRunsAlways ==
  Spec /\ part = "ssh" => [](part = "ssh" /\ Ssh!TypeOK)
<1> DEFINE runs == part = "ssh" /\ SshInv /\ DOMAIN host.running = Ssh!Key
<1>1. Init /\ part = "ssh" => DOMAIN host.running = Ssh!Key
  <2> SUFFICES ASSUME Ssh!Init PROVE DOMAIN host.running = Ssh!Key  BY DEF Init
  <2>1. \E m, f : host = [main |-> m, frag |-> f, running |-> Ssh!Obeyed(m, f), inode |-> 1]
    BY Zenon DEF Ssh!Init
  <2>2. PICK m, f : host.running = Ssh!Obeyed(m, f)  BY <2>1
  <2> QED  BY <2>2 DEF Ssh!Obeyed
<1>2. /\ SshInv /\ part = "ssh" /\ DOMAIN host.running = Ssh!Key /\ [Next]_vars
      => (DOMAIN host.running = Ssh!Key)'
  <2> SUFFICES ASSUME SshInv, part = "ssh", DOMAIN host.running = Ssh!Key, [Next]_vars
               PROVE  DOMAIN host'.running = Ssh!Key
    OBVIOUS
  <2>1. [Ssh!Next]_<<host, call>>  BY DEF Next, vars
  <2> QED  BY <2>1, SshRunsOn
<1>3. SshInv /\ DOMAIN host.running = Ssh!Key => Ssh!TypeOK  BY SshTyped
<1> QED  BY <1>1, <1>2, <1>3, SshAlways, PTL DEF Spec

LEMMA OrderTyped == ASSUME OrderInv PROVE Order!TypeOK
<1>1. call \in OrderManager /\ left \in Order!Asked  BY DEF OrderInv, OrderType
<1>2. call.order \in Seq(OrderParams.Plugin)  BY <1>1 DEF OrderManager
<1>3. \A i \in DOMAIN call.order : call.order[i] \in OrderParams.Plugin
  <2>1. DOMAIN call.order = 1 .. Len(call.order)  BY <1>2
  <2> QED  BY <1>2, <2>1
<1>4. Order!Ordered \subseteq OrderParams.Plugin  BY <1>3 DEF Order!Ordered
<1> QED  BY <1>1, <1>4 DEF Order!TypeOK, OrderManager

LEMMA DbTyped == ASSUME DbInv PROVE Database!TypeOK
  BY DEF DbInv, DbType, DbOpener, Database!TypeOK

LEMMA PostureTyped == ASSUME PostureInv PROVE Posture!TypeOK
<1>1. \A r \in call.results : r.plugin \in Posture!Plugins  BY DEF PostureInv, Accounts
<1> QED  BY <1>1 DEF PostureInv, Posture!TypeOK, Posture!Possible

\* Whichever part runs, its state keeps the shape its module declares, for every value
\* of the constants: the plugins with their commands and other programs that write the
\* host, the key, the database, the fleet, the report and the desktop.
THEOREM EveryPartKeepsItsTypes == Spec => []TypeOK
<1>1. Spec => part \in Part  BY PartsAssumption DEF Spec, Init
<1>2. /\ part = "ssh" /\ Ssh!TypeOK => TypeOK
      /\ part = "kernel" /\ KernInv => TypeOK
      /\ part = "pam" /\ PamInv => TypeOK
      /\ part = "audit" /\ AuditInv => TypeOK
      /\ part = "firewall" /\ FwInv => TypeOK
      /\ part = "services" /\ ServInv => TypeOK
      /\ part = "mac" /\ MacInv => TypeOK
      /\ part = "permissions" /\ PermInv => TypeOK
  BY KernTyped, PamTyped, AuditTyped, FwTyped, ServTyped, MacTyped, PermTyped DEF TypeOK
<1>3. /\ part = "order" /\ OrderInv => TypeOK
      /\ part = "database" /\ DbInv => TypeOK
      /\ part = "posture" /\ PostureInv => TypeOK
      /\ part = "key" /\ Key!TypeOK => TypeOK
      /\ part = "fleet" /\ Fleet!TypeOK => TypeOK
      /\ part = "desktop" /\ Desktop!TypeOK => TypeOK
  BY OrderTyped, DbTyped, PostureTyped DEF TypeOK
<1>4. Spec /\ part = "key" => [](part = "key" /\ Key!TypeOK)
  <2>1. Init /\ part = "key" => Key!Init  BY DEF Init
  <2>2. [Next]_vars /\ part = "key" => [Key!Next]_(Key!vars) /\ (part = "key")'
    BY DEF Next, vars, Key!vars
  <2>3. Key!Spec => []Key!TypeOK  BY PartsAssumption, Key!TypeCorrect
  <2> QED  BY <2>1, <2>2, <2>3, PTL DEF Spec, Key!Spec
<1>5. Spec /\ part = "fleet" => [](part = "fleet" /\ Fleet!TypeOK)
  <2>1. Init /\ part = "fleet" => Fleet!Init  BY DEF Init
  <2>2. [Next]_vars /\ part = "fleet" => [Fleet!Next]_(Fleet!vars) /\ (part = "fleet")'
    BY DEF Next, vars, aside, Fleet!vars
  <2>3. Fleet!Spec => []Fleet!TypeOK  BY PartsAssumption, Fleet!TypeCorrect
  <2> QED  BY <2>1, <2>2, <2>3, PTL DEF Spec, Fleet!Spec
<1>6. Spec /\ part = "desktop" => [](part = "desktop" /\ Desktop!TypeOK)
  <2>1. Init /\ part = "desktop" => Desktop!Init  BY DEF Init
  <2>2. [Next]_vars /\ part = "desktop" => [Desktop!Next]_(Desktop!vars) /\ (part = "desktop")'
    BY DEF Next, vars, Desktop!vars
  <2>3. Desktop!Spec => []Desktop!TypeOK  BY PartsAssumption, Desktop!TypeCorrect
  <2> QED  BY <2>1, <2>2, <2>3, PTL DEF Spec, Desktop!Spec
<1>7. part \in Part =>
        \/ part = "ssh" \/ part = "kernel" \/ part = "pam" \/ part = "audit"
        \/ part = "firewall" \/ part = "services" \/ part = "mac" \/ part = "permissions"
        \/ part = "order" \/ part = "key" \/ part = "database" \/ part = "fleet"
        \/ part = "posture" \/ part = "desktop"
  BY DEF Part
<1>8. /\ Spec /\ part = "ssh" => []TypeOK
      /\ Spec /\ part = "kernel" => []TypeOK
      /\ Spec /\ part = "pam" => []TypeOK
      /\ Spec /\ part = "audit" => []TypeOK
      /\ Spec /\ part = "firewall" => []TypeOK
      /\ Spec /\ part = "services" => []TypeOK
      /\ Spec /\ part = "mac" => []TypeOK
      /\ Spec /\ part = "permissions" => []TypeOK
  BY <1>2, SshRunsAlways, KernAlways, PamAlways, AuditAlways, FwAlways, ServAlways, MacAlways,
     PermAlways, PTL
<1>9. /\ Spec /\ part = "order" => []TypeOK
      /\ Spec /\ part = "database" => []TypeOK
      /\ Spec /\ part = "posture" => []TypeOK
      /\ Spec /\ part = "key" => []TypeOK
      /\ Spec /\ part = "fleet" => []TypeOK
      /\ Spec /\ part = "desktop" => []TypeOK
  BY <1>3, <1>4, <1>5, <1>6, OrderAlways, DbAlways, PostureAlways, PTL
<1> QED  BY <1>1, <1>7, <1>8, <1>9
=============================================================================
